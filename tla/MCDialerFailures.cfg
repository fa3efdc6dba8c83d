CONSTANTS
    Callers = {c1, c2}
    NoCaller = NoCaller
    MaxStreamsPerConn = 1
    MaxDials = 5
    StartOutcomes = {"ok", "dialErr", "handshakeErr"}
SPECIFICATION Spec
SYMMETRY Symmetry
INVARIANT CurrentNotClosed LockHeldOnlyByLeakers DuplicatesOnlyAfterReset
CHECK_DEADLOCK FALSE
