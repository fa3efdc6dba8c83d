CONSTANTS
    Callers = {c1, c2}
    NoCaller = NoCaller
    MaxStreamsPerConn = 1
    MaxDials = 3
    StartOutcomes = {"ok", "handshakeErr"}
SPECIFICATION Spec
INVARIANT LockReleased
CHECK_DEADLOCK FALSE
