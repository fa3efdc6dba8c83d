CONSTANTS
    Callers = {c1, c2}
    NoCaller = NoCaller
    MaxStreamsPerConn = 1
    MaxDials = 5
    StartOutcomes = {"ok"}
SPECIFICATION Spec
INVARIANT TypeOK UniqueStreams LockReleased
PROPERTY DialReturns
CHECK_DEADLOCK FALSE
