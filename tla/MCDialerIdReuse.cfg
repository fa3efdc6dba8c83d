CONSTANTS
    Callers = {c1, c2}
    NoCaller = NoCaller
    MaxStreamsPerConn = 1
    MaxDials = 4
    StartOutcomes = {"ok", "dialErr"}
SPECIFICATION Spec
INVARIANT UniqueStreams
CHECK_DEADLOCK FALSE
