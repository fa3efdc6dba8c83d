CONSTANTS
    Callers = {c1, c2}
    NoCaller = NoCaller
    MaxStreamsPerConn = 2
    MaxDials = 4
    StartOutcomes = {"ok"}
SPECIFICATION Spec
INVARIANT StreamsPerSessionBound
CHECK_DEADLOCK FALSE
