CONSTANTS
    Callers = {c1, c2}
    NoCaller = NoCaller
    MaxStreamsPerConn = 1
    MaxDials = 3
    StartOutcomes = {"ok"}
SPECIFICATION Spec
INVARIANT IdsFromZero
CHECK_DEADLOCK FALSE
