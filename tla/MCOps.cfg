CONSTANTS
    Reporters = {r1, r2}
    Ops = {o1, o2}
    Errs = {e1, e2}
    MaxFails = 2
SPECIFICATION Spec
SYMMETRY Symmetry
INVARIANT ReportsAgree ReportedToRegistered
CHECK_DEADLOCK FALSE
