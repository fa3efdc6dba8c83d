CONSTANTS
    Writers = {w1}
    Closers = {c1}
    Window = 1
    MaxSends = 1
    OutCap = 1
SPECIFICATION Spec
PROPERTY CloseReturns
CHECK_DEADLOCK FALSE
