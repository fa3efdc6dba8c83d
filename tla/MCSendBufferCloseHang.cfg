CONSTANTS
    Writers = {w1}
    Closers = {c1}
    Window = 1
    MaxSends = 2
    OutCap = 1
SPECIFICATION SpecSilentPeer
PROPERTY DrainBoundedByTimeout
CHECK_DEADLOCK FALSE
