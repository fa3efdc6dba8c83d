CONSTANTS
    Writers = {w1, w2}
    Closers = {c1}
    Window = 1
    MaxSends = 3
    OutCap = 1
SPECIFICATION Spec
PROPERTY AcceptedDelivered
CHECK_DEADLOCK FALSE
