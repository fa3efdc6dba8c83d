CONSTANTS
    Writers = {w1, w2}
    Closers = {c1}
    Window = 2
    MaxSends = 4
    OutCap = 2
SPECIFICATION Spec
SYMMETRY Symmetry
INVARIANT TypeOK NoSendOnSealedQueue FlowControl StreamIntegrity
PROPERTY StreamRefinement RSTFinal
CHECK_DEADLOCK FALSE
