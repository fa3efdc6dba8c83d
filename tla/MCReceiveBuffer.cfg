CONSTANTS
    Closers = {k1, k2}
    Window = 2
    MaxFrames = 4
    MaxFrameLen = 2
    MaxReadLen = 2
    MaxReads = 5
SPECIFICATION Spec
SYMMETRY Symmetry
INVARIANT TypeOK DeliveryIntegrity NoSubmitOnClosedQueue SubmitNeverBlocks
CHECK_DEADLOCK FALSE
