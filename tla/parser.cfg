SPECIFICATION FairSpec
CONSTANTS
    MAX_FRAME_BYTES = 9
    FRAME_RESYNC_GAP = 1
    Frames <- TwoFrames
    Noise <- StartAndLengths
    UartSize = 3
    MaxFaults = 2
INVARIANTS
    BufferHoldsTheFrame
    GoodFramesAreRead
    NothingInvented
PROPERTIES
    FramesGetThrough
