\* Four frames of two sizes, two pending blocks.
CONSTANTS
    MaxFrames = 4
    MaxTime = 4
    TicksPerStep = 2
    Slack = 1
    HoldLag = 2
    Sizes = {1, 2}
    MaxPendingBytes = 13
    MaxPendingBlocks = 2
    WriteBatch = 2
    NoFrame = NoFrame
SPECIFICATION FairSpec
CHECK_DEADLOCK FALSE
INVARIANTS
    BlocksAscend
    AcceptedFramesShown
    QueueBounded
    EndsOnAStep
    EarlyExitReported
PROPERTIES
    PunctualFramesStartOnTime
    RecorderReleased
