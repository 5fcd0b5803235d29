\* Transfers that keep to the 50 ms, or outlast them, fail, or leave the
\* stream unusable.
CONSTANTS
    NumTx = 5
    BlkMax = 2
    SemMax = 3
    Frames <- AllFrames
    FaultyFrames <- White
    MaxErrors = 2
SPECIFICATION FairSpec
INVARIANTS TypeOK StaleTokenBound OnlyAfterTimeout InBounds FrameShown
PROPERTIES RefreshReturns
