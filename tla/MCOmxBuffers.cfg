SPECIFICATION BuffersFairSpec
CONSTANTS
    N = 3
    NoOne = NoOne
    FeedLooper = FeedLooper
    ConfigThread = ConfigThread
    Writers <- MCWriters
INVARIANTS OwnedByOne FillIsExclusive NoBufferLost FlushedFreeIsSafe
PROPERTY FreeEnds
CHECK_DEADLOCK FALSE
