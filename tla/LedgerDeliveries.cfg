SPECIFICATION Spec
CONSTANTS
    None = None
    ChunkMsgs <- CollidingChunks
    WatermarkMsgs <- CollidingWatermarks
    CloseMsgs <- CollidingCloses
    PositionMsgs <- Positions
    WatermarkLock = TRUE
INVARIANTS
    OneContentPerIdentity
    FrontierOrdered
    CloseCoversEveryPartition
    EventsAreThoseOfChunks
    PositionCloseStaysBacked
PROPERTIES
    NothingNewBehindFrontier
CHECK_DEADLOCK FALSE
