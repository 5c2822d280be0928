CONSTANTS
    Files = {"small", "large", "huge"}
    Count <- Sizes
    Last = 6
    SectorOf <- Layout
    Chunk = 2
    BlocksMax = 7
    Faults = {}
SPECIFICATION LiveSpec
INVARIANTS
    
    CountedIsKept
PROPERTIES
    FileIsNotDamaged
    CopyInstalls
CHECK_DEADLOCK FALSE
