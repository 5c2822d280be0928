CONSTANTS
    Last = 5
    SectorOf <- Layout
    LastSector = 2
    Reads <- Buffers
SPECIFICATION LiveSpec
INVARIANTS
    AcceptedMeansComplete
    NoScratch
PROPERTIES
    AcceptedIsKept
    FontsArrive
CHECK_DEADLOCK FALSE
