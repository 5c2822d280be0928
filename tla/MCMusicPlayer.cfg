CONSTANTS
    Songs = 2
    Changes = FALSE
SPECIFICATION LiveSpec
INVARIANTS
    NothingLeaks
    DmaHasBuffers
    BackInStep
    DecoderIsFound
PROPERTIES
    LeavingStops
