CONSTANTS
    Calls <- EveryCall
    Faults = {"command", "data", "gone"}
SPECIFICATION LiveSpec
INVARIANTS
    OkMeansComplete
    ErrorIsReturned
    NoInterruptLeft
PROPERTIES
    CallsReturn
