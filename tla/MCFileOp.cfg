CONSTANTS
    Blocks = {b1, b2, b3}
    NULL = NULL
    WORK = 2
SPECIFICATION LiveSpec
INVARIANTS
    ButtonsBlockedWhileBusy
    WorkerOwnsRequest
    ProgressPointsToLiveBlock
PROPERTIES
    
    RequestsFinish
