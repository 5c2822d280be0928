CONSTANTS
    Tasks = {lvgl, usb}
    Lines = {junk, a, b, long}
    LongLines = {long}
    Junk = junk
    TSDB_QUEUE_SIZE = 3
    MaxPrints = 5
SPECIFICATION LiveSpec
INVARIANTS
    RingConsistent
    ClockNotBehind
PROPERTIES
    ImplementsFifo
    OldestLineLeaves
