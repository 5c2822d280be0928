CONSTANTS
    NONE = NONE
    START = START
    DESKTOP = DESKTOP
    MUSIC = MUSIC
    FILE = FILE
    SETTINGS = SETTINGS
    LOG_CTRL = LOG_CTRL
    DEBUG = DEBUG
    USB_CTRL = USB_CTRL
    DISPLAY = DISPLAY
    FullScreen = {DISPLAY}
    AboveLvgl = {DISPLAY}
    Links <- FirmwareLinks
    Origin <- DisplayFromUsb
    PAGE_HISTORY_MAX_DEPTH = 2
    Managed = {SETTINGS, LOG_CTRL, DEBUG, USB_CTRL}
    MusicPlays = FALSE
SPECIFICATION LiveSpec
INVARIANTS
    TypeOK
PROPERTIES
    RequestIsShown
    BackLeadsHome
CHECK_DEADLOCK FALSE
