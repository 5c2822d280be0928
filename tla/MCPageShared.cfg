CONSTANTS
    NONE = NONE
    START = START
    DESKTOP = DESKTOP
    MUSIC = MUSIC
    FILE = FILE
    SETTINGS = SETTINGS
    LOG_CTRL = LOG_CTRL
    DEBUG = DEBUG
    USB_CTRL = USB_CTRL
    DISPLAY = DISPLAY
    FullScreen = {DISPLAY}
    AboveLvgl = {DISPLAY}
    Links <- FirmwareLinks
    Origin <- DisplayFromUsb
    PAGE_HISTORY_MAX_DEPTH = 3
    Managed = {MUSIC, FILE, USB_CTRL}
    MusicPlays = TRUE
SPECIFICATION Spec
INVARIANTS
    NoOverrun
    NoUnderrun
    DesktopOnlyAtBottom
CHECK_DEADLOCK FALSE
