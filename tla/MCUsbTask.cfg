CONSTANTS
    Functions = {"USBD_LOG", "USBD_CMD", "USBD_MSC", "USBD_DISP", "USBH_HID", "USBH_MSC"}
SPECIFICATION UsbSpec
INVARIANTS
    NothingStranded
PROPERTIES
    ImplementsSlot
    RequestIsFollowed
    UnplugEnds
    LosesTrackTwice
