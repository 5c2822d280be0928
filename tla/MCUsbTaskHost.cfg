CONSTANTS
    Functions = {"USBH_HID", "USBH_MSC"}
SPECIFICATION UsbSpec
INVARIANTS
    RunsInitialised
