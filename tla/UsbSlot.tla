------------------------------- MODULE UsbSlot -------------------------------
(***************************************************************************)
(* What USB_Task promises: one USB controller, one function at a time.  The  *)
(* slot is emptied before it is filled again, and the SD card, which the     *)
(* mass storage hands to the host, is back with the firmware before another  *)
(* function starts.                                                        *)
(***************************************************************************)
CONSTANT Functions

VARIABLES
    slot,   \* the function that is initialised, or "none"
    card    \* who uses the file system of the SD card

vars == <<slot, card>>

Init == slot = "none" /\ card = "firmware"

Fill(f) ==
    /\ slot = "none" /\ card = "firmware"
    /\ slot' = f
    /\ card' = IF f = "USBD_MSC" THEN "host" ELSE card

Empty == slot # "none" /\ slot' = "none" /\ UNCHANGED card

Return == slot = "none" /\ card = "host" /\ card' = "firmware" /\ UNCHANGED slot

Next == (\E f \in Functions : Fill(f)) \/ Empty \/ Return

Spec == Init /\ [][Next]_vars /\ WF_vars(Return)
=============================================================================
