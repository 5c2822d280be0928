------------------------------- MODULE UsbTask -------------------------------
(***************************************************************************)
(* The USB function switch: USB_Task (4-ware/Tasks/usb_task.c), which makes  *)
(* the function that runs follow g_usb_function, and everybody who writes    *)
(* that variable: the USB, log, command and control pages, the host that     *)
(* ejects the mass storage, the key that ends the USB display, and the       *)
(* detection of an unplugged cable (BSP/adc.c).                              *)
(*                                                                         *)
(* USB_Task has a higher priority than the LVGL task and Basic_Task: they    *)
(* run only where it blocks, that is in the task of a function (pc is "run"), *)
(* in a deinitialisation that waits ("close"), in the mount of the card       *)
(* ("mount") and in Delay_ms(300) between two functions ("pause").           *)
(*                                                                         *)
(* Simplifications: a function stands for its class, with its init, deinit   *)
(* and task; the SD card stays in its slot; g_usb_status is reduced to what  *)
(* is at the other end of the cable; the button that starts a function is     *)
(* enabled by what the page saw last, however long ago that was.             *)
(*                                                                         *)
(* UsbInit, UsbNext and UsbSpec carry the component's name because            *)
(* PageUsb_proofs extends this module together with PageManager.             *)
(***************************************************************************)
CONSTANT Functions   \* the functions the user may ask for

Device == {"USBD_LOG", "USBD_CMD", "USBD_MSC", "USBD_UAC1", "USBD_UAC2",
           "USBD_DISP", "USBD_GMPD", "USBD_KBD", "USBD_MOU"}
Host   == {"USBH_CDC", "USBH_MSC", "USBH_HID"}

ASSUME FunctionsAssumption == Functions \subseteq Device \cup Host

VARIABLES
    requested,   \* g_usb_function
    last,        \* last_usb_function
    open,        \* the function that was initialised and not deinitialised
    pc,          \* where USB_Task blocks
    again,       \* case 3: a function is to be initialised after the deinit
    plug,        \* g_usb_status: "none" (below 3), "device" or "host"
    seen,        \* last_usb_status > 2
    shown,       \* the status by which the USB page enables its button
    mounted,     \* the firmware has mounted the SD card
    misused      \* a function was run or deinitialised that was not initialised

switch == <<last, open, pc, again, mounted, misused>>
usbVars == <<requested, plug, seen, shown, switch>>

Choices == Functions \cup {"none"}

UsbTypeOK ==
    /\ requested \in Choices /\ last \in Choices /\ open \in Choices
    /\ pc \in {"run", "close", "mount", "pause", "hang"}
    /\ again \in BOOLEAN
    /\ plug \in {"none", "device", "host"}
    /\ seen \in BOOLEAN
    /\ shown \in {"none", "device", "host"}
    /\ mounted \in BOOLEAN
    /\ misused \in BOOLEAN

UsbInit ==
    /\ requested = "none" /\ last = "none" /\ open = "none"
    /\ pc = "run" /\ again = FALSE
    /\ plug = "none" /\ seen = FALSE /\ shown = "none"
    /\ mounted = TRUE
    /\ misused = FALSE

(***************************************************************************)
(* USB_Task                                                                *)
(***************************************************************************)

\* The deinitialisations that wait: usbd_msc_deinit for 300 ms, those of the
\* host classes for the thread of the hub.
Waits(f) == f \in Host \cup {"USBD_MSC"}

\* The functions the second switch of case 3 initialises: USBH_MSC is missing.
CmdForgotten(f) == f \in (Device \cup Host) \ {"USBH_MSC", "USBD_CMD"}   \* mutant
Restarted(f) == f \in (Device \cup Host) \ {"USBH_MSC"}

\* g_usb_function after the test for an unplugged cable.
UnplugIgnored == requested   \* mutant: the edge is not seen
Wanted == IF seen /\ plug = "none" THEN "none" ELSE requested

\* The comparison that starts a switch.
OnOffOnly == (Wanted = "none") # (last = "none")   \* mutant: as truth values
Changes == Wanted # last

\* USB_Task comes to the task of f when o is open.
RunNotStored(f, o) ==   \* mutant: last_usb_function is forgotten
    /\ UNCHANGED <<last, misused>> /\ open' = o /\ pc' = "run"
Run(f, o) ==
    /\ last' = f
    /\ open' = o
    /\ pc' = "run"
    /\ misused' = (misused \/ f \notin {"none", o})

\* ..._init; usbd_msc_init unmounts the card before it lets the host use it.
NoUnmount(f) == mounted   \* mutant: the card stays mounted
Unmounted(f) == mounted /\ f # "USBD_MSC"

Initialise(f) ==
    /\ Run(f, f)
    /\ mounted' = Unmounted(f)
    /\ UNCHANGED again

\* What follows a deinitialisation: in case 3 the pause, in case 2 the statement
\* that remembers g_usb_function (f) as the function that runs.
Proceed(f) ==
    IF again' THEN pc' = "pause" /\ open' = "none" /\ UNCHANGED <<last, misused>>
              ELSE Run(f, "none")

\* Case 1: idle, initialise, run.
Begin ==
    /\ pc = "run" /\ Changes /\ last = "none"
    /\ requested' = Wanted /\ seen' = (plug # "none")
    /\ Initialise(Wanted)
    /\ UNCHANGED <<plug, shown>>

\* Cases 2 and 3: the deinitialisation of the function that ran.
End ==
    /\ pc = "run" /\ Changes /\ last # "none"
    /\ requested' = Wanted /\ seen' = (plug # "none")
    /\ again' = (Wanted # "none")
    /\ IF Waits(last) THEN pc' = "close" /\ UNCHANGED <<last, open, misused>>
                      ELSE Proceed(Wanted)
    /\ UNCHANGED <<plug, shown, mounted>>

\* Nothing to switch: the task of the function runs once more.
Stay ==
    /\ pc = "run" /\ ~Changes
    /\ requested' = Wanted /\ seen' = (plug # "none")
    /\ UNCHANGED <<plug, shown, switch>>

\* A function that was not initialised has no queues, buffers and mutexes: its
\* task or its deinitialisation may do anything, here it goes on or stops.
Hang ==
    /\ pc \in {"run", "close"} /\ last \notin {"none", open}
    /\ pc' = "hang"
    /\ UNCHANGED <<requested, plug, seen, shown, last, open, again, mounted, misused>>

\* The deinitialisation that waited is done; usbd_msc_deinit goes on to mount
\* the card.
Close ==
    /\ pc = "close"
    /\ again' = again
    /\ IF last = "USBD_MSC"
         THEN pc' = "mount" /\ open' = "none" /\ UNCHANGED <<last, misused>>
         ELSE Proceed(requested)
    /\ UNCHANGED <<requested, plug, seen, shown, mounted>>

Mount ==
    /\ pc = "mount"
    /\ mounted' = TRUE
    /\ again' = again
    /\ Proceed(requested)
    /\ UNCHANGED <<requested, plug, seen, shown>>

\* Case 3 after Delay_ms(300): g_usb_function is read again.
Restart ==
    /\ pc = "pause"
    /\ IF Restarted(requested)
         THEN Initialise(requested)
         ELSE Run(requested, "none") /\ UNCHANGED <<again, mounted>>
    /\ UNCHANGED <<requested, plug, seen, shown>>

(***************************************************************************)
(* The writers of g_usb_function                                           *)
(***************************************************************************)

\* The LVGL task is suspended while the USB display owns the screen.
LvglRuns == open # "USBD_DISP"

Ask(f) == requested' = f /\ UNCHANGED <<plug, seen, switch>>

\* start_task_event_cb of the USB page, and update_controls_state.
Start(f) ==
    /\ LvglRuns
    /\ f \notin {"USBD_LOG", "USBD_CMD", "USBH_CDC"}
    /\ shown = IF f \in Device THEN "device" ELSE "host"
    /\ Ask(f)
    /\ shown' = plug

\* Update_USB_Unit
UpdatePage ==
    /\ LvglRuns
    /\ Ask(IF plug = "none" THEN "none" ELSE requested)
    /\ shown' = plug

\* sw_event_cb, mode_btn_event_cb and dump_usb_event_cb of the log page.
StartLog == LvglRuns /\ "USBD_LOG" \in Functions /\ Ask("USBD_LOG") /\ UNCHANGED shown

\* usb_mode_cb of the command page.
StartCmd ==
    /\ LvglRuns /\ "USBD_CMD" \in Functions
    /\ requested # "USBD_CMD" /\ plug = "device"
    /\ Ask("USBD_CMD")
    /\ UNCHANGED shown

\* The buttons that end a function, on all pages.
UserEnds == LvglRuns /\ Ask("none") /\ UNCHANGED shown

\* SCSI_startStopUnit and usb_display_task, which USB_Task runs itself.
FunctionEnds ==
    /\ pc = "run" /\ last = open /\ last \in {"USBD_MSC", "USBD_DISP"}
    /\ Ask("none")
    /\ UNCHANGED shown

\* ADC_Calculate_Voltage: from one kind of plug to the other through "none".
Cable ==
    /\ plug' \in IF plug = "none" THEN {"device", "host"} ELSE {"none"}
    /\ UNCHANGED <<requested, seen, shown, switch>>

-----------------------------------------------------------------------------
UsbTask == Begin \/ End \/ Stay \/ Hang \/ Close \/ Mount \/ Restart
UsbWidgets == (\E f \in Functions : Start(f)) \/ UpdatePage \/ StartLog \/ StartCmd \/ UserEnds

UsbNext == UsbTask \/ UsbWidgets \/ FunctionEnds \/ Cable

\* All calls of USB_Task return, but for those on a function that was not
\* initialised.
UsbSpec == UsbInit /\ [][UsbNext]_usbVars /\ WF_usbVars(UsbTask)

(***************************************************************************)
(* Properties                                                              *)
(***************************************************************************)

\* No function stays initialised behind the back of USB_Task, whatever is
\* requested while it waits: what is open is what the next change will close
\* (last_usb_function against the switches of cases 1 to 3).
NothingStranded == open # "none" => open = last

\* One function at a time, and the SD card is with the firmware or with the
\* host, never with both, and with the firmware before the next function
\* starts (usbd_msc_init, usbd_msc_deinit, case 3).
Slot == INSTANCE UsbSlot WITH slot <- open, card <- IF mounted THEN "firmware" ELSE "host"
ImplementsSlot == Slot!Spec

\* USB_Task switches to what is requested unless something else is requested
\* meanwhile (g_usb_function is read at three places of the loop).
RequestIsFollowed ==
    \A f \in Choices : requested = f ~> (last = f \/ requested # f \/ misused)

\* A function does not outlive its cable: when the cable is pulled, the
\* function ends, unless something is plugged in again.
UnplugEnds == (seen /\ plug = "none") ~> (requested = "none" \/ plug # "none" \/ misused)

\* USB_Task loses track in two places only: when a function is requested while
\* the last one, which was to be the last, closes in a deinitialisation that
\* waits, and when the function of the second switch of case 3 is USBH_MSC.
\* Until then it runs and deinitialises initialised functions only.
LosesTrackTwice ==
    [][~misused /\ misused' =>
          \/ pc \in {"close", "mount"} /\ ~again /\ requested # "none"
          \/ pc = "pause" /\ requested = "USBH_MSC"]_usbVars

-----------------------------------------------------------------------------
\* usb_task.c:82 says "running - deinitialise - initialise - running": USB_Task
\* runs and deinitialises initialised functions only.
RunsInitialised == ~misused
=============================================================================
