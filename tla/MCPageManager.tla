---------------------------- MODULE MCPageManager ----------------------------
(* Model checking of PageManager on two parts of the firmware's page graph.  *)
EXTENDS PageManager, TLC

CONSTANTS SETTINGS, LOG_CTRL, DEBUG, USB_CTRL, DISPLAY

\* start_unit.c, the Home buttons of the navigation bar and of the music page,
\* desktop_unit.c, settings_unit.c, log_ctrl_unit.c, debug_unit.c, music_unit.c.
FirmwareLinks ==
    ({<<START, DESKTOP>>} \cup {<<p, DESKTOP>> : p \in Managed} \cup
     {<<DESKTOP, q>> : q \in {SETTINGS, MUSIC, FILE, USB_CTRL}} \cup
     {<<SETTINGS, LOG_CTRL>>, <<LOG_CTRL, DEBUG>>, <<DEBUG, LOG_CTRL>>, <<MUSIC, FILE>>})
    \cap (Pages \X Pages)

DisplayFromUsb == [f \in {DISPLAY} |-> USB_CTRL]
=============================================================================
