------------------------------ MODULE MCUsbTask ------------------------------
(* Model checking of UsbTask with one function of each kind. *)
EXTENDS UsbTask
=============================================================================
