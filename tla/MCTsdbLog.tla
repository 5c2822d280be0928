------------------------------ MODULE MCTsdbLog -----------------------------
(* Model checking of TsdbLog: two printing tasks and a short ring.          *)
EXTENDS TsdbLog
=============================================================================
