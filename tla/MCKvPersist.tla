----------------------------- MODULE MCKvPersist -----------------------------
(* Model checking of KvPersist with two settings of two values.             *)
EXTENDS KvPersist
=============================================================================
