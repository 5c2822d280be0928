------------------------------ MODULE MCFileOp ------------------------------
(* Model checking of FileOp with a handful of heap blocks.                  *)
EXTENDS FileOp
=============================================================================
