---------------------------- MODULE MCSdTransfer -----------------------------
(* Model checking of SdTransfer.                                            *)
EXTENDS SdTransfer

\* Every path through SD_ReadDisk and SD_WriteDisk: one sector or two, in an
\* aligned buffer or not.
EveryCall == [dir : {"read", "write"}, cnt : {1, 2}, aligned : BOOLEAN]
=============================================================================
