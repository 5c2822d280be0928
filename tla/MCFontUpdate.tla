---------------------------- MODULE MCFontUpdate -----------------------------
(* Model checking of FontUpdate on two fonts that fill the region: one of    *)
(* two buffers, the second of them short, and one of a single buffer.        *)
EXTENDS FontUpdate

\* Header; first buffer in sectors 0 and 1; rest of the font in sector 1; the
\* second font in sectors 1 and 2.
Layout == [p \in 0..5 |-> <<0, 0, 1, 1, 1, 2>>[p + 1]]
Buffers == {1, 3, 4}
=============================================================================
