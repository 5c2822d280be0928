----------------------------- MODULE MCBootUf2 ------------------------------
(* Model checking of BootUf2: two files that fit and one that does not, a   *)
(* cache of two blocks, a sector of one chunk and two of two chunks.        *)
EXTENDS BootUf2

\* Sectors 4 (64 KB), 5 and 6 (128 KB) of the STM32F407, scaled down.
Layout == [s \in 0..6 |-> <<4, 4, 5, 5, 5, 5, 6>>[s + 1]]
Sizes == [f \in Files |-> CASE f = "small" -> 3 [] f = "large" -> 5 [] f = "huge" -> 7]
=============================================================================
