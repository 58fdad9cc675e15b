--------------------------- MODULE MCSharedLayout ---------------------------
(* A header of 3 bytes and records of 2 or 4 bytes, in numbers of 5 bits, so *)
(* that alignments leave gaps and the largest capacities do not fit.         *)
EXTENDS SharedLayout

MCItemSize == <<2, 4, 2, 4>>
MCAlignment == <<2, 4, 2, 4>>
MCSettings == {0, 2}
MCSpecific == {Inherit, 0, 1, 3}
=============================================================================
