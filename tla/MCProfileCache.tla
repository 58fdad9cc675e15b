--------------------------- MODULE MCProfileCache ---------------------------
(* Instances of ProfileCache for TLC: the weights of records the cfg files *)
(* cannot write.                                                           *)
EXTENDS ProfileCache

\* pwb.profile_ewma_alpha = 0.5
HalfWeight == [numerator |-> 1, denominator |-> 2]
=============================================================================
