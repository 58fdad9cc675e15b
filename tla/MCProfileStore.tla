--------------------------- MODULE MCProfileStore ---------------------------
(* Instances of ProfileStore for TLC: the records and functions that the   *)
(* cfg files cannot write.                                                 *)
EXTENDS ProfileStore

CONSTANTS a, b, main, other

WholeWeight == [numerator |-> 1, denominator |-> 1]

\* The table of a server that knew all or one of the keys.
OldProfile == [calls |-> 1, ewma |-> 1, max |-> 1, lastSeen |-> 0]
AllOld == {[key \in Keys |-> OldProfile]}
SomeOld == AllOld \cup {NoRows} \cup
  {[key \in Keys |-> IF key[1] = Global THEN OldProfile ELSE Missing]}

\* Both backends in one database, or one of them where the extension was not
\* created.
SameHome == [backend \in Backends |-> main]
TwoHomes == [backend \in Backends |-> IF backend = a THEN main ELSE other]
=============================================================================
