-------------------------- MODULE BudgetBucketMap --------------------------
(***************************************************************************)
(* What the array of budget buckets promises: a map from (policy, scope)   *)
(* to buckets.  A bucket is there from the first time its key is stored    *)
(* until the server stops; a key is turned away only if it is new and the  *)
(* map has as many keys as it may have; and a key that was turned away, or *)
(* whose operation failed, leaves the map as it was.  BudgetAdmission      *)
(* relies on this map.                                                     *)
(***************************************************************************)
EXTENDS Naturals, FiniteSets

CONSTANTS Keys, Values, Capacity

VARIABLES
  buckets,  \* a function from the keys in use to values
  outcome   \* of the last operation

Init == DOMAIN buckets = {} /\ outcome = "none"

Put(key, value) ==
  /\ buckets' = [k \in DOMAIN buckets \cup {key} |->
                   IF k = key THEN value ELSE buckets[k]]
  /\ outcome' = "stored"

StoreNew(key, value) ==
  /\ key \notin DOMAIN buckets /\ Cardinality(DOMAIN buckets) < Capacity
  /\ Put(key, value)

StoreAgain(key, value) == key \in DOMAIN buckets /\ Put(key, value)

TurnAway(key) ==
  /\ key \notin DOMAIN buckets /\ Cardinality(DOMAIN buckets) = Capacity
  /\ outcome' = "exhausted"
  /\ UNCHANGED buckets

FindNothing(key) ==
  /\ key \notin DOMAIN buckets
  /\ outcome' = "missing"
  /\ UNCHANGED buckets

Fail == outcome' = "failed" /\ UNCHANGED buckets

Stop == DOMAIN buckets' = {} /\ outcome' = "none"

Next ==
  \/ \E key \in Keys, value \in Values : StoreNew(key, value) \/ StoreAgain(key, value)
  \/ \E key \in Keys : TurnAway(key) \/ FindNothing(key)
  \/ Fail
  \/ Stop

Spec == Init /\ [][Next]_<<buckets, outcome>>

=============================================================================
