--------------------------- MODULE BudgetRefinement ---------------------------
(***************************************************************************)
(* BudgetAdmission implements AbstractBudget: an account is an occupied    *)
(* bucket, its credit the available bytes, and a backend holds a charge    *)
(* while its statement runs with one.                                      *)
(***************************************************************************)
EXTENDS BudgetAdmission

CONSTANT BurstCeiling   \* [policy id -> a burst no row of it exceeds]

ASSUME BurstAssumption ==
  \A p \in PolicyConfigs : /\ BurstCeiling[p.policy_id] \in Nat
                           /\ p.burst <= BurstCeiling[p.policy_id]

Credit == [k \in Keys |-> buckets[k].available]
CreditedUntil == [k \in Keys |-> buckets[k].last_refill]

NothingHeld == [key |-> CHOOSE k \in Keys : TRUE, bytes |-> 0]
HeldBy(s) ==
  IF HoldsCharge(s) THEN [key |-> Key(s), bytes |-> s.charged] ELSE NothingHeld
Held == [b \in Backends |-> HeldBy(stmt[b])]

MostBurst == [k \in Keys |-> BurstCeiling[k[1]]]
MostRate == [k \in Keys |-> RateCeiling[k[1]]]

Abstract == INSTANCE AbstractBudget WITH
  BurstCeiling <- MostBurst, RateCeiling <- MostRate,
  open <- Opened, credit <- Credit, until <- CreditedUntil, held <- Held

\* Every step of the admission, queue and settlement code is a step of the
\* abstract budget or leaves it unchanged: credit is never created by stale
\* readings, policy edits or refunds, nobody runs on a charge that was not
\* available, and no charge is returned twice or to another bucket.
ImplementsAbstractBudget == Abstract!Spec
==============================================================================
