-------------------------- MODULE MCBudgetRefinement --------------------------
(***************************************************************************)
(* The instance of BudgetRefinement for TLC: one policy whose rows differ  *)
(* in mode, rate and burst (a statement without a policy stands for the    *)
(* modes off and observe), two scopes and one bucket slot, so that the     *)
(* second scope finds the array full.  Rates are a few bytes per second    *)
(* and the clock advances by 500 ms, so that an interval may earn nothing, *)
(* a fraction of a byte more than it credits, or the whole burst.          *)
(***************************************************************************)
EXTENDS BudgetRefinement, TLC

Policy(id, mode, rate, burst) ==
  [policy_id |-> id, mode |-> mode, rate |-> rate, burst |-> burst]

EditedPolicy == {Policy(1, "shadow", 1, 2),
                 Policy(1, "reject", 2, 3), Policy(1, "queue", 2, 2)}

MCRateCeiling == [i \in {1} |-> 2]
MCBurstCeiling == [i \in {1} |-> 3]

BackendSymmetry == Permutations(Backends)
==============================================================================
