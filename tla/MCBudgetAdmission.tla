-------------------------- MODULE MCBudgetAdmission --------------------------
(***************************************************************************)
(* The instance of BudgetAdmission for TLC that is about liveness: one row *)
(* that nobody edits.                                                      *)
(***************************************************************************)
EXTENDS BudgetAdmission

Policy(id, mode, rate, burst) ==
  [policy_id |-> id, mode |-> mode, rate |-> rate, burst |-> burst]

\* A queue row that is never edited.
QueueOnly == {Policy(1, "queue", 2, 3)}

MCRateCeiling == [i \in {1} |-> 3]

==============================================================================
