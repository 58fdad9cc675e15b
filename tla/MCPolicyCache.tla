---------------------------- MODULE MCPolicyCache ----------------------------
(* Instances of PolicyCache for TLC. *)
EXTENDS PolicyCache, TLC

CONSTANTS blue, app, anyValue, b1, b2

Policy(kind, value, priority, budget, mode) ==
  [enabled |-> TRUE, mode |-> mode, kind |-> kind, value |-> value,
   priority |-> priority, budget |-> budget]

\* One policy for all roles and a later one for one role.
MCInitialRows ==
  {[id \in Ids |-> CASE id = 1 -> Policy("role", anyValue, 1, <<1, 2>>, "observe")
                     [] id = 2 -> Policy("role", app, 1, <<2, 2>>, "observe")
                     [] OTHER -> NoPolicy]}

\* To be written are one that comes before both, the same as a user may spell
\* it, and one for each constraint that refuses it.
MCDefinitions ==
  {Policy("role", app, 2, <<2, 2>>, "queue"), Policy(" ROLE", app, 2, <<2, 2>>, "Queue"),
   Policy("role", app, 1, <<2, 1>>, "queue"), Policy("user", app, 1, <<2, 2>>, "queue"),
   Policy("role", app, 1, <<2, 2>>, "enforce")}
MCModes == {"Queue", "enforce"}
MCFolded ==
  [text \in BudgetModes \cup ScopeKinds \cup {" ROLE", "queue", "Queue", "user", "enforce"} |->
     CASE text = " ROLE" -> "role"
       [] text = "Queue" -> "queue"
       [] OTHER -> text]
MCBudgets == {<<2, 2>>, <<2, 1>>, <<0, 1>>}
MCTargets == {<<"role", app>>, <<"role", blue>>, <<"tenant", app>>}
Symmetry == Permutations(Backends)
=============================================================================
