---------------------------- MODULE MCStatementWal ----------------------------
(* One statement of each kind that the classification or PostgreSQL tells     *)
(* apart, and EXPLAIN with the option lists that PostgreSQL's grammar makes   *)
(* of it (its values are strings), of an INSERT and of a SELECT.              *)
EXTENDS StatementWal

Plan(command, modifyingCTE) ==
  [node |-> "plan", command |-> command, modifyingCTE |-> modifyingCTE]
Insert == Plan("insert", FALSE)
Select == Plan("select", FALSE)
MCPlans == {Insert, Select, Plan("select", TRUE)}

Utility(node) == [node |-> node]
Copy(isFrom) == [node |-> "copy", is_from |-> isFrom]
Option(name, arg) == [name |-> name, arg |-> arg]
Off == Argument("string", FALSE)
OptionLists ==
  {<<>>,
   <<Option("analyze", NoArgument)>>,
   <<Option("verbose", NoArgument), Option("analyze", Off)>>,
   <<Option("analyze", Off), Option("analyze", NoArgument)>>}
Explains ==
  {[node |-> "explain", options |-> options, query |-> query] :
     options \in OptionLists, query \in {Insert, Select}}

MCUtilities ==
  Explains \cup {Copy(TRUE), Copy(FALSE)}
    \cup {Utility(node) : node \in {"set", "fetch", "create index", "call", "create table as",
                                  "transaction", "discard", "lock", "create enum"}}

\* Procedures and a command that is in neither list.
MCUnlisted == {Utility("call"), Utility("create enum")}
=============================================================================
