----------------------------- MODULE StatementWal -----------------------------
(***************************************************************************)
(* Which statements are admitted at all, and how much WAL is ascribed to   *)
(* each (src/utility.rs, src/lifecycle.rs, src/reconcile.rs).              *)
(*                                                                         *)
(* The extension decides from the shape of a statement whether it may      *)
(* write WAL.  One that may is admitted and is ascribed what the backend   *)
(* writes between its start and its end; others run unseen.  Statements    *)
(* run inside each other: EXPLAIN runs the statement it explains, or only  *)
(* starts and ends its executor; CALL, EXECUTE, triggers and functions run *)
(* others.  What a statement really does is PostgreSQL's part of the       *)
(* model: commands that the extension takes for read-only write WAL too,   *)
(* and so does the end of a transaction, which is no statement's.  (Left   *)
(* out is what a plain SELECT writes without a statement of its own: row   *)
(* locks, sequences, hint bits.)                                           *)
(*                                                                         *)
(* Here no statement fails, and the calls end in the order opposite to the *)
(* one they began in; StatementLifecycle is about those that do not.       *)
(***************************************************************************)
EXTENDS Naturals, Sequences, SequencesExt, FiniteSetsExt

CONSTANTS
  Plans,      \* plannable statements
  Utilities,  \* utility commands
  CachedTree, \* values of read_only_tree
  MaxCalls,   \* bound on the statements
  MaxDepth,   \* bound on their nesting
  MaxWal      \* bound on the WAL

ASSUME BoundsAssumption == MaxCalls \in Nat /\ MaxDepth \in Nat /\ MaxWal \in Nat

\* A plan: [command, modifyingCTE].  A utility command: [node], and of COPY
\* `is_from', of EXPLAIN `options' and the plan it is about, `query'.
\* An option is [name, arg]: no argument, a Boolean node or another node with
\* a Boolean's text.
NoArgument == [node |-> "none"]
Argument(node, value) == [node |-> node, value |-> value]

\* A statement is planned or a utility command; what EXPLAIN is about is planned.
ASSUME StatementsAssumption ==
  /\ Plans \cap Utilities = {}
  /\ \A utility \in Utilities : utility.node = "explain" => utility.query \in Plans

-----------------------------------------------------------------------------
(* Classification.                                                         *)

Writing == {"insert", "update", "delete", "merge"}

\* classify_planned_statement
ClassOfPlan(plan) ==
  CASE plan.command \in Writing \/ (plan.command = "select" /\ plan.modifyingCTE) -> "write"
    [] plan.command = "select" /\ ~plan.modifyingCTE -> "read_only"
    [] OTHER -> "unknown"

\* def_elem_boolean_value, true where the argument is not a Boolean node
ReadArgument(arg) == arg.node = "boolean" => arg.value

\* explain_options_contain_analyze: the first option of that name decides.
HasAnalyze(options) ==
  LET named == {i \in DOMAIN options : options[i].name = "analyze"}
  IN  named # {} /\ ReadArgument(options[Min(named)].arg)

\* is_known_read_only_utility and is_known_wal_candidate_utility: those that
\* write though they are called read-only, and one command for each other way
\* PostgreSQL runs them
KnownReadOnly == {"set", "fetch", "prepare", "transaction", "discard", "lock"}
KnownCandidates == {"create index", "call", "execute", "create table as"}

\* Mutant: read_only_tree is asked before the lists.
ClassOfUtilityTreeFirst(utility, readOnlyTree) ==
  CASE utility.node = "copy" -> IF utility.is_from THEN "copy" ELSE "read_only"
    [] utility.node = "explain" ->
         IF HasAnalyze(utility.options) THEN "utility" ELSE "read_only"
    [] OTHER -> IF readOnlyTree THEN "read_only" ELSE "utility"

\* classify_utility_node_tag
ClassOfUtility(utility, readOnlyTree) ==
  CASE utility.node = "copy" -> IF utility.is_from THEN "copy" ELSE "read_only"
    [] utility.node = "explain" ->
         IF HasAnalyze(utility.options) THEN "utility" ELSE "read_only"
    [] utility.node \in KnownReadOnly -> "read_only"
    [] utility.node \in KnownCandidates -> "utility"
    [] OTHER -> IF readOnlyTree THEN "read_only" ELSE "utility"

-----------------------------------------------------------------------------
(* PostgreSQL.                                                             *)

\* defGetBoolean of the last option of that name: no argument is true.
Analyzes(options) ==
  LET named == {i \in DOMAIN options : options[i].name = "analyze"} IN
  named # {} /\ LET arg == options[Max(named)].arg
                IN  arg.node # "none" => arg.value

\* Commands that write themselves: of the candidates; of the read-only list, COMMIT
\* and ROLLBACK PREPARED, DISCARD TEMP, which drops tables, and LOCK, which logs
\* an exclusive lock; and commands with types and user mappings, in neither list.
Writers ==
  {"create index", "create table as"} \cup {"transaction", "discard", "lock"}
    \cup {"create enum"}

\* A plan writes what its top level and its modifying CTEs modify.
WritesWal(statement) ==
  \/ statement \in Plans /\
       (statement.command \in {"insert", "update", "delete", "merge"} \/ statement.modifyingCTE)
  \/ statement \in Utilities /\
       \/ statement.node \in Writers
       \/ statement.node = "copy" /\ statement.is_from

\* Procedures may end transactions.
EndsTransactions(statement) == statement.node = "call"

\* Whatever runs a plan can run functions and triggers, and with them any
\* statement; so do procedures, and EXECUTE and FETCH run plans.
RunsOthers(statement) ==
  \/ statement \in Plans
  \/ statement.node \in {"call", "execute", "fetch", "create table as", "copy"}

-----------------------------------------------------------------------------

VARIABLES
  calls,     \* the statements in progress, the outermost first
  begun,     \* how many were begun
  wal,       \* pgWalUsage.wal_bytes of the backend
  ascribed,  \* the sum of the actual WAL of the statements that were completed
  unseen,    \* history: WAL that was written under no admitted statement
  unseenBy   \* history: the statements that wrote it

walVars == <<calls, begun, wal, ascribed, unseen, unseenBy>>

Call(statement, class, executes) ==
  [statement |-> statement, class |-> class, executes |-> executes, start |-> wal]
IsAdmitted(call) == call.class # "read_only"
Running == calls # <<>> /\ Last(calls).executes

WalInit ==
  /\ calls = <<>> /\ begun = 0 /\ wal = 0 /\ ascribed = 0
  /\ unseen = 0 /\ unseenBy = {}

Begin(statement, class, executes) ==
  /\ begun < MaxCalls /\ Len(calls) < MaxDepth
  /\ begun' = begun + 1
  /\ calls' = Append(calls, Call(statement, class, executes))
  /\ UNCHANGED <<wal, ascribed, unseen, unseenBy>>

MayBegin == calls = <<>> \/ (Running /\ RunsOthers(Last(calls).statement))

\* executor_start_hook, executor_statement_start and admit_normal_statement
\* of a statement that is executed
BeginPlan(plan) == MayBegin /\ Begin(plan, ClassOfPlan(plan), TRUE)

\* process_utility_hook, utility_statement_start and admit_utility_statement
BeginUtility(utility, readOnlyTree) ==
  /\ MayBegin
  /\ Begin(utility, ClassOfUtility(utility, readOnlyTree), utility.node # "explain")

\* EXPLAIN starts the executor of its query; without ANALYZE with the flag
\* EXEC_FLAG_EXPLAIN_ONLY, which the hook hands on and does not look at.
BeginExplained ==
  /\ calls # <<>>
  /\ LET explain == Last(calls).statement IN
       /\ explain \in Utilities /\ explain.node = "explain"
       /\ Begin(explain.query, ClassOfPlan(explain.query), Analyzes(explain.options))

IsSeen == \E i \in DOMAIN calls : IsAdmitted(calls[i])

Written(writers) ==
  /\ wal < MaxWal /\ wal' = wal + 1
  /\ unseen' = IF IsSeen THEN unseen ELSE unseen + 1
  /\ unseenBy' = IF IsSeen THEN unseenBy ELSE unseenBy \cup writers
  /\ UNCHANGED <<calls, begun, ascribed>>

\* PostgreSQL writes WAL for the innermost statement.
WriteWal ==
  /\ Running /\ WritesWal(Last(calls).statement)
  /\ Written({Last(calls).statement})

\* A transaction ends and its record is written: after the statement that ended
\* it, or in a procedure.
EndTransaction ==
  /\ calls = <<>> \/ (Running /\ EndsTransactions(Last(calls).statement))
  /\ Written({})

\* wal_delta since capture_start
Actual(call) == wal - call.start

\* Mutant: only the outermost statement is measured.
CompleteOutermost ==
  /\ calls # <<>>
  /\ calls' = Front(calls)
  /\ ascribed' = ascribed + (IF IsAdmitted(Last(calls)) /\ Len(calls) = 1
                             THEN Actual(Last(calls)) ELSE 0)
  /\ UNCHANGED <<begun, wal, unseen, unseenBy>>

\* executor_statement_complete or utility_statement_complete, and
\* reconcile_completed_statement
Complete ==
  /\ calls # <<>>
  /\ calls' = Front(calls)
  /\ ascribed' = ascribed + (IF IsAdmitted(Last(calls)) THEN Actual(Last(calls)) ELSE 0)
  /\ UNCHANGED <<begun, wal, unseen, unseenBy>>

WalNext ==
  \/ \E plan \in Plans : BeginPlan(plan)
  \/ \E utility \in Utilities, readOnlyTree \in CachedTree :
       BeginUtility(utility, readOnlyTree)
  \/ BeginExplained \/ WriteWal \/ EndTransaction \/ Complete

WalSpec == WalInit /\ [][WalNext]_walVars

-----------------------------------------------------------------------------
(* Properties.                                                             *)

\* The bounds of the counters, and what a running call consists of.
WalTypeOK ==
  /\ begun \in 0..MaxCalls /\ Len(calls) <= begun
  /\ wal \in 0..MaxWal /\ unseen \in 0..wal /\ unseenBy \subseteq Plans \cup Utilities
  /\ ascribed \in 0..(wal * MaxDepth)
  /\ \A i \in DOMAIN calls :
       /\ calls[i].statement \in Plans \cup Utilities
       /\ calls[i].class \in {"read_only", "write", "utility", "copy", "unknown"}
       /\ calls[i].start <= wal

\* Of the statements that write WAL under no admitted one, none is a plan, a COPY,
\* an EXPLAIN or a command of is_known_wal_candidate_utility, wherever it runs: what
\* remains unseen is written by commands of is_known_read_only_utility and by those
\* of neither list.
CandidatesAreAdmitted ==
  \A statement \in unseenBy :
    statement \in Utilities /\ statement.node \notin {"copy", "explain"} \cup KnownCandidates

\* Once all statements have ended, all the WAL that was written under an
\* admitted statement was ascribed to one: what a function or a trigger writes
\* for a statement that was not admitted, and what the query of an EXPLAIN
\* ANALYZE writes, included.
AscribedCoversWal == calls = <<>> => ascribed >= wal - unseen

\* Every statement that writes WAL is admitted or runs under one that is.
WritersAreAdmitted == unseenBy = {}

\* What the statements are ascribed is what the backend wrote, as the exact
\* measurements that budgets are settled with should be.
AscribedIsExact == ascribed <= wal

\* EXPLAIN without the option ANALYZE is read-only: nothing is admitted under
\* it.
ExplainIsReadOnly ==
  \A i \in DOMAIN calls :
    /\ calls[i].statement.node = "explain"
    /\ \A n \in DOMAIN calls[i].statement.options :
         calls[i].statement.options[n].name # "analyze"
    => \A j \in i..Len(calls) : ~IsAdmitted(calls[j])
=============================================================================
