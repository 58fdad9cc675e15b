-------------------------- MODULE StatementLifecycle --------------------------
(***************************************************************************)
(* The hooks of one backend (src/lifecycle.rs, src/hooks.rs): which        *)
(* admitted statement is settled by which event.                           *)
(*                                                                         *)
(* PostgreSQL runs executors and utility commands inside each other: a     *)
(* function called by an INSERT runs statements, a CALL runs a procedure.  *)
(* The extension runs SQL of its own while it admits a statement, while it *)
(* completes one, and in its SQL functions.  It keeps no reference from a  *)
(* call to its active statement.  It keeps a stack of active statements    *)
(* and a stack of markers, one per executor, and trusts the calls to end   *)
(* in the order opposite to the one they began in.  This module lets the   *)
(* calls end in every way PostgreSQL ends them, and the SQL of an          *)
(* admission or a completion fail.                                         *)
(***************************************************************************)
EXTENDS Naturals, FiniteSets, Sequences, SequencesExt

CONSTANTS
  MaxStatements,   \* bound on the admitted statements
  MaxDepth,        \* bound on the nesting of calls
  MaxTransactions, \* bound on the transactions
  MaxMarkers,      \* bound on the markers left when a new call starts
  Disturbances     \* how calls may end out of order

ASSUME BoundsAssumption ==
  MaxStatements \in Nat /\ MaxDepth \in Nat /\ MaxTransactions \in Nat
  /\ MaxMarkers \in Nat

\* "catch": an error is caught inside the transaction (an exception block, a
\* savepoint); "inner end": a utility command commits or rolls back while it
\* runs (CALL, DO, VACUUM); "cursor": an executor outlives the statement that
\* opened it; "prepare": PREPARE TRANSACTION.
ASSUME DisturbancesAssumption ==
  Disturbances \subseteq {"catch", "inner end", "cursor", "prepare"}

VARIABLES
  active,    \* ACTIVE_STATEMENTS
  markers,   \* EXECUTOR_ADMISSION_STACK
  bypass,    \* ADMISSION_BYPASS_DEPTH
  calls,     \* the executors, utility commands and lookups in progress
  cursors,   \* PostgreSQL: open executors that are not in `calls'
  failing,   \* PostgreSQL: an error is being raised
  xacts,     \* transactions ended so far
  admitted,  \* statements admitted so far; each has a number
  fate,      \* history: what became of each statement's charge
  ended,     \* history: how each statement ended
  disturbed, \* history: some call ended out of order
  prepared   \* history: a transaction was prepared

code == <<active, markers, bypass>>
vars == <<active, markers, bypass, calls, cursors, failing, xacts, admitted,
          fate, ended, disturbed, prepared>>

Ids == 1..MaxStatements
\* "lost": an ERROR cut the statement's completion short, so its charge is
\* neither settled nor given back, now or later.
Settled == {"reconciled", "refunded", "stands", "lost"}

\* fate: whose end completed the statement (0: not that of a statement), and in
\* which transaction it was admitted and settled.
Fate == [state: {"none", "active", "completing"} \cup Settled, by: 0..MaxStatements,
         from: Nat, until: Nat]
NoFate == [state |-> "none", by |-> 0, from |-> 0, until |-> 0]

\* A call: `id' is its statement, 0 if it was not admitted; `owes' is the
\* statement popped by its end, whose completion is in progress.  A "lookup" is
\* a section of with_admission_bypass.
Call == [kind: {"executor", "utility", "lookup"},
         phase: {"admitting", "running", "completing"},
         id: 0..MaxStatements, owes: 0..MaxStatements]
NewCall(kind, phase) == [kind |-> kind, phase |-> phase, id |-> 0, owes |-> 0]

\* A call that holds a bypass guard.
Guarded(call) == call.phase = "admitting" \/ call.kind = "lookup"

IdsOf(stack) == {stack[i].id : i \in DOMAIN stack} \ {0}
OwedBy(stack) == {stack[i].owes : i \in DOMAIN stack} \ {0}
Top == Last(calls)
TopRuns == calls # <<>> => Top.phase = "running"
TopIsUsers == calls # <<>> => Top.phase = "running" /\ Top.kind # "lookup"
Room == Len(calls) < MaxDepth /\ Len(markers) < MaxMarkers /\ ~failing

Init ==
  /\ active = <<>> /\ markers = <<>> /\ bypass = 0
  /\ calls = <<>> /\ cursors = 0 /\ failing = FALSE /\ xacts = 0
  /\ admitted = 0
  /\ fate = [i \in Ids |-> NoFate]
  /\ ended = [i \in Ids |-> "no"]
  /\ disturbed = FALSE /\ prepared = FALSE
------------------------------------------------------------------------------
(***************************************************************************)
(* Starts.  The code of a call that runs may start another call, and the   *)
(* SQL of a lookup starts executors.                                       *)
(***************************************************************************)
\* executor_statement_start without an active statement: bypassed, disabled,
\* or read-only.  The marker is pushed all the same.
StartUntrackedExecutor ==
  /\ Room /\ TopRuns
  /\ markers' = Append(markers, FALSE)
  /\ calls' = Append(calls, NewCall("executor", "running"))
  /\ UNCHANGED <<active, bypass, cursors, failing, xacts, admitted, fate, ended,
                 disturbed, prepared>>

\* utility_statement_start without an active statement.
StartUntrackedUtility ==
  /\ Room /\ TopIsUsers
  /\ calls' = Append(calls, NewCall("utility", "running"))
  /\ UNCHANGED <<active, markers, bypass, cursors, failing, xacts, admitted, fate,
                 ended, disturbed, prepared>>

\* A statement that is not bypassed enters its admission (and the guard).
StartAdmission(kind) ==
  /\ Room /\ TopRuns /\ bypass = 0
  /\ kind = "utility" => TopIsUsers
  /\ bypass' = bypass + 1
  /\ calls' = Append(calls, NewCall(kind, "admitting"))
  /\ UNCHANGED <<active, markers, cursors, failing, xacts, admitted, fate, ended,
                 disturbed, prepared>>

\* with_admission_bypass: an admission or a completion looks up its policy or
\* profiles, or a running call has called a function of the extension.
StartLookup ==
  /\ ~failing /\ calls # <<>> /\ Len(calls) < MaxDepth /\ Top.kind # "lookup"
  /\ bypass' = bypass + 1
  /\ calls' = Append(calls, NewCall("lookup", "running"))
  /\ UNCHANGED <<active, markers, cursors, failing, xacts, admitted, fate, ended,
                 disturbed, prepared>>

\* The guards left when n of them are dropped (saturating_sub).
Dropped(n) == IF n <= bypass THEN bypass - n ELSE 0

\* Mutant: the guard is a flag, which the inner of two guards clears.
EndLookupClearing ==
  /\ ~failing /\ calls # <<>> /\ Top.kind = "lookup"
  /\ bypass' = 0
  /\ calls' = Front(calls)
  /\ UNCHANGED <<active, markers, cursors, failing, xacts, admitted, fate, ended,
                 disturbed, prepared>>

EndLookup ==
  /\ ~failing /\ calls # <<>> /\ Top.kind = "lookup"
  /\ bypass' = Dropped(1)
  /\ calls' = Front(calls)
  /\ UNCHANGED <<active, markers, cursors, failing, xacts, admitted, fate, ended,
                 disturbed, prepared>>

Admitting == ~failing /\ calls # <<>> /\ Top.phase = "admitting"

\* The guard is dropped, the statement is pushed, and an executor's marker.
Admit ==
  /\ Admitting /\ admitted < MaxStatements
  /\ admitted' = admitted + 1
  /\ bypass' = Dropped(1)
  /\ active' = Append(active, admitted')
  /\ markers' = IF Top.kind = "executor" THEN Append(markers, TRUE) ELSE markers
  /\ calls' = Append(Front(calls), [Top EXCEPT !.phase = "running", !.id = admitted'])
  /\ fate' = [fate EXCEPT ![admitted'] =
                [@ EXCEPT !.state = "active", !.from = xacts]]
  /\ UNCHANGED <<cursors, failing, xacts, ended, disturbed, prepared>>

\* Mutant: no marker is pushed for a statement that fails open.
FailOpenUnmarked ==
  /\ Admitting
  /\ bypass' = Dropped(1)
  /\ calls' = Append(Front(calls), [Top EXCEPT !.phase = "running"])
  /\ UNCHANGED <<active, markers, cursors, failing, xacts, admitted, fate, ended,
                 disturbed, prepared>>

\* An internal error with pwb.fail_open: the statement runs untracked.
FailOpen ==
  /\ Admitting
  /\ bypass' = Dropped(1)
  /\ markers' = IF Top.kind = "executor" THEN Append(markers, FALSE) ELSE markers
  /\ calls' = Append(Front(calls), [Top EXCEPT !.phase = "running"])
  /\ UNCHANGED <<active, cursors, failing, xacts, admitted, fate, ended, disturbed, prepared>>

\* The budget is exceeded, or an internal error without fail_open: the guard
\* is dropped and the error is raised before a marker is pushed.
Reject ==
  /\ Admitting
  /\ bypass' = Dropped(1)
  /\ calls' = Front(calls)
  /\ failing' = TRUE
  /\ UNCHANGED <<active, markers, cursors, xacts, admitted, fate, ended, disturbed, prepared>>
------------------------------------------------------------------------------
(***************************************************************************)
(* Normal ends.                                                            *)
(***************************************************************************)
EndsNormally(id) == IF id = 0 THEN ended ELSE [ended EXCEPT ![id] = "normally"]

\* The end of `call' over the calls `rest'.  If it was admitted, as far as the
\* code knows, the statement on top of the stack is popped and its completion
\* begins: first the telemetry and the profiles, with SQL.
End(call, rest, known) ==
  IF known /\ active # <<>>
  THEN /\ active' = Front(active)
       /\ fate' = [fate EXCEPT ![Last(active)] =
                     [@ EXCEPT !.state = "completing", !.by = call.id]]
       /\ calls' = Append(rest, [call EXCEPT !.phase = "completing",
                                             !.owes = Last(active)])
       /\ UNCHANGED ended
  ELSE /\ calls' = rest
       /\ ended' = EndsNormally(call.id)
       /\ UNCHANGED <<active, fate>>

\* executor_statement_complete: pop the marker, and the statement if it is set.
CompleteExecutor(call, rest) ==
  /\ markers' = IF markers = <<>> THEN <<>> ELSE Front(markers)
  /\ End(call, rest, markers # <<>> /\ Last(markers))

EndExecutor ==
  /\ ~failing /\ calls # <<>> /\ Top.kind = "executor" /\ Top.phase = "running"
  /\ CompleteExecutor(Top, Front(calls))
  /\ UNCHANGED <<bypass, cursors, failing, xacts, admitted, disturbed, prepared>>

\* utility_statement_complete: the hook's own variable says if it was admitted.
EndUtility ==
  /\ ~failing /\ calls # <<>> /\ Top.kind = "utility" /\ Top.phase = "running"
  /\ End(Top, Front(calls), Top.id # 0)
  /\ UNCHANGED <<markers, bypass, cursors, failing, xacts, admitted, disturbed, prepared>>

\* The rest of reconcile_completed_statement: the charge is settled from the
\* measurement, or counted as not measured, and the call is over.
Reconcile ==
  /\ ~failing /\ calls # <<>> /\ Top.phase = "completing"
  /\ fate' = [fate EXCEPT ![Top.owes] = [@ EXCEPT !.state = "reconciled", !.until = xacts]]
  /\ calls' = Front(calls)
  /\ ended' = EndsNormally(Top.id)
  /\ UNCHANGED <<active, markers, bypass, cursors, failing, xacts, admitted,
                 disturbed, prepared>>

\* A read-only executor that stays open when the code that opened it goes on.
OpenCursor ==
  /\ "cursor" \in Disturbances
  /\ ~failing /\ TopIsUsers /\ cursors < MaxDepth /\ Len(markers) < MaxMarkers
  /\ cursors' = cursors + 1
  /\ markers' = Append(markers, FALSE)
  /\ disturbed' = TRUE
  /\ UNCHANGED <<active, bypass, calls, failing, xacts, admitted, fate, ended,
                 prepared>>

CloseCursor ==
  /\ ~failing /\ TopIsUsers /\ cursors > 0
  /\ cursors' = cursors - 1
  /\ CompleteExecutor(NewCall("executor", "running"), calls)
  /\ UNCHANGED <<bypass, failing, xacts, admitted, disturbed, prepared>>
------------------------------------------------------------------------------
(***************************************************************************)
(* Errors.  Nothing of the extension is called when a subtransaction       *)
(* aborts: no end of the calls that vanish, and no callback.  Only the     *)
(* bypass guards are dropped, as the error unwinds, and a statement whose  *)
(* completion the error cuts short is forgotten: it left the stack before. *)
(***************************************************************************)
\* Beside its lookups a completion calls nothing that raises.
Raise ==
  /\ ~failing /\ calls # <<>> /\ Top.phase # "completing"
  /\ failing' = TRUE
  /\ UNCHANGED <<active, markers, bypass, calls, cursors, xacts, admitted, fate,
                 ended, disturbed, prepared>>

Fails(ids) == [i \in Ids |-> IF i \in ids THEN "failed" ELSE ended[i]]

\* Mutant: an error does not drop the bypass guards it passes.
GuardsAfterLeak(stack) == bypass

\* The bypass guards that are left when only the calls of `stack' remain.
GuardsAfter(stack) ==
  Dropped(Cardinality({i \in DOMAIN calls \ DOMAIN stack : Guarded(calls[i])}))

\* The charges `charges' when those of `ids' become `state'.
Closed(charges, ids, state) ==
  [i \in Ids |-> IF i \in ids THEN [charges[i] EXCEPT !.state = state, !.until = xacts]
                 ELSE charges[i]]

\* A call, or the client with a savepoint (no call left), catches the error;
\* cursors opened meanwhile are dropped without an end.
CatchError ==
  /\ failing /\ "catch" \in Disturbances
  /\ \E n \in 0..Len(calls), left \in 0..cursors :
       LET rest == SubSeq(calls, 1, n)
       IN  /\ n > 0 => calls[n].phase = "running" /\ calls[n].kind # "lookup"
           /\ calls' = rest
           /\ cursors' = left
           /\ bypass' = GuardsAfter(rest)
           /\ ended' = Fails(IdsOf(calls) \ IdsOf(rest))
           /\ fate' = Closed(fate, OwedBy(calls) \ OwedBy(rest), "lost")
  /\ failing' = FALSE /\ disturbed' = TRUE
  /\ UNCHANGED <<active, markers, xacts, admitted, prepared>>
------------------------------------------------------------------------------
(***************************************************************************)
(* Ends of a transaction.                                                  *)
(***************************************************************************)
\* drain_active_statements, for statements that are settled as `state'.  Those
\* popped by a completion that the end of the transaction cuts short are gone.
Drained(state) ==
  Closed(Closed(fate, OwedBy(calls), "lost"), ToSet(active), state)

\* Mutant: a commit leaves the active statements where they are.
TransactionEndingOnAbortOnly(aborting) ==
  /\ xacts < MaxTransactions /\ xacts' = xacts + 1
  /\ markers' = <<>>
  /\ IF aborting THEN active' = <<>> /\ fate' = Drained("refunded")
     ELSE UNCHANGED <<active, fate>>

\* Mutant: an abort is taken for a commit.
TransactionEndingNeverRefunds(aborting) ==
  /\ xacts < MaxTransactions /\ xacts' = xacts + 1
  /\ markers' = <<>> /\ active' = <<>>
  /\ fate' = Drained("stands")

\* transaction_ending: both stacks are drained.  An abort returns the charges
\* (record_aborted_statement), a commit lets them stand as not measured.
TransactionEnding(aborting) ==
  /\ xacts < MaxTransactions /\ xacts' = xacts + 1
  /\ markers' = <<>> /\ active' = <<>>
  /\ fate' = Drained(IF aborting THEN "refunded" ELSE "stands")

Idle == ~failing /\ calls = <<>> /\ cursors = 0

Commit ==
  /\ Idle
  /\ TransactionEnding(FALSE)
  /\ UNCHANGED <<bypass, calls, cursors, failing, admitted, ended, disturbed, prepared>>

\* An error nobody catches, or ROLLBACK.
Abort ==
  /\ failing \/ calls = <<>>
  /\ TransactionEnding(TRUE)
  /\ calls' = <<>> /\ cursors' = 0 /\ failing' = FALSE
  /\ bypass' = GuardsAfter(<<>>)
  /\ ended' = Fails(IdsOf(calls))
  /\ UNCHANGED <<admitted, disturbed, prepared>>

\* A utility command that only utility commands surround ends a transaction
\* and goes on in a new one.
InnerEnd ==
  /\ "inner end" \in Disturbances
  /\ ~failing /\ calls # <<>> /\ cursors = 0
  /\ \A i \in DOMAIN calls : calls[i].kind = "utility" /\ calls[i].phase = "running"
  /\ \E aborting \in BOOLEAN : TransactionEnding(aborting)
  /\ disturbed' = TRUE
  /\ UNCHANGED <<bypass, calls, cursors, failing, admitted, ended, prepared>>

\* Mutant: PREPARE settles the active statements and leaves them on the stack.
PrepareUndrained ==
  /\ "prepare" \in Disturbances /\ Idle
  /\ xacts < MaxTransactions /\ xacts' = xacts + 1
  /\ disturbed' = TRUE /\ prepared' = TRUE
  /\ fate' = Drained("stands")
  /\ UNCHANGED <<active, markers, bypass, calls, cursors, failing, admitted, ended>>

\* transaction_ending does not act on XACT_EVENT_PREPARE.
Prepare ==
  /\ "prepare" \in Disturbances /\ Idle
  /\ xacts < MaxTransactions /\ xacts' = xacts + 1
  /\ disturbed' = TRUE /\ prepared' = TRUE
  /\ UNCHANGED <<active, markers, bypass, calls, cursors, failing, admitted, fate,
                 ended>>

\* The bound on transactions is reached.
Done == xacts = MaxTransactions /\ UNCHANGED vars

Next ==
  \/ StartUntrackedExecutor \/ StartUntrackedUtility
  \/ \E kind \in {"executor", "utility"} : StartAdmission(kind)
  \/ StartLookup \/ EndLookup \/ Admit \/ FailOpen \/ Reject
  \/ EndExecutor \/ EndUtility \/ Reconcile \/ OpenCursor \/ CloseCursor
  \/ Raise \/ CatchError
  \/ Commit \/ Abort \/ InnerEnd \/ Prepare \/ Done

Spec == Init /\ [][Next]_vars
------------------------------------------------------------------------------
(***************************************************************************)
(* Properties.                                                             *)
(***************************************************************************)

\* The values of the state; every bypass guard that is held belongs to a call in
\* progress, so none outlives the call that entered it.
TypeOK ==
  /\ active \in Seq(Ids) /\ markers \in Seq(BOOLEAN) /\ bypass \in 0..Len(calls)
  /\ calls \in Seq(Call) /\ cursors \in Nat /\ failing \in BOOLEAN
  /\ xacts \in 0..MaxTransactions /\ admitted \in 0..MaxStatements
  /\ fate \in [Ids -> Fate]
  /\ ended \in [Ids -> {"no", "normally", "failed"}]
  /\ disturbed \in BOOLEAN /\ prepared \in BOOLEAN

\* The SQL of the extension (lookups of admissions and completions, persists,
\* its administrative functions) is never admitted, at any depth of guards in
\* guards; and every way out of a guard, an ERROR through several of them
\* included, drops exactly that guard: one too few would let the backend run
\* unmetered for ever, one too many would admit an admission's own lookups
\* (AdmissionBypassGuard).
LookupsBypassAdmission ==
  /\ \A i, j \in DOMAIN calls :
       Guarded(calls[i]) /\ i < j => calls[j].id = 0 /\ calls[j].phase # "admitting"
  /\ bypass = Cardinality({i \in DOMAIN calls : Guarded(calls[i])})

\* Whatever PostgreSQL does, a charge is settled at most once, and a charge that
\* an error lost stays lost.
SettledOnce ==
  [][\A i \in Ids : fate[i].state \in Settled => fate'[i] = fate[i]]_vars

\* A charge is settled or lost in the transaction that admitted it, however the
\* calls ended, unless that transaction was prepared: no refund or debt arrives
\* later from a statement that was forgotten, or whose completion an ERROR cut
\* short (drain_active_statements).
SettledInItsTransaction ==
  \A i \in Ids : ~prepared =>
    /\ fate[i].state \in Settled => fate[i].until = fate[i].from
    /\ fate[i].state \in {"active", "completing"} => fate[i].from = xacts

\* `stack' holds the entries of `those' calls, in the order of the calls.
Mirrors(stack, those, entry) ==
  \E at \in [DOMAIN stack -> those] :
    /\ \A i, j \in DOMAIN stack : i < j => at[i] < at[j]
    /\ \A k \in those : \E i \in DOMAIN stack : at[i] = k
    /\ \A i \in DOMAIN stack : stack[i] = entry[at[i]]

\* The admitted calls that run, and the running executors; the statement of each
\* call, and whether it has one.
AdmittedCalls == {i \in DOMAIN calls : calls[i].id # 0 /\ calls[i].phase = "running"}
ExecutorCalls ==
  {i \in DOMAIN calls : calls[i].kind = "executor" /\ calls[i].phase = "running"}
StatementOf == [i \in DOMAIN calls |-> calls[i].id]
HasStatement == [i \in DOMAIN calls |-> calls[i].id # 0]

\* As long as calls end in order, the stacks mirror them, also while an error
\* unwinds: the end of a call finds its own marker and its own statement.
StacksMirrorCalls ==
  ~disturbed => /\ Mirrors(active, AdmittedCalls, StatementOf)
                /\ Mirrors(markers, ExecutorCalls, HasStatement)

\* As long as calls end in order, each statement that ends normally is
\* reconciled by its own end, and each one that fails gets its charge back when
\* the transaction aborts, unless it failed in its own completion, which takes
\* the charge with it (reconcile.rs:104-118).
FateMatchesEnd ==
  \A i \in Ids : ~disturbed =>
    /\ ended[i] = "normally" => fate[i].state = "reconciled" /\ fate[i].by = i
    /\ ended[i] = "failed" => \/ fate[i].state = "refunded"
                              \/ fate[i].state = "lost" /\ fate[i].by = i

\* The WAL of a statement is measured by its own hooks, and its charge is
\* settled from that measurement (src/README.md:149): a statement that ended
\* normally was reconciled by its own end.
CompletedIsReconciled ==
  \A i \in Ids :
    ended[i] = "normally" => fate[i].state = "reconciled" /\ fate[i].by = i
==============================================================================
