----------------------------- MODULE Telemetry -----------------------------
(***************************************************************************)
(* What is recorded of statements: counters, recent decisions and scope    *)
(* names (src/admission.rs, src/reconcile.rs, src/shmem/transactions.rs,   *)
(* counters.rs, recent_decisions.rs, scope_names.rs), and their reset      *)
(* (src/stats.rs).                                                         *)
(*                                                                         *)
(* A decision is recorded under one hold of the lock.  The end of a        *)
(* statement, and a statement let through after an internal error, are     *)
(* recorded under several, between which other backends record and reset.  *)
(* The end of a statement goes on to its profile and to its charge; the    *)
(* former may run SQL, which may raise an ERROR.                           *)
(***************************************************************************)
EXTENDS DecisionRing, Integers, FiniteSets, FiniteSetsExt

CONSTANTS
  Backends,
  ScopeKeys,    \* scopes: a kind and a hash
  UnknownScope, \* the scope of a statement that failed before it had one
  Sizes,        \* bytes that statements are predicted to write, and write
  Kinds,        \* the decisions of admissions
  MaxRecords,   \* bound on the records made
  MaxErrors     \* bound on the errors of profile observations

ASSUME TelemetryAssumption ==
  /\ IsFiniteSet(Backends) /\ Sizes \subseteq Nat
  /\ UnknownScope \notin ScopeKeys /\ <<>> \notin ScopeKeys \cup {UnknownScope}
  /\ Kinds \subseteq {"allowed", "no matching policy", "would reject", "rejected"}
  /\ MaxRecords \in Nat /\ MaxErrors \in Nat

VARIABLES
  counters,
  ring,
  names,
  pc,         \* how far the recording of each backend is
  statement,  \* the statement of each backend
  returned,   \* bytes refunded to buckets
  owed,       \* debt recorded in buckets
  records,
  errors,
  torn,       \* history: a reset came after a backend counted
  uncounted,  \* history: which records of the log were counted before a reset
  due         \* history: what the ended statements wrote beyond their charges

shared == <<counters, ring, names>>
books == <<returned, owed, due>>
history == <<torn, uncounted>>
vars == <<shared, pc, statement, books, records, errors, history>>

NoStatement == [kind |-> "none"]
Statement(kind, scope, predicted, charged) ==
  [kind |-> kind, scope |-> scope, predicted |-> predicted, charged |-> charged,
   actual |-> 0]

\* A record of the ring; the actual bytes are those of an ended statement.
Record(s, actual) ==
  [kind |-> s.kind, scope |-> s.scope, predicted |-> s.predicted, actual |-> actual]

CounterNames ==
  {"accepted", "rejected", "would reject", "predicted", "actual", "error", "debt",
   "missing", "fail open", "aborted", "dropped"}
NoDelta == [name \in CounterNames |-> 0]

\* Mutant: the counters wrap around.
AddCountersWrapping(delta) ==
  [name \in CounterNames |-> counters[name] + delta[name]]

\* saturating_add_delta
AddCounters(delta) ==
  [name \in CounterNames |-> Saturated(counters[name] + delta[name])]

Beyond(a, b) == IF a > b THEN a - b ELSE 0

\* counter_delta_for_decision
DeltaForDecision(s) ==
  [NoDelta EXCEPT !["accepted"] = IF s.kind = "rejected" THEN 0 ELSE 1,
                  !["rejected"] = IF s.kind = "rejected" THEN 1 ELSE 0,
                  !["would reject"] = IF s.kind = "would reject" THEN 1 ELSE 0,
                  !["fail open"] = IF s.kind = "fail open" THEN 1 ELSE 0,
                  !["predicted"] = s.predicted]

\* reconcile_completed_statement; debt is that of a charge only
DeltaForResult(s) ==
  [NoDelta EXCEPT !["actual"] = s.actual,
                  !["error"] = Beyond(s.actual, s.predicted) + Beyond(s.predicted, s.actual),
                  !["debt"] = IF s.charged = 0 THEN 0 ELSE Beyond(s.actual, s.charged)]

One(name) == [NoDelta EXCEPT ![name] = 1]

Log == Reverse(SnapshotRecentDecisions(ring, RingCapacity))

Goto(b, label, s) ==
  /\ pc' = [pc EXCEPT ![b] = label]
  /\ statement' = [statement EXCEPT ![b] = s]

End(b) == Goto(b, "idle", NoStatement)

Init ==
  /\ counters = NoDelta /\ ring = EmptyRing /\ names = NoNames
  /\ pc = [b \in Backends |-> "idle"]
  /\ statement = [b \in Backends |-> NoStatement]
  /\ returned = 0 /\ owed = 0 /\ records = 0 /\ errors = 0
  /\ torn = [b \in Backends |-> FALSE]
  /\ uncounted = {} /\ due = 0

-----------------------------------------------------------------------------
(* Admission. *)

\* Mutant: a dropped name is not counted.
CountersAfterDecisionUndropped(s) == AddCounters(DeltaForDecision(s))

CountersAfterDecision(s) ==
  AddCounters([DeltaForDecision(s) EXCEPT
                 !["dropped"] = IF Dropped(names, s.scope) THEN 1 ELSE 0])

\* record_admission_decision, record_admission_telemetry: one locked section
Decide(b, s) ==
  /\ pc[b] = "idle" /\ records < MaxRecords /\ records' = records + 1
  /\ counters' = CountersAfterDecision(s)
  /\ ring' = RecordRecentDecision(ring, Record(s, <<>>))
  /\ names' = RecordScopeName(names, s.scope)
  /\ IF s.kind = "rejected" THEN End(b) ELSE Goto(b, "running", s)
  /\ UNCHANGED <<books, errors, history>>

\* record_internal_fail_open, of a statement that has its scope or does not
CountFailOpen(b, s) ==
  /\ pc[b] = "idle" /\ records < MaxRecords /\ records' = records + 1
  /\ counters' = AddCounters(DeltaForDecision(s))
  /\ Goto(b, "append failure", s)
  /\ UNCHANGED <<ring, names, books, errors, history>>

AppendRecord(b, record) ==
  /\ ring' = RecordRecentDecision(ring, record)
  /\ uncounted' = IF torn[b] THEN uncounted \cup {ring.head} ELSE uncounted
  /\ torn' = [torn EXCEPT ![b] = FALSE]

\* The statement runs on without being tracked.
AppendFailOpen(b) ==
  /\ pc[b] = "append failure"
  /\ AppendRecord(b, Record(statement[b], <<>>))
  /\ End(b)
  /\ UNCHANGED <<counters, names, books, records, errors>>

-----------------------------------------------------------------------------
(* The end of a statement: reconcile_completed_statement.                  *)

\* record_decision_telemetry, first section
CountResult(b, actual) ==
  /\ pc[b] = "running" /\ records < MaxRecords /\ records' = records + 1
  /\ LET s == [statement[b] EXCEPT !.actual = actual]
     IN  /\ counters' = AddCounters(DeltaForResult(s))
         /\ Goto(b, "append result", s)
         /\ due' = due + (IF s.charged = 0 THEN 0 ELSE actual - s.charged)
  /\ UNCHANGED <<ring, names, returned, owed, errors, history>>

\* second section
AppendResult(b) ==
  /\ pc[b] = "append result"
  /\ AppendRecord(b, Record(statement[b], <<statement[b].actual>>))
  /\ Goto(b, "observe", statement[b])
  /\ UNCHANGED <<counters, names, books, records, errors>>

\* record_query_observation, if the statement has a query id
Observe(b) ==
  /\ pc[b] = "observe"
  /\ Goto(b, "settle", statement[b])
  /\ UNCHANGED <<shared, books, records, errors, history>>

\* It returns an error: record_reconciliation_result counts it.
ObservationFails(b) ==
  /\ pc[b] = "observe" /\ errors < MaxErrors /\ errors' = errors + 1
  /\ counters' = AddCounters(One("fail open"))
  /\ Goto(b, "settle", statement[b])
  /\ UNCHANGED <<ring, names, books, records, history>>

\* The SQL that loads the profiles raises an ERROR.  The statement is no longer
\* on the stack, so the end of the transaction does not find it.
ObservationRaises(b) ==
  /\ pc[b] = "observe" /\ errors < MaxErrors /\ errors' = errors + 1
  /\ End(b)
  /\ UNCHANGED <<shared, books, records, history>>

\* reconcile_budget
Settle(b) ==
  /\ pc[b] = "settle"
  /\ LET s == statement[b]
     IN  IF s.charged = 0 THEN UNCHANGED <<returned, owed>>
         ELSE /\ returned' = returned + Beyond(s.charged, s.actual)
              /\ owed' = owed + Beyond(s.actual, s.charged)
  /\ End(b)
  /\ UNCHANGED <<shared, due, records, errors, history>>

\* record_missing_actual_wal: nothing was measured, the charge stands
EndUnmeasured(b) ==
  /\ pc[b] = "running"
  /\ counters' = AddCounters(One("missing"))
  /\ End(b)
  /\ UNCHANGED <<ring, names, books, records, errors, history>>

\* record_aborted_statement: the refund, and then its count
RefundAborted(b) ==
  /\ pc[b] = "running"
  /\ returned' = returned + statement[b].charged
  /\ due' = due - statement[b].charged
  /\ IF statement[b].charged = 0 THEN End(b) ELSE Goto(b, "count abort", statement[b])
  /\ UNCHANGED <<shared, owed, records, errors, history>>

CountAborted(b) ==
  /\ pc[b] = "count abort"
  /\ counters' = AddCounters(One("aborted"))
  /\ End(b)
  /\ UNCHANGED <<ring, names, books, records, errors, history>>

-----------------------------------------------------------------------------

Counted(b) == pc[b] \in {"append failure", "append result"}

NamesAfterReset == NoNames

\* Mutant: the ring survives.
RingAfterResetKept == ring
RingAfterReset == EmptyRing

\* reset_stats
ResetStats ==
  /\ counters' = NoDelta /\ ring' = RingAfterReset /\ names' = NamesAfterReset
  /\ torn' = [b \in Backends |-> Counted(b)]
  /\ uncounted' = {}
  /\ UNCHANGED <<pc, statement, books, records, errors>>

Admissions ==
  {s \in {Statement(kind, scope, predicted, charged) :
            kind \in Kinds, scope \in ScopeKeys, predicted \in Sizes,
            charged \in Sizes \cup {0}} :
     s.charged = 0 \/ (s.kind = "allowed" /\ s.charged = s.predicted)}

FailOpen(scope, predicted) == Statement("fail open", scope, predicted, 0)
Failures ==
  {FailOpen(scope, predicted) : scope \in ScopeKeys, predicted \in Sizes}
  \cup {FailOpen(UnknownScope, 0)}

Next ==
  \/ \E b \in Backends :
       \/ \E s \in Admissions : Decide(b, s)
       \/ \E s \in Failures : CountFailOpen(b, s)
       \/ AppendFailOpen(b)
       \/ \E actual \in Sizes : CountResult(b, actual)
       \/ AppendResult(b)
       \/ Observe(b) \/ ObservationFails(b) \/ ObservationRaises(b)
       \/ Settle(b)
       \/ EndUnmeasured(b)
       \/ RefundAborted(b) \/ CountAborted(b)
  \/ ResetStats

Spec == Init /\ [][Next]_vars

-----------------------------------------------------------------------------
(* Properties. *)

\* Counters saturate, the ring's slots in use are the first ring.count, and a
\* backend that is idle has no statement.
TypeOK ==
  /\ counters \in [CounterNames -> 0..MaxU64]
  /\ ring.head \in 0..MaxU64 /\ ring.count \in 0..RingCapacity
  /\ ring.count <= ring.head
  /\ \A slot \in RingSlots : ring.slots[slot] # Blank <=> slot < ring.count
  /\ \A b \in Backends : pc[b] = "idle" <=> statement[b] = NoStatement

\* The ring has all records since the last reset.
Unwrapped == RingCapacity # 0 /\ ring.head = ring.count /\ records <= MaxU64

\* Those of them that were counted since the last reset.
CountedRecords == {i \in DOMAIN Log : i - 1 \notin uncounted}

AcceptedRecords ==
  {i \in CountedRecords : Log[i].actual = <<>> /\ Log[i].kind # "rejected"}
RejectedRecords == {i \in CountedRecords : Log[i].kind = "rejected"}
EndedRecords == {i \in CountedRecords : Log[i].actual # <<>>}

InFlight(label) == {b \in Backends : pc[b] = label /\ ~torn[b]}

\* The counters and the ring tell the same story: the decisions and the bytes
\* in the counters are those of the records, plus what a backend has counted
\* and not yet appended, minus the records whose count a reset wiped before
\* they were appended (transactions.rs:20).
CountersMatchRecords ==
  LET ended == [i \in EndedRecords |-> Log[i].actual[1]]
      ending == [b \in InFlight("append result") |-> statement[b].actual]
  IN  Unwrapped =>
        /\ counters["accepted"] =
             Saturated(Cardinality(AcceptedRecords)
                       + Cardinality(InFlight("append failure")))
        /\ counters["rejected"] = Saturated(Cardinality(RejectedRecords))
        /\ counters["actual"] = Saturated(SumFunction(ended) + SumFunction(ending))

\* Every statement that a decision was recorded for is in the registry or in
\* the count of dropped names (scope_names.rs:17): the three were recorded, and
\* are reset, under one hold of the lock.
NamesAccounted ==
  LET seen == [slot \in NameSlots |-> names[slot].seen]
      named == {i \in DOMAIN Log : Log[i].actual = <<>> /\ Log[i].kind # "fail open"}
  IN  Unwrapped => SumFunction(seen) + counters["dropped"] = Cardinality(named)

\* Whatever a charged statement wrote beyond its charge has become debt of its
\* bucket, what it did not write was refunded, and an aborted charge was given
\* back, once no statement is being ended (README.md:149).
ChargesSettled ==
  (\A b \in Backends : pc[b] \in {"idle", "running"}) => due = owed - returned

-----------------------------------------------------------------------------
(* The mapping to AbstractTelemetry. *)

Known == {names[slot].scope : slot \in NameSlots} \ {<<>>}

Abstract == INSTANCE AbstractTelemetry WITH
  Records <- [kind : Kinds \cup {"fail open"}, scope : ScopeKeys \cup {UnknownScope},
              predicted : Sizes \cup {0}, actual : {<<>>} \cup {<<n>> : n \in Sizes}],
  LogCapacity <- RingCapacity, NameLimit <- NameCapacity, MaxNumber <- MaxU64,
  log <- Log, number <- ring.head, drops <- counters["dropped"],
  seen <- [scope \in Known |-> names[FirstSlot(SlotsOf(names, scope))].seen]

\* The ring and the registry are the log and the map that AbstractTelemetry
\* promises, also when the ring wraps, when its numbers are used up and when
\* the registry is full.
ImplementsAbstractTelemetry == Abstract!Spec

=============================================================================
