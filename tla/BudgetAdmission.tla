--------------------------- MODULE BudgetAdmission ---------------------------
(***************************************************************************)
(* Backends that admit, queue, run and settle statements against the WAL   *)
(* budget buckets in shared memory (src/budget.rs, src/admission.rs,       *)
(* src/reconcile.rs, src/shmem/budget_buckets.rs, src/time.rs).            *)
(*                                                                         *)
(* Each section of code that holds the extension's LWLock is one action.   *)
(* What happens between two sections is visible to the other backends: a   *)
(* backend reads the clock and its policy before it takes the lock, a      *)
(* queued statement sleeps outside the lock with the policy it captured,   *)
(* and a running statement keeps its charge until it is reconciled.        *)
(*                                                                         *)
(* The policy a statement captures is any of PolicyConfigs: every row an   *)
(* administrator ever commits is one of them, and the backend-local policy *)
(* cache may return an old row, so the choice is not tied to the order in  *)
(* which the rows were committed.                                          *)
(***************************************************************************)
EXTENDS TokenBucket, FiniteSets, FiniteSetsExt

CONSTANTS
  Backends,              \* PostgreSQL backends
  Scopes,                \* scope hashes statements are classified to
  PolicyConfigs,         \* validated policy rows that may be effective
  RateCeiling,           \* [policy id -> a rate no row of that policy exceeds]
  Predictions,           \* predicted WAL bytes of a statement
  Actuals,               \* WAL bytes a statement really writes
  BudgetBucketCapacity,  \* pwb.budget_bucket_capacity
  FailOpen,              \* pwb.fail_open
  SleepChunkMs,          \* SLEEP_CHUNK_MS
  Ticks,                 \* lengths by which the clock advances
  FreeClock,             \* bound: beyond it time passes only for a sleeper
  MaxClock,              \* bound on the clock
  MaxStatements,         \* bound on the statements of a backend
  MaxUpsets              \* bound on backward clock steps and restarts together

Modes == {"off", "observe", "shadow", "reject", "queue"}

PolicyIds == {p.policy_id : p \in PolicyConfigs}

\* effective_policy_for_scope found no matching row.
NoPolicy == [policy_id |-> CHOOSE i \in PolicyIds : TRUE,
             mode |-> "unmatched", rate |-> 0, burst |-> 0]

ASSUME PolicyAssumption ==
  /\ PolicyConfigs # {}
  /\ \A p \in PolicyConfigs :
       /\ p.mode \in Modes
       /\ p.rate \in Bytes \ {0}
       /\ p.burst \in Bytes
       /\ p.rate <= p.burst
       /\ RateCeiling[p.policy_id] \in Nat
       /\ p.rate <= RateCeiling[p.policy_id]

ASSUME StatementAssumption ==
  /\ Scopes # {}
  /\ IsFiniteSet(Backends)
  /\ Predictions \subseteq Bytes
  /\ Actuals \subseteq Bytes

ASSUME ClockAssumption ==
  /\ SleepChunkMs \in Nat \ {0}
  /\ Ticks \subseteq Nat \ {0}
  /\ FreeClock \in Nat /\ MaxClock \in Nat /\ MaxStatements \in Nat
  /\ MaxUpsets \in Nat
  /\ BudgetBucketCapacity \in Nat /\ FailOpen \in BOOLEAN

VARIABLES
  wall,       \* what current_epoch_ms() returns
  buckets,    \* shared memory: the bucket of each (policy, scope)
  stmt,       \* per backend: the statement it is admitting or running
  started,    \* per backend: statements started (bound)
  stepBacks,  \* backward clock steps so far (bound)
  crashes,    \* restarts so far (bound)
  ledger,     \* history: what each bucket has issued since it was created
  sole        \* history: queued backends nobody has interfered with

vars == <<wall, buckets, stmt, started, stepBacks, crashes, ledger, sole>>

Keys == PolicyIds \X Scopes

Phases == {"idle", "admit", "queued", "retry", "running", "untracked"}

Statement == [phase: Phases, policy: PolicyConfigs \cup {NoPolicy},
              scope: Scopes, predicted: Bytes, now: Nat, sleep: Nat,
              kind: {"Allowed", "WouldReject"}, charged: Bytes]

IdleStatement ==
  [phase |-> "idle", policy |-> NoPolicy, scope |-> CHOOSE s \in Scopes : TRUE,
   predicted |-> 0, now |-> 0, sleep |-> 0, kind |-> "Allowed", charged |-> 0]

\* History record of a bucket: its first balance, when it was created, the
\* bytes charged less the bytes refunded, the WAL accounted for when charged
\* statements ended, and the charges that failed completions left behind.
Ledger == [initial: Nat, created: Nat, granted: Int, used: Nat, lost: Nat]
NewLedger(initial, created) ==
  [initial |-> initial, created |-> created, granted |-> 0, used |-> 0, lost |-> 0]

Key(s) == <<s.policy.policy_id, s.scope>>
Opened == {k \in Keys : buckets[k].occupied}

\* Mutant: the kind of the decision is not looked at.
HoldsChargeOfAnyKind(s) == s.phase = "running" /\ s.charged > 0

\* charged_policy_id: only an allowed statement with a charge is settled.
HoldsCharge(s) == s.phase = "running" /\ s.kind = "Allowed" /\ s.charged > 0

Init ==
  /\ wall = 0
  /\ buckets = [k \in Keys |-> EmptySlot]
  /\ stmt = [b \in Backends |-> IdleStatement]
  /\ started = [b \in Backends |-> 0]
  /\ stepBacks = 0
  /\ crashes = 0
  /\ ledger = [k \in Keys |-> NewLedger(0, 0)]
  /\ sole = {}
------------------------------------------------------------------------------
(***************************************************************************)
(* Admission.  admit_context reads the clock, then looks up the policy;    *)
(* both are kept while the backend goes on to take the lock.               *)
(***************************************************************************)
Start(b) ==
  /\ stmt[b].phase = "idle"
  /\ started[b] < MaxStatements
  /\ \E policy \in PolicyConfigs \cup {NoPolicy}, scope \in Scopes,
        predicted \in Predictions :
       stmt' = [stmt EXCEPT ![b] =
                 [IdleStatement EXCEPT !.phase = "admit", !.policy = policy,
                    !.scope = scope, !.predicted = predicted, !.now = wall]]
  /\ started' = [started EXCEPT ![b] = @ + 1]
  /\ UNCHANGED <<wall, buckets, stepBacks, crashes, ledger, sole>>

Running(s, kind, charged) ==
  [s EXCEPT !.phase = "running", !.kind = kind, !.charged = charged,
            !.now = 0, !.sleep = 0]

\* No policy, and the modes that never touch a bucket: off and observe.
AdmitUncharged(b) ==
  /\ stmt[b].phase = "admit"
  /\ stmt[b].policy.mode \in {"unmatched", "off", "observe"}
  /\ stmt' = [stmt EXCEPT ![b] = Running(@, "Allowed", 0)]
  /\ UNCHANGED <<wall, buckets, started, stepBacks, crashes, ledger, sole>>

\* apply_budget_bucket works on the stored bucket, or on a new one that is
\* stored only if the callback succeeds and a slot is left.
BucketFor(s) == IF buckets[Key(s)].occupied THEN buckets[Key(s)]
                ELSE InitialBucketState(s.policy, s.now)

LedgerFor(s) == IF buckets[Key(s)].occupied THEN ledger[Key(s)]
                ELSE NewLedger(s.policy.burst, s.now)

HasSlot(s) == \/ buckets[Key(s)].occupied
              \/ Cardinality(Opened) < BudgetBucketCapacity

Refreshed(s) == RefreshBucket(BucketFor(s), s.policy, s.now)

\* Waiters of bucket k other than b no longer wait undisturbed.
Undisturbed(b, k) == {o \in sole \ {b} : Key(stmt[o]) # k}

\* Shadow mode refreshes the bucket if there is one, and charges nothing; a
\* statement that would be rejected still runs and keeps the predicted amount
\* in its decision.
AdmitShadow(b) ==
  LET s == stmt[b]
      fits == CanAfford(Refreshed(s).available, s.predicted)
  IN  /\ s.phase = "admit" /\ s.policy.mode = "shadow"
      /\ stmt' = [stmt EXCEPT ![b] =
                    IF fits THEN Running(s, "Allowed", 0)
                            ELSE Running(s, "WouldReject", s.predicted)]
      /\ IF buckets[Key(s)].occupied
           THEN /\ buckets' = [buckets EXCEPT ![Key(s)] = Refreshed(s)]
                /\ sole' = Undisturbed(b, Key(s))
           ELSE UNCHANGED <<buckets, sole>>
      /\ UNCHANGED <<wall, started, stepBacks, crashes, ledger>>

\* Mutant: predictions above the burst are queued.
OverBurstIgnored(s) == s.policy.mode = "queue" /\ s.policy.burst = 0

\* The queue loop checks the burst once, before its first attempt.
OverBurst(s) == s.policy.mode = "queue" /\ s.predicted > s.policy.burst

Attempting(s) ==
  \/ s.phase = "admit" /\ s.policy.mode \in {"reject", "queue"} /\ ~OverBurst(s)
  \/ s.phase = "retry"

\* The refreshed bucket covers the prediction: charge it and run.
AdmitCharged(b) ==
  LET s == stmt[b]
      bucket == Refreshed(s)
  IN  /\ Attempting(s) /\ HasSlot(s)
      /\ CanAfford(bucket.available, s.predicted)
      /\ buckets' = [buckets EXCEPT ![Key(s)] = ChargeAvailable(bucket, s.predicted)]
      /\ stmt' = [stmt EXCEPT ![b] = Running(s, "Allowed", s.predicted)]
      /\ ledger' = [ledger EXCEPT ![Key(s)] =
                      [LedgerFor(s) EXCEPT !.granted = @ + s.predicted]]
      /\ sole' = Undisturbed(b, Key(s))
      /\ UNCHANGED <<wall, started, stepBacks, crashes>>

\* Reject mode: the callback fails, so neither the refresh nor a new bucket is
\* stored, and the statement ends in an error.
RejectOverBudget(b) ==
  LET s == stmt[b]
  IN  /\ Attempting(s) /\ HasSlot(s) /\ s.policy.mode = "reject"
      /\ ~CanAfford(Refreshed(s).available, s.predicted)
      /\ stmt' = [stmt EXCEPT ![b] = IdleStatement]
      /\ UNCHANGED <<wall, buckets, started, stepBacks, crashes, ledger, sole>>

RejectOverBurst(b) ==
  /\ stmt[b].phase = "admit" /\ OverBurst(stmt[b])
  /\ stmt' = [stmt EXCEPT ![b] = IdleStatement]
  /\ UNCHANGED <<wall, buckets, started, stepBacks, crashes, ledger, sole>>

\* No slot is left: an internal error, and the statement runs unmetered when
\* the extension fails open.
BucketCapacityExhausted(b) ==
  /\ Attempting(stmt[b]) /\ ~HasSlot(stmt[b])
  /\ stmt' = [stmt EXCEPT ![b] =
                [IdleStatement EXCEPT !.phase = IF FailOpen THEN "untracked" ELSE "idle"]]
  /\ UNCHANGED <<wall, buckets, started, stepBacks, crashes, ledger, sole>>
------------------------------------------------------------------------------
(***************************************************************************)
(* The queue: the refreshed bucket is stored, then the backend sleeps      *)
(* outside the lock.  A chunk of the sleep ends early when the process     *)
(* latch is set, and an interrupt ends the statement.                      *)
(***************************************************************************)
QueueWouldWait(b) ==
  LET s == stmt[b]
      bucket == Refreshed(s)
      deficit == s.predicted - bucket.available
  IN  /\ Attempting(s) /\ HasSlot(s) /\ s.policy.mode = "queue"
      /\ ~CanAfford(bucket.available, s.predicted)
      /\ buckets' = [buckets EXCEPT ![Key(s)] = bucket]
      /\ stmt' = [stmt EXCEPT ![b] =
                    [s EXCEPT !.phase = "queued", !.now = 0,
                              !.sleep = WaitMsForDeficit(deficit, bucket.rate)]]
      /\ ledger' = [ledger EXCEPT ![Key(s)] = LedgerFor(s)]
      /\ sole' = Undisturbed(b, Key(s)) \cup
                 (IF bucket.last_refill <= wall THEN {b} ELSE {})
      /\ UNCHANGED <<wall, started, stepBacks, crashes>>

\* Mutant: the retry does not read the clock again.
WakeWithoutClock(b) ==
  /\ stmt[b].phase = "queued" /\ stmt[b].sleep = 0
  /\ stmt' = [stmt EXCEPT ![b].phase = "retry"]
  /\ UNCHANGED <<wall, buckets, started, stepBacks, crashes, ledger, sole>>

\* The sleep is over: the clock is read again for the next attempt.
Wake(b) ==
  /\ stmt[b].phase = "queued" /\ stmt[b].sleep = 0
  /\ stmt' = [stmt EXCEPT ![b] = [@ EXCEPT !.phase = "retry", !.now = wall]]
  /\ UNCHANGED <<wall, buckets, started, stepBacks, crashes, ledger, sole>>

\* WaitLatch returns early, and the whole chunk is counted as slept.
LatchSet(b) ==
  /\ stmt[b].phase = "queued" /\ stmt[b].sleep > 0
  /\ stmt' = [stmt EXCEPT ![b].sleep = @ - Smaller(@, SleepChunkMs)]
  /\ sole' = sole \ {b}
  /\ UNCHANGED <<wall, buckets, started, stepBacks, crashes, ledger>>

\* ProcessInterrupts raises an error in the sleep: nothing was charged, and no
\* active statement was pushed, so there is nothing to give back.
CancelQueued(b) ==
  /\ stmt[b].phase = "queued"
  /\ stmt' = [stmt EXCEPT ![b] = IdleStatement]
  /\ sole' = sole \ {b}
  /\ UNCHANGED <<wall, buckets, started, stepBacks, crashes, ledger>>
------------------------------------------------------------------------------
(***************************************************************************)
(* The end of a statement.                                                 *)
(***************************************************************************)
\* Mutant: the whole WAL of an underpredicted statement becomes debt.
ReconcileWholeDebt(bucket, charged, actual) ==
  IF ~bucket.occupied THEN bucket
  ELSE IF actual < charged THEN RefundBudgetCharge(bucket, charged - actual)
  ELSE IF actual > charged THEN RecordBudgetDebt(bucket, actual)
  ELSE bucket

\* reconcile_budget: the refund or the debt, on an existing bucket only.
ReconcileBudget(bucket, charged, actual) ==
  IF ~bucket.occupied THEN bucket
  ELSE IF actual < charged THEN RefundBudgetCharge(bucket, charged - actual)
  ELSE IF actual > charged THEN RecordBudgetDebt(bucket, actual - charged)
  ELSE bucket

\* The statement ran to its end, its WAL was measured and its completion went
\* through to the budget.
Complete(b) ==
  LET s == stmt[b]
  IN  /\ s.phase = "running"
      /\ stmt' = [stmt EXCEPT ![b] = IdleStatement]
      /\ IF HoldsCharge(s)
           THEN \E actual \in Actuals :
                  /\ buckets' = [buckets EXCEPT ![Key(s)] =
                                   ReconcileBudget(@, s.charged, actual)]
                  /\ ledger' = [ledger EXCEPT
                       ![Key(s)].granted = @ - (s.charged - Smaller(actual, s.charged)),
                       ![Key(s)].used = @ + actual]
           ELSE UNCHANGED <<buckets, ledger>>
      /\ UNCHANGED <<wall, started, stepBacks, crashes, sole>>

\* The completion has popped the statement when the SQL that records its profile
\* raises an ERROR: the budget is not reached, and the abort that follows does
\* not find the statement.
CompletionRaises(b) ==
  LET s == stmt[b]
  IN  /\ s.phase = "running"
      /\ stmt' = [stmt EXCEPT ![b] = IdleStatement]
      /\ ledger' = IF HoldsCharge(s)
                   THEN [ledger EXCEPT ![Key(s)].lost = @ + s.charged]
                   ELSE ledger
      /\ UNCHANGED <<wall, buckets, started, stepBacks, crashes, sole>>

\* The transaction aborts while the statement runs: the whole charge returns.
AbortRunning(b) ==
  LET s == stmt[b]
  IN  /\ s.phase = "running"
      /\ stmt' = [stmt EXCEPT ![b] = IdleStatement]
      /\ IF HoldsCharge(s)
           THEN /\ buckets' = [buckets EXCEPT ![Key(s)] = ReconcileBudget(@, s.charged, 0)]
                /\ ledger' = [ledger EXCEPT ![Key(s)].granted = @ - s.charged]
           ELSE UNCHANGED <<buckets, ledger>>
      /\ UNCHANGED <<wall, started, stepBacks, crashes, sole>>

\* The transaction commits with the statement still active (record_missing_
\* actual_wal): its charge stands.
CommitUnmeasured(b) ==
  LET s == stmt[b]
  IN  /\ s.phase = "running"
      /\ stmt' = [stmt EXCEPT ![b] = IdleStatement]
      /\ ledger' = IF HoldsCharge(s)
                   THEN [ledger EXCEPT ![Key(s)].used = @ + s.charged]
                   ELSE ledger
      /\ UNCHANGED <<wall, buckets, started, stepBacks, crashes, sole>>

FinishUntracked(b) ==
  /\ stmt[b].phase = "untracked"
  /\ stmt' = [stmt EXCEPT ![b] = IdleStatement]
  /\ UNCHANGED <<wall, buckets, started, stepBacks, crashes, ledger, sole>>
------------------------------------------------------------------------------
(***************************************************************************)
(* The environment: time, a wall clock set back, a restart of the server.  *)
(***************************************************************************)
Tick ==
  /\ wall < FreeClock \/ \E b \in Backends : stmt[b].sleep > 0
  /\ \E d \in Ticks :
       /\ wall + d <= MaxClock
       /\ wall' = wall + d
       /\ stmt' = [b \in Backends |->
                     [stmt[b] EXCEPT !.sleep = @ - Smaller(@, d)]]
  /\ UNCHANGED <<buckets, started, stepBacks, crashes, ledger, sole>>

\* SystemTime is not monotonic; a sleep in progress is not affected.
ClockStepBack ==
  /\ stepBacks + crashes < MaxUpsets
  /\ \E d \in Ticks : d <= wall /\ wall' = wall - d
  /\ stepBacks' = stepBacks + 1
  /\ sole' = {}
  /\ UNCHANGED <<buckets, stmt, started, crashes, ledger>>

\* Shared memory is zeroed when the server starts again.
CrashRestart ==
  /\ stepBacks + crashes < MaxUpsets
  /\ crashes' = crashes + 1
  /\ buckets' = [k \in Keys |-> EmptySlot]
  /\ stmt' = [b \in Backends |-> IdleStatement]
  /\ ledger' = [k \in Keys |-> NewLedger(0, 0)]
  /\ sole' = {}
  /\ UNCHANGED <<wall, started, stepBacks>>

\* Every backend has run its statements; nothing is left to do.
Finished ==
  /\ \A b \in Backends : stmt[b].phase = "idle" /\ started[b] = MaxStatements
  /\ UNCHANGED vars

Attempt(b) ==
  \/ AdmitUncharged(b) \/ AdmitShadow(b) \/ AdmitCharged(b)
  \/ RejectOverBudget(b) \/ RejectOverBurst(b)
  \/ BucketCapacityExhausted(b) \/ QueueWouldWait(b)

StatementEnds(b) ==
  \/ Complete(b) \/ CompletionRaises(b)
  \/ AbortRunning(b) \/ CommitUnmeasured(b)

Next ==
  \/ \E b \in Backends :
       \/ Start(b) \/ Attempt(b)
       \/ Wake(b) \/ LatchSet(b) \/ CancelQueued(b)
       \/ StatementEnds(b) \/ FinishUntracked(b)
  \/ Tick \/ ClockStepBack \/ CrashRestart \/ Finished

Spec == Init /\ [][Next]_vars

\* Time passes (strong fairness: however often a latch cuts a sleep short, the
\* retries take time), a backend that can go on with its admission does, and
\* a sleep that is over ends: none of them waits for anything but the CPU and
\* the LWLock, which every holder gives back.  Nothing is assumed of how long
\* a statement runs, of cancellation, or of new statements.
Fairness ==
  /\ SF_vars(Tick)
  /\ \A b \in Backends : WF_vars(Attempt(b)) /\ WF_vars(Wake(b))

FairSpec == Spec /\ Fairness
------------------------------------------------------------------------------
(***************************************************************************)
(* Properties.                                                             *)
(***************************************************************************)
\* Types, and the bounds the unsigned arithmetic of the code relies on.
TypeOK ==
  /\ wall \in Nat
  /\ buckets \in [Keys -> Bucket]
  /\ stmt \in [Backends -> Statement]
  /\ started \in [Backends -> Nat]
  /\ stepBacks \in Nat
  /\ crashes \in Nat
  /\ ledger \in [Keys -> Ledger]
  /\ sole \subseteq Backends

\* A bucket never holds more than its burst, and its refill time is a reading
\* of the clock (not in the future unless the clock was set back), however the
\* policy refreshes, refills, refunds and stale readings interleave
\* (refresh_bucket_policy, refill_available_bytes, refund_budget_charge).
BucketBounds ==
  \A k \in Opened :
    /\ buckets[k].available <= buckets[k].max_burst
    /\ ledger[k].created <= buckets[k].last_refill
    /\ stepBacks = 0 => buckets[k].last_refill <= wall

\* The promise of a token bucket: what a bucket holds and what it has issued
\* (charges less refunds) never exceeds its first balance and what the fastest
\* rate earns in the time it has credited.  Stale clock readings, stale
\* policies, retries, aborts and refunds of other statements create no budget.
IssueBound ==
  \A k \in Opened :
    1000 * (buckets[k].available + ledger[k].granted - ledger[k].initial)
      <= RateCeiling[k[1]] * (buckets[k].last_refill - ledger[k].created)

\* What a statement has charged to bucket k and not settled.
Owed(s, k) == IF HoldsCharge(s) /\ Key(s) = k THEN s.charged ELSE 0

InFlight(k) == SumFunction([b \in Backends |-> Owed(stmt[b], k)])

\* The books balance: what a bucket has issued, with the debt recorded for
\* underpredicted statements, is the WAL accounted for when statements ended,
\* the charges of the statements running now, and those whose completion an
\* ERROR cut short.  So a rejected, waiting or cancelled statement holds no
\* charge; every other charge is settled exactly once, on the bucket it was
\* taken from; and a failed completion costs the budget its own charge and no
\* more (reconcile_completed_statement, record_aborted_statement, queue
\* cancellation).  Only the debt that a saturated counter no longer records can
\* be missing.
BooksBalance ==
  \A k \in Opened :
    LET issued == ledger[k].granted + buckets[k].debt
        spent  == ledger[k].used + ledger[k].lost + InFlight(k)
    IN  issued <= spent /\ (buckets[k].debt < MaxBytes => issued = spent)

FullRefillMs(policy) == (policy.burst * 1000 + policy.rate - 1) \div policy.rate

\* A queued statement can fit the burst of the policy it captured, and never
\* sleeps longer than that policy takes to fill an empty bucket
\* (admit_queue_statement's check, wait_ms_for_deficit).
QueueWaitBounded ==
  \A b \in Backends :
    stmt[b].phase \in {"queued", "retry"} =>
      /\ stmt[b].predicted <= stmt[b].policy.burst
      /\ stmt[b].sleep <= FullRefillMs(stmt[b].policy)

\* The refill time of a bucket never goes back while the server runs, though
\* backends apply clock readings in any order (refill_available_bytes).
RefillTimeMonotone ==
  [][crashes' = crashes =>
       \A k \in Opened : /\ k \in Opened'
                         /\ buckets[k].last_refill <= buckets'[k].last_refill]_vars

\* One computed wait is enough: a waiter whose bucket nobody else refreshed or
\* charged since its attempt, whose sleep was not cut short and whose clock
\* was not set back does not have to wait a second time
\* (wait_ms_for_deficit rounds up, refill_available_bytes keeps the fraction
\* of an interval that earned nothing).
SoleWaiterIsAdmitted ==
  [][\A b \in sole : stmt[b].phase = "retry" => stmt'[b].phase # "queued"]_vars

\* A queued statement does not wait for ever when the statements that compete
\* for its bucket are finite in number: it is admitted, or ends
\* (admit_queue_with_retry's loop).
QueuedIsServed ==
  \A b \in Backends :
    stmt[b].phase = "queued" ~> stmt[b].phase \in {"running", "idle"}
==============================================================================
