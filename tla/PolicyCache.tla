---------------------------- MODULE PolicyCache ----------------------------
(***************************************************************************)
(* Policies: the rows of pwb.policy, the SQL functions that edit them      *)
(* (src/policy.rs), and the copy that each backend keeps                   *)
(* (src/policy_cache.rs, src/catalog.rs).                                  *)
(*                                                                         *)
(* A backend reads the rows through the transaction it is in, keeps what   *)
(* it read for a refresh interval of its clock, and forgets it when it     *)
(* edits a policy itself.  Nobody tells it of the edits of others, nor of  *)
(* the fate of its own.                                                    *)
(***************************************************************************)
EXTENDS Integers, FiniteSets

CONSTANTS
  Backends,
  MaxPolicies,     \* bound on the policies ever created
  InitialRows,     \* the policies there may be at first
  Definitions,     \* the definitions that create_policy and SQL may write
  Modes,           \* the modes set_policy_mode is given
  Folded,          \* what trimming and lower case make of each text
  Budgets,         \* the <<rate, burst>> that update_policy is given
  Priorities,      \* the priorities that update_policy is given
  Targets,         \* the scopes of statements: <<kind, value>>
  AnyValue,        \* the scope_value that is null
  RefreshInterval, \* POLICY_CACHE_REFRESH_INTERVAL_MS
  Isolations,      \* the isolation levels of transactions
  MaxSetBack,      \* how far the system clock may be set back, in all
  MaxTime,         \* bound on time
  MaxEdits         \* bound on edits

ASSUME PolicyCacheAssumption ==
  /\ MaxPolicies \in Nat /\ MaxTime \in Nat /\ MaxEdits \in Nat
  /\ MaxSetBack \in Nat /\ RefreshInterval \in Nat \ {0}
  /\ Isolations \subseteq {"read committed", "repeatable read"}
  /\ Budgets \subseteq Int \X Int /\ Priorities \subseteq Int

VARIABLES
  rows,      \* pwb.policy, as committed
  created,   \* policies created so far: ids are not given twice
  open,      \* the isolation level of each backend's transaction, if it has one
  snapshot,  \* what a repeatable read transaction sees of others
  pending,   \* the rows each open transaction wrote
  cache,     \* POLICY_CACHE of each backend
  time,
  setBack,   \* how far the clock was set back so far
  edits,
  changedAt  \* history: when the rows last changed under each backend's copy

transaction == <<open, snapshot, pending>>
vars == <<rows, created, transaction, cache, time, setBack, edits, changedAt>>

Ids == 1..MaxPolicies
NoPolicy == [policy |-> "none"]
NoPolicies == [id \in Ids |-> NoPolicy]
Kept == [policy |-> "kept"]

\* The columns of a row that exists.
IsPolicyRow(row) ==
  /\ row = [enabled |-> row.enabled, mode |-> row.mode, kind |-> row.kind,
            value |-> row.value, priority |-> row.priority, budget |-> row.budget]
  /\ row.enabled \in BOOLEAN /\ row.priority \in Int /\ row.budget \in Int \X Int

NoChanges == [id \in Ids |-> Kept]
NoCache == [refreshed |-> -1, policies |-> <<>>]

Overlay(base, changes) ==
  [id \in Ids |-> IF changes[id] = Kept THEN base[id] ELSE changes[id]]

\* What a transaction reads, and what it would read if it saw every commit.
Visible(b) ==
  Overlay(IF open[b] = "repeatable read" THEN snapshot[b] ELSE rows, pending[b])
Current(b) == Overlay(rows, pending[b])

-----------------------------------------------------------------------------
(* Validation. *)

\* validate_policy_budget_update, also asked of every row that is loaded
ValidBudget(budget) == budget[1] > 0 /\ budget[2] > 0 /\ budget[2] >= budget[1]

\* Mutant: parse_sql does not know the last mode that was added.
BudgetModesButQueue == {"off", "observe", "shadow", "reject"}

\* The texts that the two parse_sql accept, once folded.
BudgetModes == {"off", "observe", "shadow", "reject", "queue"}
ScopeKinds == {"database", "role", "application", "tenant", "composite"}
ParsesMode(text) == Folded[text] \in BudgetModes
ParsesKind(text) == Folded[text] \in ScopeKinds

\* The check constraints of the table, which compare the texts as they are.
TableAllows(row) ==
  /\ row.mode \in {"off", "observe", "shadow", "reject", "queue"}
  /\ row.kind \in {"database", "role", "application", "tenant", "composite"}
  /\ row.budget[1] > 0 /\ row.budget[2] >= row.budget[1]

\* A text in lower case without blanks is what it is folded to.  The policies
\* there are at first have the first ids.
ASSUME RowsAssumption ==
  /\ \A text \in BudgetModes \cup ScopeKinds : Folded[text] = text
  /\ \A row \in Definitions : IsPolicyRow(row)
  /\ \A policies \in InitialRows :
       /\ policies = [id \in Ids |-> policies[id]]
       /\ \E n \in 0..MaxPolicies : \A id \in Ids : policies[id] # NoPolicy <=> id <= n
       /\ \A id \in Ids : policies[id] # NoPolicy =>
            IsPolicyRow(policies[id]) /\ TableAllows(policies[id])

-----------------------------------------------------------------------------
(* The copy. *)

Precedes(policies, id, other) ==
  \/ policies[id].priority > policies[other].priority
  \/ policies[id].priority = policies[other].priority /\ id < other

EnabledIds(policies) == {id \in Ids : policies[id] # NoPolicy /\ policies[id].enabled}

\* order by priority desc, policy_id asc
InOrder(policies) ==
  CHOOSE order \in [1..Cardinality(EnabledIds(policies)) -> EnabledIds(policies)] :
    \A i, j \in DOMAIN order : i < j => Precedes(policies, order[i], order[j])

\* The row with the kind and the mode that its texts are parsed to.
Parsed(row) == [row EXCEPT !.kind = Folded[@], !.mode = Folded[@]]

\* load_enabled_policy_rows and load_policy_rows
LoadPolicyRows(policies) ==
  LET order == InOrder(policies)
  IN  [i \in DOMAIN order |-> [id |-> order[i], row |-> Parsed(policies[order[i]])]]

\* One row whose budget is not valid or whose kind or mode is not one that
\* parse_sql knows, and no row is loaded.
LoadSucceeds(policies) ==
  \A id \in EnabledIds(policies) :
    /\ ValidBudget(policies[id].budget)
    /\ ParsesKind(policies[id].kind) /\ ParsesMode(policies[id].mode)

\* policy_matches_scope
Matches(row, target) ==
  row.kind = target[1] /\ (row.value = AnyValue \/ row.value = target[2])

\* find_effective_policy: the first match
FindEffectivePolicy(policies, target) ==
  LET found == {i \in DOMAIN policies : Matches(policies[i].row, target)}
  IN  IF found = {} THEN NoPolicy
      ELSE policies[CHOOSE i \in found : \A j \in found : i <= j]

\* A backend reads its clock in milliseconds since the epoch; what matters is
\* how far it is ahead of the reading that the copy was stamped with.
Now == MaxSetBack + time - setBack

\* cache_is_stale: a clock before the copy's stamp makes the copy fresh
IsStale(b) ==
  cache[b] = NoCache \/ (Now >= cache[b].refreshed
                         /\ Now - cache[b].refreshed >= RefreshInterval)

-----------------------------------------------------------------------------

Init ==
  /\ rows \in InitialRows
  /\ created = Cardinality({id \in Ids : rows[id] # NoPolicy})
  /\ open = [b \in Backends |-> "none"]
  /\ snapshot = [b \in Backends |-> NoPolicies]
  /\ pending = [b \in Backends |-> NoChanges]
  /\ cache = [b \in Backends |-> NoCache]
  /\ time = 0 /\ setBack = 0 /\ edits = 0
  /\ changedAt = [b \in Backends |-> 0]

Begin(b, isolation) ==
  /\ open[b] = "none"
  /\ open' = [open EXCEPT ![b] = isolation]
  /\ snapshot' = [snapshot EXCEPT ![b] =
                    IF isolation = "repeatable read" THEN rows ELSE @]
  /\ UNCHANGED <<rows, created, pending, cache, time, setBack, edits, changedAt>>

\* effective_policy_for_scope: a copy that cannot be loaded is not replaced
CacheAfterLookup(b) ==
  IF IsStale(b) /\ LoadSucceeds(Visible(b))
    THEN [refreshed |-> Now, policies |-> LoadPolicyRows(Visible(b))]
    ELSE cache[b]

\* A statement is admitted.
Lookup(b) ==
  /\ open[b] # "none"
  /\ cache' = [cache EXCEPT ![b] = CacheAfterLookup(b)]
  /\ UNCHANGED <<rows, created, transaction, time, setBack, edits, changedAt>>

\* Mutant: an edit leaves the backend's own copy alone.
ForgottenNever(b) == cache

\* invalidate_backend_policy_cache
Forgotten(b) == [cache EXCEPT ![b] = NoCache]

\* A row that another transaction wrote is locked, and one that was changed
\* since the snapshot of a repeatable read transaction cannot be written.
MayWrite(b, id) ==
  /\ open[b] # "none" /\ edits < MaxEdits
  /\ \A other \in Backends \ {b} : pending[other][id] = Kept
  /\ open[b] = "repeatable read" => snapshot[b][id] = rows[id]

\* Whoever writes a row, the table's constraints check it.
Write(b, id, row) ==
  /\ MayWrite(b, id)
  /\ row # NoPolicy => TableAllows(row)
  /\ pending' = [pending EXCEPT ![b][id] = row]
  /\ edits' = edits + 1
  /\ UNCHANGED <<rows, open, snapshot, time, setBack>>

\* create_policy_impl and validate_policy_definition: what is inserted is the
\* text of the parsed kind and mode.
CreatePolicy(b, row) ==
  /\ created < MaxPolicies /\ created' = created + 1
  /\ ParsesMode(row.mode) /\ ParsesKind(row.kind) /\ ValidBudget(row.budget)
  /\ Write(b, created + 1, [Parsed(row) EXCEPT !.enabled = TRUE])
  /\ cache' = Forgotten(b)
  /\ UNCHANGED changedAt

\* One of the functions that update a row, which must exist.
EditPolicy(b, id, row) ==
  /\ Visible(b)[id] # NoPolicy
  /\ Write(b, id, row)
  /\ cache' = Forgotten(b)
  /\ UNCHANGED <<created, changedAt>>

\* set_policy_mode_impl
SetPolicyMode(b, id, mode) ==
  /\ ParsesMode(mode)
  /\ EditPolicy(b, id, [Visible(b)[id] EXCEPT !.mode = Folded[mode]])

\* update_policy_impl
UpdatePolicy(b, id, budget, priority) ==
  /\ ValidBudget(budget)
  /\ EditPolicy(b, id, [Visible(b)[id] EXCEPT !.budget = budget, !.priority = priority])

\* disable_policy_impl
DisablePolicy(b, id) == EditPolicy(b, id, [Visible(b)[id] EXCEPT !.enabled = FALSE])

\* The owner edits the table with SQL; the extension is not told.
EditTable(b, id, row) ==
  /\ Visible(b)[id] # NoPolicy
  /\ Write(b, id, row)
  /\ changedAt' = [changedAt EXCEPT ![b] = time]
  /\ UNCHANGED <<created, cache>>

\* A function is given a policy that does not exist, a budget, a kind or a mode
\* that is not valid, or a row it may not write; a constraint refuses the row; or
\* a statement fails: ERROR.
Rollback(b) ==
  /\ open[b] # "none"
  /\ open' = [open EXCEPT ![b] = "none"]
  /\ snapshot' = [snapshot EXCEPT ![b] = NoPolicies]
  /\ pending' = [pending EXCEPT ![b] = NoChanges]
  /\ changedAt' = [changedAt EXCEPT ![b] = IF pending[b] = NoChanges THEN @ ELSE time]
  /\ UNCHANGED <<rows, created, cache, time, setBack, edits>>

Commit(b) ==
  /\ open[b] # "none"
  /\ rows' = Current(b)
  /\ open' = [open EXCEPT ![b] = "none"]
  /\ snapshot' = [snapshot EXCEPT ![b] = NoPolicies]
  /\ pending' = [pending EXCEPT ![b] = NoChanges]
  /\ changedAt' = [other \in Backends |->
                     IF other = b \/ pending[b] = NoChanges THEN changedAt[other]
                                                            ELSE time]
  /\ UNCHANGED <<created, cache, time, setBack, edits>>

Tick ==
  /\ time < MaxTime /\ time' = time + 1
  /\ UNCHANGED <<rows, created, transaction, cache, setBack, edits, changedAt>>

SetClockBack ==
  /\ setBack < MaxSetBack /\ setBack' = setBack + 1
  /\ UNCHANGED <<rows, created, transaction, cache, time, edits, changedAt>>

Next ==
  \/ \E b \in Backends :
       \/ \E isolation \in Isolations : Begin(b, isolation)
       \/ Lookup(b)
       \/ \E row \in Definitions : CreatePolicy(b, row)
       \/ \E id \in Ids, mode \in Modes : SetPolicyMode(b, id, mode)
       \/ \E id \in Ids, budget \in Budgets, priority \in Priorities :
            UpdatePolicy(b, id, budget, priority)
       \/ \E id \in Ids : DisablePolicy(b, id)
       \/ \E id \in Ids, row \in Definitions \cup {NoPolicy} : EditTable(b, id, row)
       \/ Rollback(b) \/ Commit(b)
  \/ Tick
  \/ SetClockBack

Spec == Init /\ [][Next]_vars

-----------------------------------------------------------------------------
(* Properties. *)

\* Rows that exist have an id that was given, and a copy was made in the past.
TypeOK ==
  /\ \A id \in Ids : rows[id] # NoPolicy => rows[id].enabled \in BOOLEAN /\ id <= created
  /\ \A b \in Backends : open[b] = "none" => pending[b] = NoChanges
  /\ \A b \in Backends : cache[b].refreshed \in -1..(MaxSetBack + time)

\* Every row that the table's constraints let in passes the load: its budget
\* validates and its kind and its mode parse, so one bad row cannot keep all
\* policies of the database from loading (policy_cache.rs:78,
\* pgrx_bootstrap.sql:13).
EveryRowLoads ==
  \A b \in Backends : LoadSucceeds(Visible(b))

\* The effective policy, by its definition (README.md:70): of the enabled
\* policies that match, the one of the highest priority, and of those the one
\* of the lowest id.
IsEffective(policies, target, policy) ==
  LET matching == {id \in EnabledIds(policies) : Matches(policies[id], target)}
  IN  IF policy = NoPolicy THEN matching = {}
      ELSE /\ policy.id \in matching /\ policy.row = policies[policy.id]
           /\ \A id \in matching :
                /\ policies[id].priority <= policy.row.priority
                /\ policies[id].priority = policy.row.priority => policy.id <= id

\* Whatever statement a backend admits next: within the refresh interval of a
\* commit (and as long again as the clock was set back) it is subject to the
\* policy that is then in effect, to the backend's own edits at once, and no
\* longer than the interval to edits that the backend rolled back
\* (policy_cache.rs:225, policy_cache_refresh_interval_bounds_staleness).
PolicyInEffect ==
  \A b \in Backends, target \in Targets :
    open[b] # "none" /\ time - changedAt[b] >= RefreshInterval + setBack =>
      IsEffective(Current(b), target,
                  FindEffectivePolicy(CacheAfterLookup(b).policies, target))

=============================================================================
