------------------------- MODULE PolicyCache_proofs -------------------------
(***************************************************************************)
(* Proofs about PolicyCache for every set of backends, policies and        *)
(* targets, every refresh interval and every number of policies and edits. *)
(***************************************************************************)
EXTENDS PolicyCache, FiniteFolds

-----------------------------------------------------------------------------
(* Enabled rows can be put in order.                                       *)

Sortable(policies) == \A id \in EnabledIds(policies) : policies[id].priority \in Int

LEMMA Bounds ==
  /\ MaxPolicies \in Nat /\ MaxSetBack \in Nat
  /\ RefreshInterval \in Nat /\ RefreshInterval # 0
<1>1. RefreshInterval \in Nat \ {0}
  BY Zenon, PolicyCacheAssumption
<1>2. RefreshInterval \in Nat /\ RefreshInterval # 0
  BY <1>1
<1>3. MaxPolicies \in Nat /\ MaxSetBack \in Nat
  BY Zenon, PolicyCacheAssumption
<1> QED
  BY <1>2, <1>3

LEMMA IdsAreIntegers ==
  ASSUME NEW policies, NEW id \in EnabledIds(policies)
  PROVE  id \in Ids /\ id \in Int
  BY Bounds DEF EnabledIds, Ids

LEMMA EnabledIdsAreFinite ==
  ASSUME NEW policies
  PROVE  /\ IsFiniteSet(EnabledIds(policies))
         /\ Cardinality(EnabledIds(policies)) \in Nat
<1>1. IsFiniteSet(1..MaxPolicies)
  BY FS_Interval, Bounds
<1>2. EnabledIds(policies) \in SUBSET (1..MaxPolicies)
  BY DEF EnabledIds, Ids
<1>3. IsFiniteSet(EnabledIds(policies))
  BY <1>1, <1>2, FS_Subset
<1> QED
  BY <1>3, FS_CardinalityType

\* Precedes is a strict total order of the enabled rows.
LEMMA PrecedesIsTotal ==
  ASSUME NEW policies, Sortable(policies),
         NEW x \in EnabledIds(policies), NEW y \in EnabledIds(policies)
  PROVE  /\ ~Precedes(policies, x, x)
         /\ x = y \/ Precedes(policies, x, y) \/ Precedes(policies, y, x)
         /\ \A z \in EnabledIds(policies) :
              Precedes(policies, x, y) /\ Precedes(policies, y, z)
                => Precedes(policies, x, z)
  BY IdsAreIntegers DEF Precedes, Sortable

Preceding(policies) ==
  {pair \in EnabledIds(policies) \X EnabledIds(policies) :
     Precedes(policies, pair[1], pair[2])}

LEMMA PrecedingIsTotal ==
  ASSUME NEW policies, Sortable(policies)
  PROVE  StrictTotal(Preceding(policies), EnabledIds(policies))
<1>1. \A x, y \in EnabledIds(policies) :
        <<x, y>> \in Preceding(policies) <=> Precedes(policies, x, y)
  BY DEF Preceding
<1> QED
  BY <1>1, PrecedesIsTotal DEF StrictTotal

IsOrder(policies, order) ==
  /\ order \in [1..Cardinality(EnabledIds(policies)) -> EnabledIds(policies)]
  /\ \A i, j \in DOMAIN order : i < j => Precedes(policies, order[i], order[j])

LEMMA OrdersAreOrders ==
  ASSUME NEW policies, NEW order
  PROVE  IsOrder(policies, order) <=> IsOrderOf(order, EnabledIds(policies), Preceding(policies))
<1> DEFINE all == EnabledIds(policies)
<1>1. \A x, y \in all : <<x, y>> \in Preceding(policies) <=> Precedes(policies, x, y)
  BY DEF Preceding
<1> HIDE DEF all
<1> QED
  BY <1>1 DEF IsOrder, IsOrderOf, all

LEMMA InOrderOrders ==
  ASSUME NEW policies, Sortable(policies)
  PROVE  IsOrder(policies, InOrder(policies))
<1>1. \E order : IsOrder(policies, order)
  BY OrdersExist, PrecedingIsTotal, EnabledIdsAreFinite, OrdersAreOrders
<1> QED
  BY <1>1 DEF IsOrder, InOrder

-----------------------------------------------------------------------------
(* What a copy of the rows says is what the rows say.                      *)

\* No enabled row is left out of an order.
LEMMA NoRowIsLeftOut ==
  ASSUME NEW policies, Sortable(policies), NEW order, IsOrder(policies, order)
  PROVE  \A id \in EnabledIds(policies) :
           \E i \in 1..Cardinality(EnabledIds(policies)) : order[i] = id
  BY OrderIsComplete, PrecedingIsTotal, EnabledIdsAreFinite, OrdersAreOrders

\* Rows whose texts are those of the kinds and modes they are parsed to.
Canonical(policies) == \A id \in EnabledIds(policies) : Parsed(policies[id]) = policies[id]

\* The policy that is found in a copy of the rows is the effective one of the
\* rows (find_effective_policy, over load_enabled_policy_rows).
LEMMA CopyIsEffective ==
  ASSUME NEW policies, Sortable(policies), Canonical(policies), NEW target
  PROVE  IsEffective(policies, target,
                     FindEffectivePolicy(LoadPolicyRows(policies), target))
<1> DEFINE all == EnabledIds(policies)
           n == Cardinality(all)
           order == InOrder(policies)
           copy == LoadPolicyRows(policies)
           found == {i \in 1..n : Matches(policies[order[i]], target)}
           matching == {id \in all : Matches(policies[id], target)}
           effective == FindEffectivePolicy(copy, target)
<1>1. IsOrder(policies, order)
  BY InOrderOrders
<1>2. order \in [1..n -> all]
  BY <1>1 DEF IsOrder
<1>3. \A id \in all : \E i \in 1..n : order[i] = id
  BY <1>1, NoRowIsLeftOut
<1>4. copy = [i \in 1..n |-> [id |-> order[i], row |-> policies[order[i]]]]
  <2>1. DOMAIN order = 1..n
    BY <1>2
  <2>2. copy = [i \in 1..n |-> [id |-> order[i], row |-> Parsed(policies[order[i]])]]
    BY <2>1 DEF LoadPolicyRows
  <2>3. \A i \in 1..n : Parsed(policies[order[i]]) = policies[order[i]]
    BY <1>2 DEF Canonical
  <2> QED
    BY <2>2, <2>3
<1>5. {i \in DOMAIN copy : Matches(copy[i].row, target)} = found
  <2> HIDE DEF copy, n, order
  <2> QED
    BY <1>4
<1> HIDE DEF copy, order
<1>6. CASE found = {}
  <2>1. effective = NoPolicy
    BY <1>5, <1>6 DEF FindEffectivePolicy
  <2>2. matching = {}
    BY <1>3, <1>6
  <2> QED
    BY <2>1, <2>2 DEF IsEffective, copy
<1>7. CASE found # {}
  <2> DEFINE first == CHOOSE i \in found : \A j \in found : i <= j
  <2>1. found \subseteq Nat
    BY EnabledIdsAreFinite
  <2>2. first \in found /\ \A j \in found : first <= j
    <3>1. \E i \in found : \A j \in found : i <= j
      <4> HIDE DEF found
      <4> QED
        BY <1>7, <2>1, LeastNatural
    <3> HIDE DEF found
    <3> QED
      BY <3>1
  <2>3. effective = copy[first]
    BY <1>5, <1>7 DEF FindEffectivePolicy
  <2> HIDE DEF first, effective
  <2>4. first \in 1..n /\ Matches(policies[order[first]], target)
    BY <2>2
  <2>5. effective = [id |-> order[first], row |-> policies[order[first]]]
    BY <1>4, <2>3, <2>4
  <2>6. effective # NoPolicy
    BY <2>5 DEF NoPolicy
  <2>7. /\ effective.id = order[first] /\ effective.row = policies[order[first]]
        /\ effective.id \in matching
    BY <1>2, <2>4, <2>5
  <2>8. ASSUME NEW id \in matching
        PROVE  /\ policies[id].priority <= policies[order[first]].priority
               /\ policies[id].priority = policies[order[first]].priority
                    => order[first] <= id
    <3>1. PICK j \in 1..n : order[j] = id
      BY <1>3
    <3>2. j \in found /\ first <= j
      BY <2>2, <2>8, <3>1
    <3>3. first \in Int /\ j \in Int
      BY <2>1, <2>2, <3>2
    <3>4. policies[id].priority \in Int /\ id \in Int
      BY IdsAreIntegers DEF Sortable
    <3>5. CASE first = j
      BY <3>1, <3>4, <3>5
    <3>6. CASE first < j
      <4>1. Precedes(policies, order[first], id)
        BY <1>1, <1>2, <2>4, <3>1, <3>6 DEF IsOrder
      <4>2. order[first] \in all
        BY <1>2, <2>4
      <4>3. policies[order[first]].priority \in Int /\ order[first] \in Int
        BY <4>2, IdsAreIntegers DEF Sortable
      <4> QED
        BY <3>4, <4>1, <4>3 DEF Precedes
    <3> QED
      BY <3>2, <3>3, <3>5, <3>6
  <2>9. IsEffective(policies, target, effective)
    BY <2>6, <2>7, <2>8 DEF IsEffective
  <2> QED
    BY <2>9 DEF effective, copy
<1> QED
  BY <1>6, <1>7

-----------------------------------------------------------------------------
(* The inductive invariant.                                                *)

GoodRow(row) == IsPolicyRow(row) /\ TableAllows(row)

\* Rows as a transaction may see them: a row that exists is one that the
\* constraints let in, under one of the ids given so far.
IsTable(policies, last) ==
  /\ policies = [id \in Ids |-> policies[id]]
  /\ \A id \in Ids : policies[id] # NoPolicy => GoodRow(policies[id]) /\ id <= last

AreChanges(changes, last) ==
  /\ changes = [id \in Ids |-> changes[id]]
  /\ \A id \in Ids : changes[id] \notin {Kept, NoPolicy} =>
       GoodRow(changes[id]) /\ id <= last

RowsOK ==
  /\ created \in 0..MaxPolicies
  /\ IsTable(rows, created)
  /\ snapshot = [b \in Backends |-> snapshot[b]]
  /\ pending = [b \in Backends |-> pending[b]]
  /\ \A b \in Backends : IsTable(snapshot[b], created) /\ AreChanges(pending[b], created)

OpenOK ==
  /\ open \in [Backends -> {"none"} \cup Isolations]
  /\ \A b \in Backends : open[b] = "none" => pending[b] = NoChanges

ClocksOK ==
  /\ time \in Nat /\ setBack \in 0..MaxSetBack
  /\ changedAt \in [Backends -> 0..time]
  /\ cache = [b \in Backends |-> cache[b]]
  /\ \A b \in Backends : cache[b].refreshed \in -1..(MaxSetBack + time)

IInv == RowsOK /\ OpenOK /\ ClocksOK

LEMMA OverlayIsTable ==
  ASSUME NEW last, NEW base, IsTable(base, last), NEW changes, AreChanges(changes, last)
  PROVE  IsTable(Overlay(base, changes), last)
<1> DEFINE over == Overlay(base, changes)
<1>1. over = [id \in Ids |-> IF changes[id] = Kept THEN base[id] ELSE changes[id]]
  BY DEF Overlay
<1>2. over = [id \in Ids |-> over[id]]
  BY <1>1
<1>3. ASSUME NEW id \in Ids, over[id] # NoPolicy
      PROVE  GoodRow(over[id]) /\ id <= last
  <2>1. CASE changes[id] = Kept
    BY <1>1, <1>3, <2>1 DEF IsTable
  <2>2. CASE changes[id] # Kept
    BY <1>1, <1>3, <2>2 DEF AreChanges
  <2> QED
    BY <2>1, <2>2
<1> HIDE DEF over
<1>4. IsTable(over, last)
  BY <1>2, <1>3 DEF IsTable
<1> QED
  BY <1>4 DEF over

LEMMA TablesOutlast ==
  ASSUME NEW last \in Int, NEW later \in Int, last <= later
  PROVE  /\ \A policies : IsTable(policies, last) => IsTable(policies, later)
         /\ \A changes : AreChanges(changes, last) => AreChanges(changes, later)
<1>1. \A id \in Ids : id <= last => id <= later
  BY Bounds DEF Ids
<1> QED
  BY <1>1 DEF IsTable, AreChanges

LEMMA EmptyTables ==
  ASSUME NEW last
  PROVE  IsTable(NoPolicies, last) /\ AreChanges(NoChanges, last)
  BY DEF IsTable, AreChanges, NoPolicies, NoChanges

LEMMA VisibleIsTable ==
  ASSUME RowsOK, NEW b \in Backends
  PROVE  IsTable(Visible(b), created) /\ IsTable(Current(b), created)
<1>1. IsTable(rows, created) /\ IsTable(snapshot[b], created) /\ AreChanges(pending[b], created)
  BY DEF RowsOK
<1> QED
  BY <1>1, OverlayIsTable DEF Visible, Current

\* The fields of an edited row.
LEMMA RowFields ==
  ASSUME NEW row, IsPolicyRow(row)
  PROVE  /\ \A x : [row EXCEPT !.enabled = x] =
                 [enabled |-> x, mode |-> row.mode, kind |-> row.kind,
                  value |-> row.value, priority |-> row.priority, budget |-> row.budget]
         /\ \A x : [row EXCEPT !.mode = x] =
                 [enabled |-> row.enabled, mode |-> x, kind |-> row.kind,
                  value |-> row.value, priority |-> row.priority, budget |-> row.budget]
         /\ \A x, y : [row EXCEPT !.budget = x, !.priority = y] =
                 [enabled |-> row.enabled, mode |-> row.mode, kind |-> row.kind,
                  value |-> row.value, priority |-> y, budget |-> x]
         /\ \A x, y : [row EXCEPT !.kind = x, !.mode = y] =
                 [enabled |-> row.enabled, mode |-> y, kind |-> x,
                  value |-> row.value, priority |-> row.priority, budget |-> row.budget]
<1> DEFINE e == row.enabled
           m == row.mode
           k == row.kind
           v == row.value
           p == row.priority
           u == row.budget
<1>1. row = [enabled |-> e, mode |-> m, kind |-> k, value |-> v, priority |-> p,
             budget |-> u]
  BY DEF IsPolicyRow
<1> HIDE DEF e, m, k, v, p, u
<1>2. ASSUME NEW x
      PROVE  /\ [row EXCEPT !.enabled = x] =
                  [enabled |-> x, mode |-> m, kind |-> k, value |-> v, priority |-> p,
                   budget |-> u]
             /\ [row EXCEPT !.mode = x] =
                  [enabled |-> e, mode |-> x, kind |-> k, value |-> v, priority |-> p,
                   budget |-> u]
  BY <1>1
<1>3. ASSUME NEW x, NEW y
      PROVE  [row EXCEPT !.budget = x, !.priority = y] =
               [enabled |-> e, mode |-> m, kind |-> k, value |-> v, priority |-> y,
                budget |-> x]
  <2> DEFINE half == [row EXCEPT !.budget = x]
  <2>1. half = [enabled |-> e, mode |-> m, kind |-> k, value |-> v, priority |-> p,
                budget |-> x]
    BY <1>1
  <2>2. [row EXCEPT !.budget = x, !.priority = y] = [half EXCEPT !.priority = y]
    OBVIOUS
  <2> HIDE DEF half
  <2>3. [half EXCEPT !.priority = y] =
          [enabled |-> e, mode |-> m, kind |-> k, value |-> v, priority |-> y,
           budget |-> x]
    BY <2>1
  <2> QED
    BY <2>2, <2>3
<1>4. ASSUME NEW x, NEW y
      PROVE  [row EXCEPT !.kind = x, !.mode = y] =
               [enabled |-> e, mode |-> y, kind |-> x, value |-> v, priority |-> p,
                budget |-> u]
  <2> DEFINE half == [row EXCEPT !.kind = x]
  <2>1. half = [enabled |-> e, mode |-> m, kind |-> x, value |-> v, priority |-> p,
                budget |-> u]
    BY <1>1
  <2>2. [row EXCEPT !.kind = x, !.mode = y] = [half EXCEPT !.mode = y]
    OBVIOUS
  <2> HIDE DEF half
  <2>3. [half EXCEPT !.mode = y] =
          [enabled |-> e, mode |-> y, kind |-> x, value |-> v, priority |-> p,
           budget |-> u]
    BY <2>1
  <2> QED
    BY <2>2, <2>3
<1> QED
  BY <1>2, <1>3, <1>4, Zenon DEF e, m, k, v, p, u

\* What the constraints compare with is what parse_sql accepts, so that a row they
\* let in loads, and as it is.
LEMMA AllowedRows ==
  ASSUME NEW row, GoodRow(row)
  PROVE  /\ ValidBudget(row.budget) /\ ParsesKind(row.kind) /\ ParsesMode(row.mode)
         /\ Parsed(row) = row
<1>1. IsPolicyRow(row) /\ row.mode \in BudgetModes /\ row.kind \in ScopeKinds
      /\ row.budget[1] > 0 /\ row.budget[2] >= row.budget[1]
  BY DEF GoodRow, TableAllows, BudgetModes, ScopeKinds
<1>2. Folded[row.mode] = row.mode /\ Folded[row.kind] = row.kind
  BY <1>1, RowsAssumption
<1>3. Parsed(row) = row
  BY <1>1, <1>2, RowFields DEF Parsed, IsPolicyRow
<1>4. ParsesKind(row.kind) /\ ParsesMode(row.mode)
  BY <1>1, <1>2 DEF ParsesKind, ParsesMode
<1>5. ValidBudget(row.budget)
  <2>1. row.budget[1] \in Int /\ row.budget[2] \in Int
    BY <1>1 DEF IsPolicyRow
  <2> QED
    BY <1>1, <2>1 DEF ValidBudget
<1> QED
  BY <1>3, <1>4, <1>5

LEMMA TableLoads ==
  ASSUME NEW policies, NEW last, IsTable(policies, last)
  PROVE  LoadSucceeds(policies) /\ Sortable(policies) /\ Canonical(policies)
<1>1. ASSUME NEW id \in EnabledIds(policies)
      PROVE  GoodRow(policies[id])
  BY DEF IsTable, EnabledIds
<1>2. \A id \in EnabledIds(policies) : policies[id].priority \in Int
  BY <1>1 DEF GoodRow, IsPolicyRow
<1> QED
  BY <1>1, <1>2, AllowedRows DEF LoadSucceeds, Sortable, Canonical

LEMMA NoCacheFacts ==
  NoCache.refreshed = -1
  BY DEF NoCache

-----------------------------------------------------------------------------
(* Each action preserves it.                                               *)

LEMMA InitEstablishes ==
  ASSUME Init PROVE IInv
<1>1. PICK n \in 0..MaxPolicies : \A id \in Ids : rows[id] # NoPolicy <=> id <= n
  BY RowsAssumption DEF Init
<1>2. created = n
  <2>1. {id \in Ids : rows[id] # NoPolicy} = 1..n
    BY <1>1, Bounds DEF Ids
  <2>2. n \in Int /\ Cardinality(1..n) = n
    BY FS_Interval, Bounds
  <2> QED
    BY <2>1, <2>2 DEF Init
<1>3. IsTable(rows, created)
  <2>1. rows = [id \in Ids |-> rows[id]]
    BY RowsAssumption DEF Init
  <2>2. ASSUME NEW id \in Ids, rows[id] # NoPolicy
        PROVE  GoodRow(rows[id]) /\ id <= created
    <3>1. IsPolicyRow(rows[id]) /\ TableAllows(rows[id])
      BY <2>2, RowsAssumption DEF Init
    <3> QED
      BY <1>1, <1>2, <2>2, <3>1 DEF GoodRow
  <2> QED
    BY <2>1, <2>2 DEF IsTable
<1>4. RowsOK
  BY <1>2, <1>3, EmptyTables DEF Init, RowsOK
<1>5. OpenOK
  BY DEF Init, OpenOK
<1>6. ClocksOK
  BY Bounds, NoCacheFacts DEF Init, ClocksOK
<1> QED
  BY <1>4, <1>5, <1>6 DEF IInv

LEMMA BeginPreserves ==
  ASSUME IInv, NEW b \in Backends, NEW isolation \in Isolations, Begin(b, isolation)
  PROVE  IInv'
<1>1. RowsOK'
  <2>1. created' = created /\ rows' = rows /\ pending' = pending
    BY DEF Begin
  <2>2. snapshot' = [snapshot EXCEPT ![b] =
                       IF isolation = "repeatable read" THEN rows ELSE @]
    BY DEF Begin
  <2>3. snapshot' = [other \in Backends |-> snapshot'[other]]
    BY <2>2 DEF IInv, RowsOK
  <2>4. ASSUME NEW other \in Backends PROVE IsTable(snapshot'[other], created)
    <3>1. snapshot'[other] \in {rows, snapshot[other]}
      BY <2>2 DEF IInv, RowsOK
    <3> QED
      BY <3>1 DEF IInv, RowsOK
  <2> QED
    BY <2>1, <2>3, <2>4 DEF IInv, RowsOK
<1>2. OpenOK'
  BY DEF IInv, OpenOK, Begin
<1>3. ClocksOK'
  BY DEF IInv, ClocksOK, Begin
<1> QED
  BY <1>1, <1>2, <1>3 DEF IInv

\* A backend's copy is read from the rows it sees, stamped with its clock.
LEMMA CacheAfterLookupIs ==
  ASSUME IInv, NEW b \in Backends
  PROVE  \/ /\ IsStale(b)
            /\ CacheAfterLookup(b) = [refreshed |-> Now,
                                      policies |-> LoadPolicyRows(Visible(b))]
         \/ ~IsStale(b) /\ CacheAfterLookup(b) = cache[b]
<1>1. LoadSucceeds(Visible(b))
  BY VisibleIsTable, TableLoads DEF IInv
<1> QED
  BY <1>1 DEF CacheAfterLookup

LEMMA NowInRange ==
  ASSUME ClocksOK
  PROVE  Now \in 0..(MaxSetBack + time)
  BY Bounds DEF ClocksOK, Now

LEMMA LookupPreserves ==
  ASSUME IInv, NEW b \in Backends, Lookup(b)
  PROVE  IInv'
<1>1. RowsOK' /\ OpenOK'
  BY DEF IInv, RowsOK, OpenOK, Lookup, transaction
<1>2. ClocksOK'
  <2>1. cache' = [cache EXCEPT ![b] = CacheAfterLookup(b)]
        /\ UNCHANGED <<time, setBack, changedAt>>
    BY DEF Lookup
  <2>2. CacheAfterLookup(b).refreshed \in -1..(MaxSetBack + time)
    <3>1. CacheAfterLookup(b).refreshed = Now \/ CacheAfterLookup(b) = cache[b]
      BY CacheAfterLookupIs
    <3>2. Now \in -1..(MaxSetBack + time)
      BY NowInRange, Bounds DEF IInv, ClocksOK
    <3> QED
      BY <3>1, <3>2 DEF IInv, ClocksOK
  <2> QED
    BY <2>1, <2>2 DEF IInv, ClocksOK
<1> QED
  BY <1>1, <1>2 DEF IInv

\* What is written to a row is a row that the constraints let in, or the removal
\* of one.
LEMMA WritePreserves ==
  ASSUME IInv, NEW b \in Backends, NEW id \in Ids, NEW row, Write(b, id, row),
         created' \in created..MaxPolicies,
         row # NoPolicy => IsPolicyRow(row) /\ id <= created'
  PROVE  RowsOK' /\ OpenOK'
<1>1. /\ pending' = [pending EXCEPT ![b][id] = row]
      /\ rows' = rows /\ snapshot' = snapshot /\ open' = open /\ open[b] # "none"
      /\ row # NoPolicy => GoodRow(row) /\ id <= created'
  BY DEF Write, MayWrite, GoodRow
<1>2. created \in Int /\ created' \in Int /\ created <= created' /\ created' \in 0..MaxPolicies
  BY Bounds DEF IInv, RowsOK
<1>3. IsTable(rows, created') /\ \A other \in Backends : IsTable(snapshot[other], created')
  BY <1>2, TablesOutlast DEF IInv, RowsOK
<1>4. pending' = [other \in Backends |-> pending'[other]]
  BY <1>1 DEF IInv, RowsOK
<1>5. ASSUME NEW other \in Backends PROVE AreChanges(pending'[other], created')
  <2>1. AreChanges(pending[other], created')
    BY <1>2, TablesOutlast DEF IInv, RowsOK
  <2>2. CASE other # b
    BY <1>1, <2>1, <2>2 DEF IInv, RowsOK
  <2>3. CASE other = b
    <3>1. pending'[b] = [pending[b] EXCEPT ![id] = row]
      BY <1>1 DEF IInv, RowsOK
    <3>2. pending'[b] = [i \in Ids |-> IF i = id THEN row ELSE pending[b][i]]
      BY <2>1, <2>3, <3>1 DEF AreChanges
    <3> QED
      BY <1>1, <2>1, <2>3, <3>2 DEF AreChanges
  <2> QED
    BY <2>2, <2>3
<1>6. RowsOK'
  <2>1. IsTable(rows', created') /\ created' \in 0..MaxPolicies
    BY <1>1, <1>2, <1>3
  <2>2. snapshot' = [other \in Backends |-> snapshot'[other]]
        /\ \A other \in Backends : IsTable(snapshot'[other], created')
    BY <1>1, <1>3 DEF IInv, RowsOK
  <2> QED
    BY <2>1, <2>2, <1>4, <1>5 DEF RowsOK
<1>7. OpenOK'
  BY <1>1 DEF IInv, RowsOK, OpenOK
<1> QED
  BY <1>6, <1>7

LEMMA ForgettingPreserves ==
  ASSUME IInv, NEW b \in Backends, cache' = Forgotten(b),
         UNCHANGED <<time, setBack, changedAt>>
  PROVE  ClocksOK'
<1>1. NoCache.refreshed \in -1..(MaxSetBack + time)
  BY NoCacheFacts, Bounds DEF IInv, ClocksOK
<1> QED
  BY <1>1 DEF IInv, ClocksOK, Forgotten

LEMMA CreatePolicyPreserves ==
  ASSUME IInv, NEW b \in Backends, NEW row \in Definitions, CreatePolicy(b, row)
  PROVE  IInv'
<1> DEFINE enabled == [Parsed(row) EXCEPT !.enabled = TRUE]
<1>1. created \in 0..MaxPolicies /\ created < MaxPolicies /\ created' = created + 1
  BY DEF IInv, RowsOK, CreatePolicy
<1>2. created + 1 \in Ids /\ created' \in created..MaxPolicies
  BY <1>1, Bounds DEF Ids
<1>3. IsPolicyRow(enabled)
  <2>1. IsPolicyRow(row)
    BY RowsAssumption
  <2>2. IsPolicyRow(Parsed(row))
    <3>1. Parsed(row) = [enabled |-> row.enabled, mode |-> Folded[row.mode],
                         kind |-> Folded[row.kind], value |-> row.value,
                         priority |-> row.priority, budget |-> row.budget]
      BY <2>1, RowFields DEF Parsed
    <3> QED
      BY <2>1, <3>1 DEF IsPolicyRow
  <2> DEFINE p == Parsed(row)
  <2>3. enabled = [enabled |-> TRUE, mode |-> p.mode, kind |-> p.kind,
                   value |-> p.value, priority |-> p.priority, budget |-> p.budget]
    BY <2>2, RowFields
  <2> HIDE DEF p
  <2>4. IsPolicyRow(p)
    BY <2>2 DEF p
  <2> QED
    BY <2>3, <2>4 DEF IsPolicyRow
<1>4. Write(b, created + 1, enabled) /\ cache' = Forgotten(b)
      /\ UNCHANGED <<time, setBack, changedAt>>
  BY DEF CreatePolicy, Write
<1> HIDE DEF enabled
<1>5. RowsOK' /\ OpenOK'
  <2>1. created + 1 <= created'
    BY <1>1
  <2> QED
    BY <1>2, <1>3, <1>4, <2>1, WritePreserves
<1>6. ClocksOK'
  BY <1>4, ForgettingPreserves
<1> QED
  BY <1>5, <1>6 DEF IInv

LEMMA EditPolicyPreserves ==
  ASSUME IInv, NEW b \in Backends, NEW id \in Ids, NEW row, EditPolicy(b, id, row),
         Visible(b)[id] # NoPolicy => IsPolicyRow(row)
  PROVE  IInv'
<1>1. Visible(b)[id] # NoPolicy /\ Write(b, id, row) /\ created' = created
      /\ cache' = Forgotten(b) /\ UNCHANGED <<time, setBack, changedAt>>
  BY DEF EditPolicy, Write
<1>2. IsPolicyRow(row) /\ id <= created
  BY <1>1, VisibleIsTable DEF IsTable, IInv
<1>3. created' \in created..MaxPolicies
  BY <1>1, Bounds DEF IInv, RowsOK
<1>4. RowsOK' /\ OpenOK'
  BY <1>1, <1>2, <1>3, WritePreserves
<1>5. ClocksOK'
  BY <1>1, ForgettingPreserves
<1> QED
  BY <1>4, <1>5 DEF IInv

LEMMA EditedRow ==
  ASSUME IInv, NEW b \in Backends, NEW id \in Ids, Visible(b)[id] # NoPolicy
  PROVE  IsPolicyRow(Visible(b)[id])
  BY VisibleIsTable DEF IInv, IsTable, GoodRow

LEMMA EditsPreserve ==
  ASSUME IInv, NEW b \in Backends, NEW id \in Ids
  PROVE  /\ \A mode \in Modes : SetPolicyMode(b, id, mode) => IInv'
         /\ \A budget \in Budgets, priority \in Priorities :
              UpdatePolicy(b, id, budget, priority) => IInv'
         /\ DisablePolicy(b, id) => IInv'
<1> DEFINE row == Visible(b)[id]
<1>1. ASSUME NEW mode \in Modes, SetPolicyMode(b, id, mode) PROVE IInv'
  <2>1. ASSUME row # NoPolicy PROVE IsPolicyRow([row EXCEPT !.mode = Folded[mode]])
    <3>1. IsPolicyRow(row) /\ [row EXCEPT !.mode = Folded[mode]] =
            [enabled |-> row.enabled, mode |-> Folded[mode], kind |-> row.kind,
             value |-> row.value, priority |-> row.priority, budget |-> row.budget]
      BY <2>1, EditedRow, RowFields
    <3> HIDE DEF row
    <3> QED
      BY <3>1 DEF IsPolicyRow
  <2> QED
    BY <1>1, <2>1, EditPolicyPreserves DEF SetPolicyMode
<1>2. ASSUME NEW budget \in Budgets, NEW priority \in Priorities,
             UpdatePolicy(b, id, budget, priority)
      PROVE  IInv'
  <2>1. budget \in Int \X Int /\ priority \in Int
    BY Zenon, PolicyCacheAssumption
  <2>2. ASSUME row # NoPolicy
        PROVE  IsPolicyRow([row EXCEPT !.budget = budget, !.priority = priority])
    <3>1. IsPolicyRow(row)
      BY <2>2, EditedRow
    <3> HIDE DEF row
    <3>2. \A x, y : [row EXCEPT !.budget = x, !.priority = y] =
            [enabled |-> row.enabled, mode |-> row.mode, kind |-> row.kind,
             value |-> row.value, priority |-> y, budget |-> x]
      BY <3>1, RowFields, Zenon
    <3>3. [row EXCEPT !.budget = budget, !.priority = priority] =
            [enabled |-> row.enabled, mode |-> row.mode, kind |-> row.kind,
             value |-> row.value, priority |-> priority, budget |-> budget]
      BY <3>2, Zenon
    <3> QED
      BY <2>1, <3>1, <3>3 DEF IsPolicyRow
  <2> QED
    BY <1>2, <2>2, EditPolicyPreserves DEF UpdatePolicy
<1>3. ASSUME DisablePolicy(b, id) PROVE IInv'
  <2>1. ASSUME row # NoPolicy PROVE IsPolicyRow([row EXCEPT !.enabled = FALSE])
    <3>1. IsPolicyRow(row) /\ [row EXCEPT !.enabled = FALSE] =
            [enabled |-> FALSE, mode |-> row.mode, kind |-> row.kind,
             value |-> row.value, priority |-> row.priority, budget |-> row.budget]
      BY <2>1, EditedRow, RowFields
    <3> HIDE DEF row
    <3> QED
      BY <3>1 DEF IsPolicyRow
  <2> QED
    BY <1>3, <2>1, EditPolicyPreserves DEF DisablePolicy
<1> QED
  BY <1>1, <1>2, <1>3

LEMMA EditTablePreserves ==
  ASSUME IInv, NEW b \in Backends, NEW id \in Ids,
         NEW row \in Definitions \cup {NoPolicy}, EditTable(b, id, row)
  PROVE  IInv'
<1>1. /\ Visible(b)[id] # NoPolicy /\ Write(b, id, row)
      /\ created' = created /\ cache' = cache /\ time' = time /\ setBack' = setBack
      /\ changedAt' = [changedAt EXCEPT ![b] = time]
  BY DEF EditTable, Write
<1>2. row # NoPolicy => IsPolicyRow(row) /\ id <= created
  <2>1. id <= created
    BY <1>1, VisibleIsTable DEF IsTable, IInv
  <2> QED
    BY <2>1, RowsAssumption
<1>3. created' \in created..MaxPolicies
  BY <1>1, Bounds DEF IInv, RowsOK
<1>4. RowsOK' /\ OpenOK'
  BY <1>1, <1>2, <1>3, WritePreserves
<1>5. ClocksOK'
  BY <1>1 DEF IInv, ClocksOK
<1> QED
  BY <1>4, <1>5 DEF IInv

\* The end of a transaction, whatever becomes of its rows.
LEMMA EndPreserves ==
  ASSUME IInv, NEW b \in Backends, IsTable(rows', created), created' = created,
         open' = [open EXCEPT ![b] = "none"],
         snapshot' = [snapshot EXCEPT ![b] = NoPolicies],
         pending' = [pending EXCEPT ![b] = NoChanges]
  PROVE  RowsOK' /\ OpenOK'
<1>1. snapshot' = [other \in Backends |-> snapshot'[other]]
      /\ pending' = [other \in Backends |-> pending'[other]]
  BY DEF IInv, RowsOK
<1>2. ASSUME NEW other \in Backends
      PROVE  IsTable(snapshot'[other], created) /\ AreChanges(pending'[other], created)
  BY EmptyTables DEF IInv, RowsOK
<1>3. RowsOK'
  BY <1>1, <1>2 DEF IInv, RowsOK
<1>4. OpenOK'
  BY DEF IInv, RowsOK, OpenOK
<1> QED
  BY <1>3, <1>4

LEMMA RollbackPreserves ==
  ASSUME IInv, NEW b \in Backends, Rollback(b)
  PROVE  IInv'
<1>1. RowsOK' /\ OpenOK'
  <2>1. IsTable(rows', created) /\ created' = created
    BY DEF Rollback, IInv, RowsOK
  <2> QED
    BY <2>1, EndPreserves DEF Rollback
<1>2. ClocksOK'
  BY DEF Rollback, IInv, ClocksOK
<1> QED
  BY <1>1, <1>2 DEF IInv

LEMMA CommitPreserves ==
  ASSUME IInv, NEW b \in Backends, Commit(b)
  PROVE  IInv'
<1>1. RowsOK' /\ OpenOK'
  <2>1. IsTable(rows', created) /\ created' = created
    BY VisibleIsTable DEF Commit, IInv
  <2> QED
    BY <2>1, EndPreserves DEF Commit
<1>2. ClocksOK'
  BY DEF Commit, IInv, ClocksOK
<1> QED
  BY <1>1, <1>2 DEF IInv

LEMMA ClockPreserves ==
  ASSUME IInv, Tick \/ SetClockBack
  PROVE  IInv'
<1>1. RowsOK' /\ OpenOK'
  BY DEF IInv, RowsOK, OpenOK, Tick, SetClockBack, transaction
<1>2. ASSUME Tick PROVE ClocksOK'
  <2>1. time \in Nat /\ time' = time + 1 /\ UNCHANGED <<cache, setBack, changedAt>>
    BY <1>2 DEF IInv, ClocksOK, Tick
  <2>2. 0..time \subseteq 0..time' /\ -1..(MaxSetBack + time) \subseteq -1..(MaxSetBack + time')
    BY <2>1, Bounds
  <2> QED
    BY <2>1, <2>2 DEF IInv, ClocksOK
<1>3. ASSUME SetClockBack PROVE ClocksOK'
  BY <1>3, Bounds DEF IInv, ClocksOK, SetClockBack
<1> QED
  BY <1>1, <1>2, <1>3 DEF IInv

LEMMA NextPreserves ==
  ASSUME IInv, [Next]_vars
  PROVE  IInv'
<1>1. ASSUME NEW b \in Backends,
             \/ \E isolation \in Isolations : Begin(b, isolation)
             \/ Lookup(b)
             \/ \E row \in Definitions : CreatePolicy(b, row)
             \/ Rollback(b) \/ Commit(b)
      PROVE  IInv'
  BY <1>1, BeginPreserves, LookupPreserves, CreatePolicyPreserves, RollbackPreserves,
     CommitPreserves
<1>2. ASSUME NEW b \in Backends, NEW id \in Ids,
             \/ \E mode \in Modes : SetPolicyMode(b, id, mode)
             \/ \E budget \in Budgets, priority \in Priorities :
                  UpdatePolicy(b, id, budget, priority)
             \/ DisablePolicy(b, id)
             \/ \E row \in Definitions \cup {NoPolicy} : EditTable(b, id, row)
      PROVE  IInv'
  BY <1>2, EditsPreserve, EditTablePreserves
<1>3. CASE Tick \/ SetClockBack
  BY <1>3, ClockPreserves
<1>4. CASE UNCHANGED vars
  <2>1. UNCHANGED <<rows, created, open, snapshot, pending, cache, time, setBack, changedAt>>
    BY <1>4 DEF vars, transaction
  <2> QED
    BY <2>1 DEF IInv, RowsOK, OpenOK, ClocksOK
<1> QED
  BY <1>1, <1>2, <1>3, <1>4 DEF Next

LEMMA Invariance == Spec => []IInv
<1>1. Init => IInv
  BY InitEstablishes
<1>2. IInv /\ [Next]_vars => IInv'
  BY NextPreserves
<1> QED
  BY <1>1, <1>2, PTL DEF Spec

\* Rows have ids that were given, a backend outside a transaction has written
\* nothing, and a copy was made in the past.
THEOREM TypeCorrect == Spec => []TypeOK
<1>1. IInv => TypeOK
  BY DEF IInv, RowsOK, OpenOK, ClocksOK, IsTable, GoodRow, IsPolicyRow, TypeOK
<1> QED
  BY <1>1, Invariance, PTL

\* No row that the constraints of the table let in, and so none that the functions
\* write, keeps the policies from loading: its budget is valid, its kind and its
\* mode are texts that parse_sql accepts (load_policy_rows).
THEOREM RowsAlwaysLoad == Spec => []EveryRowLoads
<1>1. IInv => EveryRowLoads
  BY VisibleIsTable, TableLoads DEF IInv, EveryRowLoads
<1> QED
  BY <1>1, Invariance, PTL

-----------------------------------------------------------------------------
(* Staleness.  A transaction that sees every commit reads the current rows *)
(* into its copy; from then on, the copy says what the rows say unless     *)
(* they changed at or after the reading of the clock it is stamped with.   *)

Faithful(copy, policies, changed) ==
  \/ copy = NoCache
  \/ copy.policies = LoadPolicyRows(policies)
  \/ copy.refreshed <= MaxSetBack + changed

CopiesOK ==
  \A b \in Backends : Faithful(cache[b], Overlay(rows, pending[b]), changedAt[b])

SeesCommits == Isolations \subseteq {"read committed"}

LEMMA ReadsCurrentRows ==
  ASSUME SeesCommits, IInv, NEW b \in Backends
  PROVE  Visible(b) = Overlay(rows, pending[b]) /\ Current(b) = Overlay(rows, pending[b])
<1>1. open[b] # "repeatable read"
  BY DEF SeesCommits, IInv, OpenOK
<1> QED
  BY <1>1 DEF Visible, Current

LEMMA StampIsPast ==
  ASSUME IInv, NEW b \in Backends
  PROVE  cache[b].refreshed <= MaxSetBack + time
  BY Bounds DEF IInv, ClocksOK

LEMMA OverlayNothing ==
  ASSUME NEW policies, policies = [id \in Ids |-> policies[id]]
  PROVE  Overlay(policies, NoChanges) = policies
  BY DEF Overlay, NoChanges

LEMMA CopiesUnchanged ==
  ASSUME CopiesOK, UNCHANGED <<rows, pending, cache, changedAt>>
  PROVE  CopiesOK'
  BY DEF CopiesOK

LEMMA LookupKeepsFaith ==
  ASSUME SeesCommits, IInv, CopiesOK, NEW b \in Backends, Lookup(b)
  PROVE  CopiesOK'
<1>1. cache' = [cache EXCEPT ![b] = CacheAfterLookup(b)]
      /\ UNCHANGED <<rows, pending, changedAt>>
  BY DEF Lookup, transaction
<1>2. ASSUME NEW other \in Backends
      PROVE  Faithful(cache'[other], Overlay(rows, pending[other]), changedAt[other])
  <2>1. CASE other # b
    BY <1>1, <2>1 DEF CopiesOK, IInv, ClocksOK
  <2>2. CASE other = b
    <3>1. cache'[b] = CacheAfterLookup(b)
      BY <1>1 DEF IInv, ClocksOK
    <3>2. CASE CacheAfterLookup(b) = cache[b]
      BY <2>2, <3>1, <3>2 DEF CopiesOK
    <3>3. CASE CacheAfterLookup(b) # cache[b]
      <4>1. CacheAfterLookup(b) = [refreshed |-> Now, policies |-> LoadPolicyRows(Visible(b))]
        BY <3>3, CacheAfterLookupIs
      <4>2. CacheAfterLookup(b).policies = LoadPolicyRows(Overlay(rows, pending[b]))
        BY <4>1, ReadsCurrentRows
      <4> QED
        BY <2>2, <3>1, <4>2 DEF Faithful
    <3> QED
      BY <3>2, <3>3
  <2> QED
    BY <2>1, <2>2
<1> QED
  BY <1>1, <1>2 DEF CopiesOK

\* A write changes the rows that the writer alone sees, and drops its copy or
\* is noted.
LEMMA WriteKeepsFaith ==
  ASSUME IInv, CopiesOK, NEW b \in Backends, NEW id \in Ids, NEW row, Write(b, id, row),
         \/ cache' = Forgotten(b) /\ changedAt' = changedAt
         \/ cache' = cache /\ changedAt' = [changedAt EXCEPT ![b] = time]
  PROVE  CopiesOK'
<1>1. rows' = rows /\ pending' = [pending EXCEPT ![b][id] = row]
  BY DEF Write
<1>2. ASSUME NEW other \in Backends
      PROVE  Faithful(cache'[other], Overlay(rows, pending'[other]), changedAt'[other])
  <2>1. CASE other # b
    <3>1. cache'[other] = cache[other] /\ changedAt'[other] = changedAt[other]
          /\ pending'[other] = pending[other]
      BY <1>1, <2>1 DEF IInv, ClocksOK, RowsOK, Forgotten
    <3> QED
      BY <3>1 DEF CopiesOK
  <2>2. CASE other = b /\ cache' = Forgotten(b)
    <3>1. cache'[other] = NoCache
      BY <2>2 DEF IInv, ClocksOK, Forgotten
    <3> QED
      BY <3>1 DEF Faithful
  <2>3. CASE other = b /\ cache' = cache /\ changedAt' = [changedAt EXCEPT ![b] = time]
    <3>1. cache'[other] = cache[other] /\ changedAt'[other] = time
      BY <2>3 DEF IInv, ClocksOK
    <3> QED
      BY <3>1, StampIsPast DEF Faithful
  <2> QED
    BY <2>1, <2>2, <2>3
<1> QED
  BY <1>1, <1>2 DEF CopiesOK

LEMMA RollbackKeepsFaith ==
  ASSUME IInv, CopiesOK, NEW b \in Backends, Rollback(b)
  PROVE  CopiesOK'
<1>1. /\ rows' = rows /\ cache' = cache
      /\ pending' = [pending EXCEPT ![b] = NoChanges]
      /\ changedAt' = [changedAt EXCEPT ![b] = IF pending[b] = NoChanges THEN @ ELSE time]
  BY DEF Rollback
<1>2. ASSUME NEW other \in Backends
      PROVE  Faithful(cache[other], Overlay(rows, pending'[other]), changedAt'[other])
  <2>1. CASE other # b \/ pending[b] = NoChanges
    <3>1. pending'[other] = pending[other] /\ changedAt'[other] = changedAt[other]
      BY <1>1, <2>1 DEF IInv, ClocksOK, RowsOK
    <3> QED
      BY <3>1 DEF CopiesOK
  <2>2. CASE other = b /\ pending[b] # NoChanges
    <3>1. changedAt'[other] = time
      BY <1>1, <2>2 DEF IInv, ClocksOK
    <3> QED
      BY <3>1, StampIsPast DEF Faithful
  <2> QED
    BY <2>1, <2>2
<1> QED
  BY <1>1, <1>2 DEF CopiesOK

\* What a backend commits is what it saw; for the others, it is a change.
LEMMA CommitKeepsFaith ==
  ASSUME IInv, CopiesOK, NEW b \in Backends, Commit(b)
  PROVE  CopiesOK'
<1>1. /\ rows' = Overlay(rows, pending[b]) /\ cache' = cache
      /\ pending' = [pending EXCEPT ![b] = NoChanges]
      /\ changedAt' = [other \in Backends |->
                         IF other = b \/ pending[b] = NoChanges THEN changedAt[other]
                                                                ELSE time]
  BY DEF Commit, Current
<1>2. ASSUME NEW other \in Backends
      PROVE  Faithful(cache[other], Overlay(rows', pending'[other]), changedAt'[other])
  <2>1. CASE other = b
    <3>1. pending'[other] = NoChanges /\ changedAt'[other] = changedAt[other]
      BY <1>1, <2>1 DEF IInv, RowsOK
    <3>2. rows' = [id \in Ids |-> rows'[id]]
      BY VisibleIsTable, <1>1 DEF IInv, IsTable, Current
    <3>3. Overlay(rows', pending'[other]) = Overlay(rows, pending[b])
      BY <1>1, <3>1, <3>2, OverlayNothing
    <3> QED
      BY <2>1, <3>1, <3>3 DEF CopiesOK
  <2>2. CASE other # b /\ pending[b] = NoChanges
    <3>1. pending'[other] = pending[other] /\ changedAt'[other] = changedAt[other]
      BY <1>1, <2>2 DEF IInv, RowsOK
    <3>2. rows' = rows
      BY <1>1, <2>2, OverlayNothing DEF IInv, RowsOK, IsTable
    <3> QED
      BY <3>1, <3>2 DEF CopiesOK
  <2>3. CASE other # b /\ pending[b] # NoChanges
    <3>1. changedAt'[other] = time
      BY <1>1, <2>3
    <3> QED
      BY <3>1, StampIsPast DEF Faithful
  <2> QED
    BY <2>1, <2>2, <2>3
<1> QED
  BY <1>1, <1>2 DEF CopiesOK

LEMMA NextKeepsFaith ==
  ASSUME SeesCommits, IInv, CopiesOK, [Next]_vars
  PROVE  CopiesOK'
<1>1. ASSUME NEW b \in Backends, NEW isolation \in Isolations, Begin(b, isolation)
      PROVE  CopiesOK'
  BY <1>1, CopiesUnchanged DEF Begin
<1>2. ASSUME NEW b \in Backends, NEW row \in Definitions, CreatePolicy(b, row)
      PROVE  CopiesOK'
  <2>1. created + 1 \in Ids
    BY <1>2, Bounds DEF CreatePolicy, IInv, RowsOK, Ids
  <2>2. Write(b, created + 1, [Parsed(row) EXCEPT !.enabled = TRUE])
        /\ cache' = Forgotten(b) /\ changedAt' = changedAt
    BY <1>2 DEF CreatePolicy
  <2> QED
    BY <2>1, <2>2, WriteKeepsFaith
<1>3. ASSUME NEW b \in Backends, NEW id \in Ids, NEW row, EditPolicy(b, id, row)
      PROVE  CopiesOK'
  <2>1. Write(b, id, row) /\ cache' = Forgotten(b) /\ changedAt' = changedAt
    BY <1>3 DEF EditPolicy
  <2> QED
    BY <2>1, WriteKeepsFaith
<1>4. ASSUME NEW b \in Backends, NEW id \in Ids,
             \/ \E mode \in Modes : SetPolicyMode(b, id, mode)
             \/ \E budget \in Budgets, priority \in Priorities :
                  UpdatePolicy(b, id, budget, priority)
             \/ DisablePolicy(b, id)
      PROVE  CopiesOK'
  BY <1>3, <1>4 DEF SetPolicyMode, UpdatePolicy, DisablePolicy
<1>5. ASSUME NEW b \in Backends, NEW id \in Ids, NEW row, EditTable(b, id, row)
      PROVE  CopiesOK'
  <2>1. Write(b, id, row) /\ cache' = cache /\ changedAt' = [changedAt EXCEPT ![b] = time]
    BY <1>5 DEF EditTable
  <2> QED
    BY <2>1, WriteKeepsFaith
<1>6. CASE Tick \/ SetClockBack \/ UNCHANGED vars
  BY <1>6, CopiesUnchanged DEF Tick, SetClockBack, vars, transaction
<1> QED
  BY <1>1, <1>2, <1>4, <1>5, <1>6, LookupKeepsFaith, RollbackKeepsFaith, CommitKeepsFaith
     DEF Next

\* A copy that is not read again is as young as the interval, and so younger
\* than every change that is older than it.
LEMMA CopiesAreInEffect ==
  ASSUME SeesCommits, IInv, CopiesOK
  PROVE  PolicyInEffect
<1> SUFFICES ASSUME NEW b \in Backends, NEW target \in Targets, open[b] # "none",
                    time - changedAt[b] >= RefreshInterval + setBack
             PROVE  IsEffective(Current(b), target,
                                FindEffectivePolicy(CacheAfterLookup(b).policies, target))
  BY DEF PolicyInEffect
<1>1. Sortable(Current(b)) /\ Canonical(Current(b))
  BY VisibleIsTable, TableLoads DEF IInv
<1>2. CacheAfterLookup(b).policies = LoadPolicyRows(Current(b))
  <2>1. CASE IsStale(b)
    BY <2>1, CacheAfterLookupIs, ReadsCurrentRows
  <2>2. CASE ~IsStale(b)
    <3>1. CacheAfterLookup(b) = cache[b]
      BY <2>2, CacheAfterLookupIs
    <3>2. cache[b] # NoCache
      BY <2>2 DEF IsStale
    <3>3. ~(Now >= cache[b].refreshed /\ Now - cache[b].refreshed >= RefreshInterval)
      BY <2>2 DEF IsStale
    <3>4. ~(cache[b].refreshed <= MaxSetBack + changedAt[b])
      <4>1. /\ cache[b].refreshed \in Int /\ changedAt[b] \in Int /\ time \in Int
            /\ setBack \in Nat /\ RefreshInterval \in Nat /\ MaxSetBack \in Int
        BY Bounds DEF IInv, ClocksOK
      <4>2. Now = MaxSetBack + time - setBack
        BY DEF Now
      <4> QED
        BY <3>3, <4>1, <4>2
    <3>5. Faithful(cache[b], Overlay(rows, pending[b]), changedAt[b])
      BY DEF CopiesOK
    <3> QED
      BY <3>1, <3>2, <3>4, <3>5, ReadsCurrentRows DEF Faithful
  <2> QED
    BY <2>1, <2>2
<1> QED
  BY <1>1, <1>2, CopyIsEffective

\* Among transactions that see what others commit, a statement that is admitted
\* is subject to the policy in effect, as soon as the last change is older than
\* the refresh interval and what the clock was set back by (cache_is_stale,
\* invalidate_backend_policy_cache, find_effective_policy).
THEOREM PoliciesTakeEffect ==
  ASSUME Isolations \subseteq {"read committed"}
  PROVE  Spec => []PolicyInEffect
<1>1. SeesCommits
  BY DEF SeesCommits
<1>2. Init => CopiesOK
  BY DEF Init, CopiesOK, Faithful
<1>3. IInv /\ CopiesOK /\ [Next]_vars => CopiesOK'
  BY <1>1, NextKeepsFaith
<1>4. IInv /\ CopiesOK => PolicyInEffect
  BY <1>1, CopiesAreInEffect
<1> QED
  BY <1>2, <1>3, <1>4, Invariance, PTL DEF Spec
=============================================================================
