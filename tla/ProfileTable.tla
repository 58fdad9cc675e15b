---------------------------- MODULE ProfileTable ----------------------------
(***************************************************************************)
(* The query profiles of src/shmem/profiles.rs and the profile record of   *)
(* src/types.rs, as functions: an array of slots that is searched, filled, *)
(* and evicted from.  The state machines that use them are ProfileCache    *)
(* (the array under its lock) and ProfileStore (the array, its durable     *)
(* rows, and the backends between them).                                   *)
(***************************************************************************)
EXTENDS Naturals, FiniteSets, Sequences, SequencesExt

CONSTANTS
  Capacity,    \* pwb.profile_cache_capacity
  Scopes,      \* scope hashes
  Queries,     \* query ids, in the order of their numbers
  Global,      \* the key of the entry that has no scope hash
  MaxU64,      \* the largest value of the code's counters
  Weight       \* ProfileEwmaWeights

ASSUME CapacityAssumption == Capacity \in Nat
ASSUME KeysAssumption == Global \notin Scopes /\ Queries \subseteq Nat
ASSUME WeightAssumption ==
  /\ Weight \in [numerator : Nat \ {0}, denominator : Nat \ {0}]
  /\ Weight.numerator <= Weight.denominator
ASSUME MaxU64Assumption == MaxU64 \in Nat \ {0}

Slots == 1..Capacity
Keys == (Scopes \cup {Global}) \X Queries

Profile == [calls : 1..MaxU64, ewma : Nat, max : Nat, lastSeen : Nat]
Entry == [key : Keys, profile : Profile]

\* A slot whose `occupied' byte is zero.
Free == [key |-> <<>>, profile |-> <<>>]
EmptyTable == [slot \in Slots |-> Free]

(***************************************************************************)
(* The profile record.                                                     *)
(***************************************************************************)

Larger(a, b) == IF a < b THEN b ELSE a
Smaller(a, b) == IF a < b THEN a ELSE b

NewProfile(actual, now) ==
  [calls |-> 1, ewma |-> actual, max |-> actual, lastSeen |-> now]

\* Mutant: the old mean keeps its whole weight.
EwmaUndecayed(old, actual) ==
  (old * Weight.denominator + actual * Weight.numerator) \div Weight.denominator

\* The weighted mean is rounded down; the sum is computed in 128 bits.
Ewma(old, actual) ==
  (old * (Weight.denominator - Weight.numerator) + actual * Weight.numerator)
     \div Weight.denominator

\* last_seen is overwritten, also by an older reading of the clock.
RecordObservation(profile, actual, now) ==
  [calls |-> Smaller(profile.calls + 1, MaxU64),
   ewma |-> Ewma(profile.ewma, actual),
   max |-> Larger(profile.max, actual),
   lastSeen |-> now]

(***************************************************************************)
(* The array of slots.                                                     *)
(***************************************************************************)

Occupied(table) == {slot \in Slots : table[slot] # Free}
KeysOf(table) == {table[slot].key : slot \in Occupied(table)}

First(slots) == CHOOSE slot \in slots : \A other \in slots : slot <= other

\* Mutant: only entries with a scope are found.
SlotsOfKeyScopedOnly(table, key) ==
  {slot \in Occupied(table) : table[slot].key = key /\ key[1] # Global}
SlotsOfKey(table, key) == {slot \in Occupied(table) : table[slot].key = key}
FreeSlots(table) == Slots \ Occupied(table)

\* Mutant: the most recently seen entry makes room.
EvictionSlotNewest(table) ==
  First({slot \in Occupied(table) :
           \A other \in Occupied(table) :
             table[slot].profile.lastSeen >= table[other].profile.lastSeen})

\* The least recently seen entry, the first of them in the array.
EvictionSlot(table) ==
  First({slot \in Occupied(table) :
           \A other \in Occupied(table) :
             table[slot].profile.lastSeen <= table[other].profile.lastSeen})

\* Where a key that is not in the table is put.
InsertionSlot(table) ==
  IF FreeSlots(table) # {} THEN First(FreeSlots(table)) ELSE EvictionSlot(table)

Upsert(table, key, actual, now) ==
  IF SlotsOfKey(table, key) # {}
    THEN [table EXCEPT ![First(SlotsOfKey(table, key))].profile =
            RecordObservation(@, actual, now)]
    ELSE [table EXCEPT ![InsertionSlot(table)] =
            [key |-> key, profile |-> NewProfile(actual, now)]]

\* The scoped entry first, the global one after it: the second insertion may
\* evict the first.
UpsertScopedAndGlobal(table, scope, query, actual, now) ==
  Upsert(Upsert(table, <<scope, query>>, actual, now),
         <<Global, query>>, actual, now)

\* Mutant: a restored row replaces a newer entry of its key.
UpsertRestoredAlways(table, row) ==
  LET own == SlotsOfKey(table, row.key)
      slot == IF own # {} THEN First(own) ELSE InsertionSlot(table)
  IN  [table EXCEPT ![slot] = row]

\* A restored row replaces an entry that was not seen after it, and is dropped
\* when every entry of a full table was.
UpsertRestored(table, row) ==
  LET own == SlotsOfKey(table, row.key)
      slot == IF own # {} THEN First(own) ELSE InsertionSlot(table)
  IN  IF /\ table[slot] # Free
         /\ table[slot].profile.lastSeen > row.profile.lastSeen
        THEN table
        ELSE [table EXCEPT ![slot] = row]

RestoreAll(table, rows) == FoldLeft(UpsertRestored, table, rows)

\* The scoped entry, or else the first global one.
LookupScopedOrGlobal(table, scope, query) ==
  LET hits(key) == {table[slot].profile : slot \in SlotsOfKey(table, key)}
  IN  IF hits(<<scope, query>>) # {} THEN hits(<<scope, query>>)
      ELSE hits(<<Global, query>>)

\* The elements of S in the order that Before gives them.
InOrder(S, Before(_, _)) ==
  CHOOSE order \in [1..Cardinality(S) -> S] :
    \A i, j \in DOMAIN order : i < j => Before(order[i], order[j])

\* The occupied slots in the order of the array.
SnapshotOf(table) ==
  LET slots == InOrder(Occupied(table), <)
  IN  [i \in DOMAIN slots |-> table[slots[i]]]

=============================================================================
