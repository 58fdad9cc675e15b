---------------------------- MODULE DecisionRing ----------------------------
(***************************************************************************)
(* The arrays that the telemetry of src/shmem is kept in, as functions:    *)
(* the ring of recent decisions (recent_decisions.rs) and the registry of  *)
(* scope names (scope_names.rs).                                           *)
(***************************************************************************)
EXTENDS Naturals, Sequences, SequencesExt

CONSTANTS
  RingCapacity,  \* pwb.recent_decision_capacity
  NameCapacity,  \* pwb.scope_name_capacity
  MaxU64         \* the largest value of the code's counters

ASSUME RingAssumption ==
  RingCapacity \in Nat /\ NameCapacity \in Nat /\ MaxU64 \in Nat \ {0}

Least(a, b) == IF a < b THEN a ELSE b
Saturated(n) == Least(n, MaxU64)

-----------------------------------------------------------------------------
(* The ring: records numbered from 0, each in the slot of its number.      *)

RingSlots == 0..(RingCapacity - 1)
Blank == [kind |-> "blank"]
EmptyRing == [head |-> 0, count |-> 0, slots |-> [slot \in RingSlots |-> Blank]]

RingSlot(sequence) == sequence % RingCapacity

\* Mutant: the numbers saturate like the counters.
NumberedSaturating(ring) == ring

\* The numbers begin again when they are used up; the records are dropped then,
\* because their slots would not follow from the new numbers.
Numbered(ring) == IF ring.head = MaxU64 THEN EmptyRing ELSE ring

\* record_recent_decision_locked
RecordRecentDecision(ring, record) ==
  IF RingCapacity = 0 THEN ring
  ELSE LET base == Numbered(ring)
       IN  [head |-> Saturated(base.head + 1),
            count |-> Least(base.count + 1, RingCapacity),
            slots |-> [base.slots EXCEPT ![RingSlot(base.head)] = record]]

\* snapshot_recent_decisions: the newest first
SnapshotRecentDecisions(ring, limit) ==
  [i \in 1..Least(limit, ring.count) |-> ring.slots[RingSlot(ring.head - i)]]

-----------------------------------------------------------------------------
(* The registry of scope names. *)

NameSlots == 1..NameCapacity
NoName == [scope |-> <<>>, seen |-> 0]
NoNames == [slot \in NameSlots |-> NoName]

SlotsOf(names, scope) == {slot \in NameSlots : names[slot].scope = scope}

FirstSlot(slots) == CHOOSE slot \in slots : \A other \in slots : slot <= other

\* The slot of the scope, or else a free one.
NameSlot(names, scope) ==
  IF SlotsOf(names, scope) # {} THEN SlotsOf(names, scope) ELSE SlotsOf(names, <<>>)

Dropped(names, scope) == NameSlot(names, scope) = {}

\* record_scope_name_in_slice: a name that finds no slot is dropped
RecordScopeName(names, scope) ==
  IF Dropped(names, scope) THEN names
  ELSE [names EXCEPT ![FirstSlot(NameSlot(names, scope))] =
          [scope |-> scope, seen |-> Saturated(@.seen + 1)]]

=============================================================================
