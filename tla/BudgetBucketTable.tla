------------------------- MODULE BudgetBucketTable -------------------------
(***************************************************************************)
(* The array of budget buckets (src/shmem/budget_buckets.rs): slots that   *)
(* are filled from the front and never emptied, searched for the (policy,  *)
(* scope) of a statement.  What a bucket holds is up to the callbacks that *)
(* TokenBucket models; here it is a value.  Every operation holds the lock *)
(* of the shared memory, so each is one step.                              *)
(***************************************************************************)
EXTENDS Naturals, FiniteSets

CONSTANTS
  Keys,            \* (policy, scope hash) pairs
  Values,          \* what a bucket may hold
  BucketCapacity   \* pwb.budget_bucket_capacity

VARIABLES
  slots,    \* the array
  len,      \* budget_buckets_len
  outcome   \* history: what the last operation returned

tableVars == <<slots, len, outcome>>

Slots == 1..BucketCapacity
Entry == [key : Keys, value : Values]

\* A slot whose `occupied' byte is zero.
Free == [key |-> <<>>]

TableInit ==
  /\ slots = [slot \in Slots |-> Free]
  /\ len = 0 /\ outcome = "none"

\* The slots of the occupied prefix that hold the key.
Matches(key) == {slot \in 1..len : slots[slot].key = key}

First(found) == CHOOSE slot \in found : \A other \in found : slot <= other

WriteSlot(slot, key, value) ==
  /\ slots' = [slots EXCEPT ![slot] = [key |-> key, value |-> value]]
  /\ outcome' = "stored"

IsFull == len = BucketCapacity

\* apply_budget_bucket: the callback leaves `value' in the bucket it is given.
StoreInPlace(key, value) ==
  /\ Matches(key) # {}
  /\ WriteSlot(First(Matches(key)), key, value)
  /\ UNCHANGED len

Insert(key, value) ==
  /\ Matches(key) = {} /\ ~IsFull
  /\ WriteSlot(len + 1, key, value)
  /\ len' = len + 1

Exhausted(key) ==
  /\ Matches(key) = {} /\ IsFull
  /\ outcome' = "exhausted"
  /\ UNCHANGED <<slots, len>>

\* with_existing_budget_bucket
AdjustExisting(key, value) == StoreInPlace(key, value)

Absent(key) ==
  /\ Matches(key) = {}
  /\ outcome' = "missing"
  /\ UNCHANGED <<slots, len>>

\* The callback returns an error: neither what it did to its copy of the bucket
\* nor a new bucket is stored.
CallbackFails(key) ==
  /\ Matches(key) # {} \/ ~IsFull
  /\ outcome' = "failed"
  /\ UNCHANGED <<slots, len>>

\* The server stops, and shared memory is zeroed when it starts.
TableRestart ==
  /\ slots' = [slot \in Slots |-> Free]
  /\ len' = 0 /\ outcome' = "none"

TableNext ==
  \/ \E key \in Keys, value \in Values : StoreInPlace(key, value) \/ Insert(key, value)
  \/ \E key \in Keys, value \in Values : AdjustExisting(key, value)
  \/ \E key \in Keys : Exhausted(key) \/ Absent(key) \/ CallbackFails(key)
  \/ TableRestart

TableSpec == TableInit /\ [][TableNext]_tableVars

-----------------------------------------------------------------------------
(* Properties. *)

\* budget_buckets_len counts exactly the filled slots, which are the first
\* ones: a search of the prefix sees every bucket, and the snapshot no free
\* slot.
TableTypeOK ==
  /\ slots \in [Slots -> Entry \cup {Free}]
  /\ len \in 0..BucketCapacity
  /\ \A slot \in Slots : slots[slot] \in Entry <=> slot <= len

\* No (policy, scope) has two buckets, which statements would be charged to
\* one and never get back from the other.
OneBucketPerKey ==
  \A slot, other \in 1..len : slots[slot].key = slots[other].key => slot = other

-----------------------------------------------------------------------------
(* The mapping to BudgetBucketMap.  A bucket is where its key is found. *)

BucketsOf(table, n) ==
  [key \in {table[slot].key : slot \in 1..n} |->
     table[CHOOSE slot \in 1..n : table[slot].key = key].value]

Buckets == BucketsOf(slots, len)

Map == INSTANCE BudgetBucketMap WITH Capacity <- BucketCapacity, buckets <- Buckets

\* The array implements the map, capacity included: nobody loses the bucket of
\* another when the array is full, and nobody is turned away before it is.
ImplementsBudgetBucketMap == Map!Spec

=============================================================================
