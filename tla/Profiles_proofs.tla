--------------------------- MODULE Profiles_proofs ---------------------------
(***************************************************************************)
(* Proofs about the profile cache for every capacity, every weight of the  *)
(* mean, every clock and every sequence of observations and restores, and  *)
(* about the profile store for every number of backends and databases.     *)
(***************************************************************************)
EXTENDS ProfileCache, ProfileStore, FiniteFolds, SequenceTheorems

-----------------------------------------------------------------------------
(* Least elements.                                                         *)

LEMMA FirstIsLeast ==
  ASSUME NEW slots, slots \subseteq Slots, slots # {}
  PROVE  First(slots) \in slots
<1>1. slots \subseteq Nat
  BY CapacityAssumption DEF Slots
<1> QED
  BY <1>1, LeastNatural DEF First

-----------------------------------------------------------------------------
(* The mean.                                                               *)

LEMMA QuotientBetween ==
  ASSUME NEW n \in Nat, NEW d \in Nat \ {0}, NEW low \in Nat, NEW high \in Nat,
         low * d <= n, n <= high * d
  PROVE  n \div d \in Nat /\ low <= n \div d /\ n \div d <= high
<1> DEFINE q == n \div d
<1>1. q \in Nat /\ q * d <= n /\ n < (q + 1) * d
  BY Z3
<1> HIDE DEF q
<1>2. ~(q < low)
  <2> SUFFICES ASSUME q < low PROVE FALSE
    OBVIOUS
  <2>1. (q + 1) * d <= low * d
    BY <1>1, Z3
  <2>2. (q + 1) * d \in Nat /\ low * d \in Nat
    BY <1>1
  <2> QED
    BY <1>1, <2>1, <2>2
<1>3. ~(high < q)
  <2> SUFFICES ASSUME high < q PROVE FALSE
    OBVIOUS
  <2>1. high * d < q * d
    BY <1>1, Z3
  <2>2. high * d \in Nat /\ q * d \in Nat
    BY <1>1
  <2> QED
    BY <1>1, <2>1, <2>2
<1> QED
  BY <1>1, <1>2, <1>3 DEF q

LEMMA ProductInOrder ==
  ASSUME NEW a \in Nat, NEW b \in Nat, NEW c \in Nat, a <= b
  PROVE  a * c \in Nat /\ b * c \in Nat /\ a * c <= b * c
  BY Z3

\* The new mean lies between any bounds of the old one and the measurement.
LEMMA EwmaBetween ==
  ASSUME NEW old \in Nat, NEW actual \in Nat, NEW low \in Nat, NEW high \in Nat,
         low <= old, low <= actual, old <= high, actual <= high
  PROVE  /\ Ewma(old, actual) \in Nat
         /\ low <= Ewma(old, actual) /\ Ewma(old, actual) <= high
<1> DEFINE n == Weight.numerator
           d == Weight.denominator
           rest == d - n
           sum == old * rest + actual * n
<1>1. n \in Nat /\ d \in Nat \ {0} /\ rest \in Nat /\ n + rest = d
  BY WeightAssumption
<1>2. Ewma(old, actual) = sum \div d
  BY DEF Ewma
<1> HIDE DEF n, d, rest
<1>3. /\ low * rest \in Nat /\ old * rest \in Nat /\ high * rest \in Nat
      /\ low * rest <= old * rest /\ old * rest <= high * rest
  BY <1>1, ProductInOrder
<1>4. /\ low * n \in Nat /\ actual * n \in Nat /\ high * n \in Nat
      /\ low * n <= actual * n /\ actual * n <= high * n
  BY <1>1, ProductInOrder
<1>5. low * d = low * rest + low * n /\ high * d = high * rest + high * n
  BY <1>1, Z3
<1>6. sum \in Nat /\ low * d <= sum /\ sum <= high * d
  BY <1>3, <1>4, <1>5
<1> HIDE DEF sum
<1> QED
  BY <1>1, <1>2, <1>6, QuotientBetween

-----------------------------------------------------------------------------
(* The array.                                                              *)

\* MeanWithinMeasured, of one profile.
MeanOK(profile) ==
  /\ profile.ewma <= profile.max /\ profile.max \in Actuals
  /\ \E actual \in Actuals : actual <= profile.ewma

Tables == [Slots -> Entry \cup {Free}]

\* An array with one entry for each key.
DistinctTable(table) ==
  /\ table \in Tables
  /\ \A slot, other \in Occupied(table) : table[slot].key = table[other].key => slot = other

GoodTable(table) ==
  /\ table \in Tables
  /\ \A slot, other \in Occupied(table) : table[slot].key = table[other].key => slot = other
  /\ \A slot \in Occupied(table) : MeanOK(table[slot].profile)

LEMMA NewProfileOK ==
  ASSUME NEW actual \in Actuals, NEW now \in Nat
  PROVE  /\ NewProfile(actual, now) \in Profile /\ MeanOK(NewProfile(actual, now))
         /\ NewProfile(actual, now).lastSeen = now
<1>1. actual \in Nat /\ MaxU64 \in Nat /\ 1 <= MaxU64
  BY CacheAssumption, MaxU64Assumption
<1>2. NewProfile(actual, now) \in Profile
  BY <1>1 DEF NewProfile, Profile
<1>3. /\ NewProfile(actual, now).ewma = actual /\ NewProfile(actual, now).max = actual
      /\ NewProfile(actual, now).lastSeen = now
  BY DEF NewProfile
<1> QED
  BY <1>1, <1>2, <1>3 DEF MeanOK

LEMMA ObservationOK ==
  ASSUME NEW profile \in Profile, MeanOK(profile), NEW actual \in Actuals, NEW now \in Nat
  PROVE  LET after == RecordObservation(profile, actual, now) IN
         /\ after \in Profile /\ MeanOK(after)
         /\ after.lastSeen = now
<1> DEFINE after == RecordObservation(profile, actual, now)
           old == profile.ewma
           high == Larger(profile.max, actual)
<1>1. /\ actual \in Nat /\ old \in Nat /\ profile.max \in Nat
      /\ profile.calls \in 1..MaxU64 /\ MaxU64 \in Nat \ {0}
  BY CacheAssumption, MaxU64Assumption DEF Profile
<1>2. PICK least \in Actuals : least <= old
  BY DEF MeanOK
<1> DEFINE low == Smaller(least, actual)
<1>3. /\ low \in Actuals /\ low \in Nat /\ low <= old /\ low <= actual
  BY <1>1, <1>2, CacheAssumption DEF Smaller
<1>4. high \in Actuals /\ high \in Nat /\ old <= high /\ actual <= high
  BY <1>1, CacheAssumption DEF Larger, MeanOK
<1> HIDE DEF low, high, old
<1>5. Ewma(old, actual) \in Nat /\ low <= Ewma(old, actual) /\ Ewma(old, actual) <= high
  BY <1>1, <1>3, <1>4, EwmaBetween
<1>6. /\ after.ewma = Ewma(old, actual) /\ after.max = high /\ after.lastSeen = now
      /\ after.calls = Smaller(profile.calls + 1, MaxU64)
      /\ after = [calls |-> after.calls, ewma |-> after.ewma, max |-> after.max,
                  lastSeen |-> after.lastSeen]
  BY DEF RecordObservation, old, high
<1> HIDE DEF after
<1>7. after.calls \in 1..MaxU64
  BY <1>1, <1>6 DEF Smaller
<1>8. after \in Profile
  BY <1>4, <1>5, <1>6, <1>7 DEF Profile
<1>9. MeanOK(after)
  BY <1>3, <1>4, <1>5, <1>6 DEF MeanOK
<1> QED
  BY <1>6, <1>8, <1>9 DEF after

LEMMA EntryIsNotFree ==
  ASSUME NEW entry \in Entry
  PROVE  entry # Free /\ entry.key \in Keys /\ entry.profile \in Profile
<1>1. entry.key \in Keys /\ entry.profile \in Profile
  BY DEF Entry
<1>2. entry.key # <<>>
  BY <1>1 DEF Keys
<1> QED
  BY <1>1, <1>2 DEF Free

LEMMA OccupiedHasEntry ==
  ASSUME NEW table \in Tables, NEW slot
  PROVE  /\ slot \in Occupied(table) => slot \in Slots /\ table[slot] \in Entry
         /\ slot \in Slots /\ table[slot] \in Entry => slot \in Occupied(table)
  BY EntryIsNotFree DEF Tables, Occupied

LEMMA PutOccupies ==
  ASSUME NEW table \in Tables, NEW slot \in Slots, NEW entry \in Entry
  PROVE  /\ [table EXCEPT ![slot] = entry] \in Tables
         /\ Occupied([table EXCEPT ![slot] = entry]) = Occupied(table) \cup {slot}
  BY EntryIsNotFree DEF Tables, Occupied

\* The array `after' is `table' with the entry in the slot.
Puts(table, slot, entry, after) ==
  /\ after \in Tables /\ after[slot] = entry
  /\ \A other \in Slots \ {slot} : after[other] = table[other]
  /\ Occupied(after) = Occupied(table) \cup {slot}

LEMMA PutPuts ==
  ASSUME NEW table \in Tables, NEW slot \in Slots, NEW entry \in Entry
  PROVE  Puts(table, slot, entry, [table EXCEPT ![slot] = entry])
<1> DEFINE after == [table EXCEPT ![slot] = entry]
<1>1. after \in Tables /\ Occupied(after) = Occupied(table) \cup {slot}
  BY PutOccupies
<1>2. after[slot] = entry /\ \A other \in Slots \ {slot} : after[other] = table[other]
  BY DEF Tables
<1> HIDE DEF after
<1>3. Puts(table, slot, entry, after)
  BY <1>1, <1>2 DEF Puts
<1> QED
  BY <1>3 DEF after

\* An entry may replace one of its own key, or any when its key is nowhere.
LEMMA PutKeepsDistinct ==
  ASSUME NEW table, DistinctTable(table), NEW slot \in Slots, NEW entry \in Entry,
         \A other \in Occupied(table) \ {slot} : table[other].key # entry.key,
         NEW after, Puts(table, slot, entry, after)
  PROVE  DistinctTable(after)
<1>1. Occupied(table) \subseteq Slots
  BY DEF Occupied
<1>2. \A other \in Occupied(after) \ {slot} :
        other \in Occupied(table) /\ after[other] = table[other]
  BY <1>1 DEF Puts
<1>3. ASSUME NEW a \in Occupied(after), NEW b \in Occupied(after), after[a].key = after[b].key
      PROVE  a = b
  <2>1. CASE a = slot \/ b = slot
    BY <1>2, <1>3, <2>1 DEF Puts
  <2>2. CASE a # slot /\ b # slot
    BY <1>2, <1>3, <2>2 DEF DistinctTable
  <2> QED
    BY <2>1, <2>2
<1> QED
  BY <1>3 DEF DistinctTable, Puts

LEMMA PutKeepsGood ==
  ASSUME NEW table, GoodTable(table), NEW slot \in Slots, NEW entry \in Entry,
         MeanOK(entry.profile),
         \A other \in Occupied(table) \ {slot} : table[other].key # entry.key
  PROVE  GoodTable([table EXCEPT ![slot] = entry])
<1> DEFINE after == [table EXCEPT ![slot] = entry]
<1>1. table \in Tables /\ DistinctTable(table) /\ Occupied(table) \subseteq Slots
  BY DEF GoodTable, DistinctTable, Occupied
<1>2. Puts(table, slot, entry, after)
  BY <1>1, PutPuts
<1> HIDE DEF after
<1>3. DistinctTable(after)
  BY <1>1, <1>2, PutKeepsDistinct
<1>4. \A a \in Occupied(after) : MeanOK(after[a].profile)
  BY <1>1, <1>2 DEF GoodTable, Puts
<1> QED
  BY <1>3, <1>4 DEF GoodTable, DistinctTable, after

\* The slot for a new key: a free one, or the least recently seen of all.
LEMMA InsertionSlotFacts ==
  ASSUME NEW table \in Tables, Capacity > 0
  PROVE  LET slot == InsertionSlot(table) IN
         /\ slot \in Slots
         /\ slot \in Occupied(table) =>
              /\ Occupied(table) = Slots
              /\ \A other \in Slots :
                   table[slot].profile.lastSeen <= table[other].profile.lastSeen
<1> DEFINE slot == InsertionSlot(table)
<1>1. FreeSlots(table) \subseteq Slots /\ Occupied(table) \subseteq Slots
  BY DEF FreeSlots, Occupied
<1>2. CASE FreeSlots(table) # {}
  <2>1. slot \in FreeSlots(table)
    BY <1>1, <1>2, FirstIsLeast DEF InsertionSlot
  <2> QED
    BY <2>1 DEF FreeSlots
<1>3. CASE FreeSlots(table) = {}
  <2>1. Occupied(table) = Slots
    BY <1>1, <1>3 DEF FreeSlots
  <2>2. 1 \in Slots
    BY CapacityAssumption DEF Slots
  <2> DEFINE seen == {table[s].profile.lastSeen : s \in Slots}
             oldest == {s \in Occupied(table) :
                          \A other \in Occupied(table) :
                            table[s].profile.lastSeen <= table[other].profile.lastSeen}
  <2>3. seen \subseteq Nat
    BY <2>1, OccupiedHasEntry DEF Entry, Profile
  <2>4. seen # {}
    BY <2>2
  <2>5. PICK least \in seen : \A m \in seen : least <= m
    <3> HIDE DEF seen
    <3> QED
      BY <2>3, <2>4, LeastNatural
  <2>6. PICK s \in Slots : least = table[s].profile.lastSeen
    BY <2>5
  <2>7. s \in oldest
    BY <2>1, <2>5, <2>6
  <2>8. oldest \subseteq Slots /\ oldest # {}
    BY <1>1, <2>7
  <2>9. slot = First(oldest)
    BY <1>3 DEF InsertionSlot, EvictionSlot
  <2>10. slot \in oldest
    <3> HIDE DEF oldest, slot
    <3> QED
      BY <2>8, <2>9, FirstIsLeast
  <2> QED
    BY <2>1, <2>10
<1> QED
  BY <1>2, <1>3

LEMMA SlotsOfKeyFacts ==
  ASSUME NEW table \in Tables, NEW key
  PROVE  /\ SlotsOfKey(table, key) \subseteq Slots
         /\ \A slot \in SlotsOfKey(table, key) :
              slot \in Occupied(table) /\ table[slot].key = key
         /\ \A slot \in Occupied(table) \ SlotsOfKey(table, key) : table[slot].key # key
  BY DEF SlotsOfKey, Occupied

\* What an upsert does: the entry of the key learns, or a new one is inserted.
UpsertOf(table, key, actual, now, slot, entry) ==
  /\ Upsert(table, key, actual, now) = [table EXCEPT ![slot] = entry]
  /\ entry.key = key /\ MeanOK(entry.profile) /\ entry.profile.lastSeen = now
  /\ \A other \in Occupied(table) \ {slot} : table[other].key # key
  /\ \/ /\ slot \in SlotsOfKey(table, key)
        /\ entry.profile = RecordObservation(table[slot].profile, actual, now)
     \/ /\ SlotsOfKey(table, key) = {} /\ slot = InsertionSlot(table)
        /\ entry.profile = NewProfile(actual, now)

LEMMA UpsertFacts ==
  ASSUME NEW table, GoodTable(table), NEW key \in Keys, NEW actual \in Actuals, NEW now \in Nat
  PROVE  \E slot \in Slots, entry \in Entry : UpsertOf(table, key, actual, now, slot, entry)
<1> DEFINE own == SlotsOfKey(table, key)
<1>1. /\ table \in Tables /\ own \subseteq Slots
      /\ \A slot \in own : slot \in Occupied(table) /\ table[slot].key = key
      /\ \A slot \in Occupied(table) \ own : table[slot].key # key
  BY SlotsOfKeyFacts DEF GoodTable
<1>2. CASE own # {}
  <2> DEFINE slot == First(own)
             profile == RecordObservation(table[slot].profile, actual, now)
             entry == [key |-> key, profile |-> profile]
  <2>1. slot \in own /\ slot \in Slots /\ slot \in Occupied(table) /\ table[slot].key = key
    <3>1. slot \in own
      <4> HIDE DEF own
      <4> QED
        BY <1>1, <1>2, FirstIsLeast
    <3> QED
      BY <1>1, <3>1
  <2>2. table[slot] \in Entry /\ MeanOK(table[slot].profile)
    BY <1>1, <2>1, OccupiedHasEntry DEF GoodTable
  <2>3. profile \in Profile /\ MeanOK(profile) /\ profile.lastSeen = now
    <3>1. table[slot].profile \in Profile
      BY <2>2 DEF Entry
    <3> QED
      BY <2>2, <3>1, ObservationOK
  <2>4. Upsert(table, key, actual, now) = [table EXCEPT ![slot].profile = profile]
    BY <1>2 DEF Upsert
  <2> HIDE DEF profile
  <2>5. entry \in Entry /\ entry.key = key /\ entry.profile = profile
    BY <2>3 DEF Entry
  <2>6. [table EXCEPT ![slot].profile = profile] = [table EXCEPT ![slot] = entry]
    <3>1. [table[slot] EXCEPT !.profile = profile] = entry
      BY <2>1, <2>2 DEF Entry
    <3> QED
      BY <3>1
  <2>7. \A other \in Occupied(table) \ {slot} : table[other].key # key
    BY <2>1 DEF GoodTable
  <2> HIDE DEF entry, slot, own
  <2> QED
    BY <2>1, <2>3, <2>4, <2>5, <2>6, <2>7 DEF own, profile, UpsertOf
<1>3. CASE own = {}
  <2> DEFINE slot == InsertionSlot(table)
             entry == [key |-> key, profile |-> NewProfile(actual, now)]
  <2>1. slot \in Slots
    BY <1>1, InsertionSlotFacts, CacheAssumption
  <2>2. NewProfile(actual, now) \in Profile /\ MeanOK(NewProfile(actual, now))
        /\ NewProfile(actual, now).lastSeen = now
    BY NewProfileOK
  <2>3. entry \in Entry /\ entry.key = key /\ entry.profile = NewProfile(actual, now)
    BY <2>2 DEF Entry
  <2>4. Upsert(table, key, actual, now) = [table EXCEPT ![slot] = entry]
    BY <1>3 DEF Upsert
  <2>5. \A other \in Occupied(table) \ {slot} : table[other].key # key
    BY <1>1, <1>3
  <2> HIDE DEF entry, slot, own
  <2> QED
    BY <1>3, <2>1, <2>2, <2>3, <2>4, <2>5 DEF own, slot, UpsertOf
<1> QED
  BY <1>2, <1>3

LEMMA UpsertKeepsGood ==
  ASSUME NEW table, GoodTable(table), NEW key \in Keys, NEW actual \in Actuals, NEW now \in Nat
  PROVE  GoodTable(Upsert(table, key, actual, now))
<1>1. PICK slot \in Slots, entry \in Entry :
        /\ Upsert(table, key, actual, now) = [table EXCEPT ![slot] = entry]
        /\ entry.key = key /\ MeanOK(entry.profile)
        /\ \A other \in Occupied(table) \ {slot} : table[other].key # key
  BY UpsertFacts DEF UpsertOf
<1>2. GoodTable([table EXCEPT ![slot] = entry])
  BY <1>1, PutKeepsGood
<1> QED
  BY <1>1, <1>2

LEMMA RestoredKeepsGood ==
  ASSUME NEW table, GoodTable(table), NEW row \in Rows
  PROVE  GoodTable(UpsertRestored(table, row))
<1>1. PICK key \in Keys, actual \in Actuals, time \in 0..MaxTime :
        row = [key |-> key, profile |-> NewProfile(actual, time)]
  BY DEF Rows
<1>2. NewProfile(actual, time) \in Profile /\ MeanOK(NewProfile(actual, time))
  <2>1. time \in Nat
    BY CacheAssumption
  <2> QED
    BY <2>1, NewProfileOK
<1>3. row \in Entry /\ MeanOK(row.profile) /\ row.key \in Keys
  BY <1>1, <1>2 DEF Entry
<1> DEFINE own == SlotsOfKey(table, row.key)
           slot == IF own # {} THEN First(own) ELSE InsertionSlot(table)
<1>4. /\ table \in Tables /\ own \subseteq Slots
      /\ \A s \in own : s \in Occupied(table) /\ table[s].key = row.key
      /\ \A s \in Occupied(table) \ own : table[s].key # row.key
  BY SlotsOfKeyFacts DEF GoodTable
<1>5. slot \in Slots /\ (own # {} => slot \in own)
  <2>1. own # {} => First(own) \in own
    <3> HIDE DEF own
    <3> QED
      BY <1>4, FirstIsLeast
  <2>2. InsertionSlot(table) \in Slots
    BY <1>4, InsertionSlotFacts, CacheAssumption
  <2> QED
    BY <1>4, <2>1, <2>2
<1>6. \A other \in Occupied(table) \ {slot} : table[other].key # row.key
  BY <1>4, <1>5 DEF GoodTable
<1>7. \/ UpsertRestored(table, row) = table
      \/ UpsertRestored(table, row) = [table EXCEPT ![slot] = row]
  BY DEF UpsertRestored
<1> HIDE DEF slot, own
<1> QED
  BY <1>3, <1>5, <1>6, <1>7, PutKeepsGood

-----------------------------------------------------------------------------
(* The restore: a fold over the rows.                                      *)

\* What RestoreAll computes: the tables after the rows of every subset.
AreMerges(merges, table, rows, S) ==
  merges = [s \in SUBSET S |->
              IF s = {} THEN table
              ELSE UpsertRestored(merges[s \ {Max(s)}], rows[Max(s)])]

Merges(table, rows, S) == CHOOSE merges : AreMerges(merges, table, rows, S)

LEMMA RestoreIsAmongMerges ==
  ASSUME NEW table, NEW rows
  PROVE  RestoreAll(table, rows) = Merges(table, rows, DOMAIN rows)[DOMAIN rows]
  BY DEF RestoreAll, FoldLeft, MapThenFoldSet, Merges, AreMerges

LEMMA MergesOfNone ==
  ASSUME NEW table, NEW rows, NEW S, NEW merges, AreMerges(merges, table, rows, S)
  PROVE  merges[{}] = table
<1>1. {} \in SUBSET S
  OBVIOUS
<1> QED
  BY <1>1 DEF AreMerges

MergesUnfold(merges, rows, S) ==
  \A s \in SUBSET S :
    s # {} => merges[s] = UpsertRestored(merges[s \ {Max(s)}], rows[Max(s)])

LEMMA MergesOfSome ==
  ASSUME NEW table, NEW rows, NEW S, NEW merges, AreMerges(merges, table, rows, S)
  PROVE  MergesUnfold(merges, rows, S)
  BY DEF AreMerges, MergesUnfold

\* The greatest of some naturals up to a bound is one of them.
LEMMA MaxIsOne ==
  ASSUME NEW n \in Nat, NEW s, s \subseteq 1..n, s # {}
  PROVE  Max(s) \in s
<1> DEFINE gaps == {n - i : i \in s}
<1>1. gaps \subseteq Nat /\ gaps # {}
  <2>1. \A i \in s : n - i \in Nat
    OBVIOUS
  <2>2. PICK i \in s : TRUE
    OBVIOUS
  <2>3. n - i \in gaps
    OBVIOUS
  <2> QED
    BY <2>1, <2>3
<1>2. PICK gap \in gaps : \A other \in gaps : gap <= other
  <2> HIDE DEF gaps
  <2> QED
    BY <1>1, LeastNatural
<1>3. PICK i \in s : gap = n - i
  BY <1>2
<1>4. ASSUME NEW j \in s PROVE i >= j
  <2>1. n - i <= n - j
    BY <1>2, <1>3
  <2>2. i \in Nat /\ j \in Nat
    OBVIOUS
  <2> QED
    BY <2>1, <2>2
<1> QED
  BY <1>4 DEF Max

MergesAgreeOn(merges, others, S) == \A s \in SUBSET S : merges[s] = others[s]

LEMMA MergesAgree ==
  ASSUME NEW table, NEW rows, NEW n \in Nat, NEW S, NEW T, S \subseteq T, T \subseteq 1..n,
         NEW merges, AreMerges(merges, table, rows, S),
         NEW others, AreMerges(others, table, rows, T)
  PROVE  MergesAgreeOn(merges, others, S)
<1>0. IsFiniteSet(S)
  <2>1. IsFiniteSet(1..n)
    BY FS_Interval
  <2>2. S \subseteq 1..n
    OBVIOUS
  <2> QED
    BY <2>1, <2>2, FS_Subset
<1> DEFINE bad == {s \in SUBSET S : merges[s] # others[s]}
<1> SUFFICES ASSUME bad # {} PROVE FALSE
  BY DEF MergesAgreeOn
<1>1. PICK s \in bad : \A U \in SUBSET s : U # s => U \notin bad
  <2>1. bad \subseteq SUBSET S
    OBVIOUS
  <2> HIDE DEF bad
  <2> QED
    BY <1>0, <2>1, LeastSubset
<1>2. s \in SUBSET S /\ s \in SUBSET T
  OBVIOUS
<1>3. s # {}
  <2>1. merges[s] # others[s]
    OBVIOUS
  <2> HIDE DEF bad
  <2>2. merges[{}] = table
    BY MergesOfNone
  <2>3. others[{}] = table
    BY MergesOfNone
  <2> QED
    BY <2>1, <2>2, <2>3
<1>4. Max(s) \in s
  BY <1>2, <1>3, MaxIsOne
<1>5. merges[s \ {Max(s)}] = others[s \ {Max(s)}]
  BY <1>1, <1>4
<1>6. merges[s] = others[s]
  <2> HIDE DEF bad
  <2>1. MergesUnfold(merges, rows, S) /\ MergesUnfold(others, rows, T)
    BY MergesOfSome
  <2> QED
    BY <1>2, <1>3, <1>5, <2>1 DEF MergesUnfold
<1> QED
  BY <1>6

LEMMA MergesExist ==
  ASSUME NEW table, NEW rows, NEW n \in Nat, NEW S, S \subseteq 1..n
  PROVE  AreMerges(Merges(table, rows, S), table, rows, S)
<1>0. IsFiniteSet(S)
  <2>1. IsFiniteSet(1..n)
    BY FS_Interval
  <2>2. S \subseteq 1..n
    OBVIOUS
  <2> QED
    BY <2>1, <2>2, FS_Subset
<1> SUFFICES \E merges : AreMerges(merges, table, rows, S)
  BY DEF Merges
<1> DEFINE bad == {T \in SUBSET S : ~\E merges : AreMerges(merges, table, rows, T)}
<1> SUFFICES ASSUME bad # {} PROVE FALSE
  OBVIOUS
<1>1. PICK T \in bad : \A U \in SUBSET T : U # T => U \notin bad
  <2>1. bad \subseteq SUBSET S
    OBVIOUS
  <2> HIDE DEF bad
  <2> QED
    BY <1>0, <2>1, LeastSubset
<1> DEFINE before(s) == s \ {Max(s)}
           of(U) == Merges(table, rows, U)
           below(s) == of(before(s))[before(s)]
           all == [s \in SUBSET T |->
                     IF s = {} THEN table ELSE UpsertRestored(below(s), rows[Max(s)])]
<1>2. ASSUME NEW U \in SUBSET T, U # T PROVE AreMerges(of(U), table, rows, U)
  <2>1. \E merges : AreMerges(merges, table, rows, U)
    BY <1>1, <1>2
  <2> QED
    BY <2>1 DEF Merges
<1>3. ASSUME NEW s \in SUBSET T, s # {} PROVE Max(s) \in s
  BY <1>3, MaxIsOne
<1>4. ASSUME NEW s \in SUBSET T, s # T
      PROVE  all[s] = of(s)[s]
  <2>1. AreMerges(of(s), table, rows, s)
    BY <1>2, <1>4
  <2>2. CASE s = {}
    <3>1. all[s] = table
      BY <2>2
    <3>2. of(s)[{}] = table
      <4> HIDE DEF all, bad, of
      <4> QED
        BY <2>1, MergesOfNone
    <3> QED
      BY <2>2, <3>1, <3>2
  <2>3. CASE s # {}
    <3> DEFINE r == before(s)
    <3>1. Max(s) \in s /\ r \in SUBSET s /\ r \in SUBSET T /\ r # T
      BY <1>3, <2>3
    <3>2. AreMerges(of(r), table, rows, r)
      <4> HIDE DEF r, of, bad
      <4> QED
        BY <1>2, <3>1
    <3>3. of(r)[r] = of(s)[r]
      <4>1. r \subseteq s /\ s \subseteq 1..n /\ r \in SUBSET r
        BY <3>1
      <4> DEFINE small == of(r)
                 large == of(s)
      <4>2. AreMerges(small, table, rows, r) /\ AreMerges(large, table, rows, s)
        BY <2>1, <3>2
      <4> HIDE DEF r, of, bad, all, small, large
      <4>3. MergesAgreeOn(small, large, r)
        BY <4>1, <4>2, MergesAgree
      <4>4. small[r] = large[r]
        BY <4>1, <4>3 DEF MergesAgreeOn
      <4> QED
        BY <4>4 DEF small, large
    <3>4. of(s)[s] = UpsertRestored(of(s)[r], rows[Max(s)])
      <4> HIDE DEF all, bad, of
      <4>1. MergesUnfold(of(s), rows, s)
        BY <2>1, MergesOfSome
      <4> QED
        BY <2>3, <4>1 DEF MergesUnfold
    <3>5. all[s] = UpsertRestored(of(r)[r], rows[Max(s)])
      BY <2>3
    <3> HIDE DEF all, of, r
    <3> QED
      BY <3>3, <3>4, <3>5
  <2> QED
    BY <2>2, <2>3
<1>5. ASSUME NEW s \in SUBSET T, s # {}
      PROVE  below(s) = all[before(s)]
  <2>1. before(s) \in SUBSET T /\ before(s) # T
    BY <1>3, <1>5
  <2>2. all[before(s)] = of(before(s))[before(s)]
    <3> HIDE DEF all, of, before
    <3> QED
      BY <1>4, <2>1
  <2> QED
    BY <2>2
<1>6. AreMerges(all, table, rows, T)
  <2> DEFINE again == [s \in SUBSET T |->
                         IF s = {} THEN table
                         ELSE UpsertRestored(all[before(s)], rows[Max(s)])]
  <2>1. ASSUME NEW s \in SUBSET T PROVE all[s] = again[s]
    <3>1. CASE s = {}
      BY <3>1
    <3>2. CASE s # {}
      <4>1. all[s] = UpsertRestored(below(s), rows[Max(s)])
        BY <3>2
      <4>2. again[s] = UpsertRestored(all[before(s)], rows[Max(s)])
        <5> HIDE DEF all, before
        <5> QED
          BY <3>2
      <4>3. below(s) = all[before(s)]
        <5> HIDE DEF all, before, below
        <5> QED
          BY <1>5, <3>2
      <4> HIDE DEF all, again, below, before
      <4> QED
        BY <4>1, <4>2, <4>3
    <3> QED
      BY <3>1, <3>2
  <2>2. all = again
    <3>1. /\ all = [s \in SUBSET T |-> all[s]]
          /\ again = [s \in SUBSET T |-> again[s]]
      OBVIOUS
    <3> HIDE DEF all, again
    <3> QED
      BY <2>1, <3>1
  <2>3. again = [s \in SUBSET T |->
                   IF s = {} THEN table
                   ELSE UpsertRestored(all[s \ {Max(s)}], rows[Max(s)])]
    OBVIOUS
  <2> HIDE DEF all, again
  <2> QED
    BY <2>2, <2>3 DEF AreMerges
<1> QED
  BY <1>1, <1>6

\* What one row keeps, a restore keeps: induction over the rows.
LEMMA RestoreInduction ==
  ASSUME NEW rows, NEW n \in Nat, DOMAIN rows = 1..n,
         NEW G, NEW table \in G,
         \A t \in G, i \in 1..n : UpsertRestored(t, rows[i]) \in G
  PROVE  RestoreAll(table, rows) \in G
<1> DEFINE D == 1..n
           merges == Merges(table, rows, D)
<1>1. AreMerges(merges, table, rows, D)
  BY MergesExist
<1>2. IsFiniteSet(D)
  BY FS_Interval
<1> DEFINE bad == {s \in SUBSET D : merges[s] \notin G}
<1>3. bad = {}
  <2> SUFFICES ASSUME bad # {} PROVE FALSE
    OBVIOUS
  <2>1. PICK s \in bad : \A U \in SUBSET s : U # s => U \notin bad
    <3>1. bad \subseteq SUBSET D
      OBVIOUS
    <3> HIDE DEF bad, D
    <3> QED
      BY <1>2, <3>1, LeastSubset
  <2>2. s \in SUBSET D /\ merges[s] \notin G
    OBVIOUS
  <2>3. s # {}
    <3>1. merges[{}] = table
      <4> HIDE DEF merges, D, bad
      <4> QED
        BY <1>1, MergesOfNone
    <3> QED
      BY <2>2, <3>1
  <2>4. Max(s) \in s
    BY <2>2, <2>3, MaxIsOne
  <2>5. merges[s \ {Max(s)}] \in G
    BY <2>1, <2>2, <2>4
  <2>6. Max(s) \in D
    BY <2>2, <2>4
  <2>7. merges[s] = UpsertRestored(merges[s \ {Max(s)}], rows[Max(s)])
    <3> HIDE DEF merges, D, bad
    <3>1. MergesUnfold(merges, rows, D)
      BY <1>1, MergesOfSome
    <3> QED
      BY <2>2, <2>3, <3>1 DEF MergesUnfold
  <2> QED
    BY <2>2, <2>5, <2>6, <2>7
<1>4. merges[D] \in G
  <2>1. D \in SUBSET D
    OBVIOUS
  <2> QED
    BY <1>3, <2>1
<1> QED
  BY <1>4, RestoreIsAmongMerges

\* A restore, however many rows it merges, leaves a good table.
LEMMA RestoreKeepsGood ==
  ASSUME NEW table, GoodTable(table), NEW rows \in RowSequences
  PROVE  GoodTable(RestoreAll(table, rows))
<1>1. PICK n \in 0..MaxRows : rows \in [1..n -> Rows]
  BY DEF RowSequences
<1>2. n \in Nat /\ DOMAIN rows = 1..n
  BY <1>1, CacheAssumption
<1> DEFINE G == {t \in Tables : GoodTable(t)}
<1>3. table \in G
  BY DEF GoodTable
<1>4. ASSUME NEW t \in G, NEW i \in 1..n PROVE UpsertRestored(t, rows[i]) \in G
  <2>1. GoodTable(UpsertRestored(t, rows[i]))
    BY <1>1, <1>4, RestoredKeepsGood
  <2> QED
    BY <2>1 DEF GoodTable
<1>5. RestoreAll(table, rows) \in G
  <2> HIDE DEF G
  <2> QED
    BY <1>2, <1>3, <1>4, RestoreInduction
<1> QED
  BY <1>5

-----------------------------------------------------------------------------
(* What an observation does to the lookups.                                *)

\* A lookup returns the one profile of the scope, or else the global one.
LEMMA LookupOfScoped ==
  ASSUME NEW table, GoodTable(table), NEW scope, NEW query,
         NEW slot \in Occupied(table), table[slot].key = <<scope, query>>
  PROVE  LookupScopedOrGlobal(table, scope, query) = {table[slot].profile}
<1>1. SlotsOfKey(table, <<scope, query>>) = {slot}
  BY DEF SlotsOfKey, GoodTable
<1> QED
  BY <1>1 DEF LookupScopedOrGlobal

LEMMA LookupOfGlobal ==
  ASSUME NEW table, GoodTable(table), NEW scope, NEW query,
         NEW slot \in Occupied(table), table[slot].key = <<Global, query>>,
         SlotsOfKey(table, <<scope, query>>) = {}
  PROVE  LookupScopedOrGlobal(table, scope, query) = {table[slot].profile}
<1>1. SlotsOfKey(table, <<Global, query>>) = {slot}
  BY DEF SlotsOfKey, GoodTable
<1> QED
  BY <1>1 DEF LookupScopedOrGlobal

\* The two upserts of an observation: entry `mine' of the scope goes to slot
\* `a', entry `ours' of everybody to slot `b'.  They meet in one slot only
\* when the second upsert evicts the first one's entry.
ObservationOf(table, scope, query, actual, now, a, b, mine, ours) ==
  LET first == [table EXCEPT ![a] = mine] IN
  /\ UpsertScopedAndGlobal(table, scope, query, actual, now) = [first EXCEPT ![b] = ours]
  /\ mine.key = <<scope, query>> /\ mine.profile.lastSeen = now
  /\ ours.key = <<Global, query>> /\ ours.profile.lastSeen = now
  /\ GoodTable(first) /\ GoodTable([first EXCEPT ![b] = ours])
  /\ \/ mine.profile = NewProfile(actual, now)
     \/ /\ a \in SlotsOfKey(table, <<scope, query>>)
        /\ mine.profile = RecordObservation(table[a].profile, actual, now)
  /\ a = b => /\ ours.profile = NewProfile(actual, now)
              /\ Occupied(first) = Slots
              /\ \A other \in Slots : now <= first[other].profile.lastSeen

LEMMA ObservationFacts ==
  ASSUME NEW table, GoodTable(table), NEW scope \in Scopes, NEW query \in Queries,
         NEW actual \in Actuals, NEW now \in Nat
  PROVE  \E a, b \in Slots, mine, ours \in Entry :
           ObservationOf(table, scope, query, actual, now, a, b, mine, ours)
<1> DEFINE own == <<scope, query>>
           all == <<Global, query>>
           first == Upsert(table, own, actual, now)
           after == Upsert(first, all, actual, now)
<1>1. own \in Keys /\ all \in Keys /\ own # all
  BY KeysAssumption DEF Keys
<1>2. GoodTable(first)
  BY <1>1, UpsertKeepsGood
<1>3. GoodTable(after)
  BY <1>1, <1>2, UpsertKeepsGood
<1> HIDE DEF own, all, first
<1>4a. PICK a \in Slots, mine \in Entry : UpsertOf(table, own, actual, now, a, mine)
  BY <1>1, UpsertFacts
<1>4. /\ first = [table EXCEPT ![a] = mine]
      /\ mine.key = own /\ mine.profile.lastSeen = now
      /\ \/ /\ a \in SlotsOfKey(table, own)
            /\ mine.profile = RecordObservation(table[a].profile, actual, now)
         \/ mine.profile = NewProfile(actual, now)
  BY <1>4a DEF UpsertOf, first
<1>5a. PICK b \in Slots, ours \in Entry : UpsertOf(first, all, actual, now, b, ours)
  BY <1>1, <1>2, UpsertFacts
<1>5. /\ after = [first EXCEPT ![b] = ours]
      /\ ours.key = all /\ ours.profile.lastSeen = now
      /\ \/ b \in SlotsOfKey(first, all)
         \/ b = InsertionSlot(first) /\ ours.profile = NewProfile(actual, now)
  BY <1>5a DEF UpsertOf
<1>6. table \in Tables /\ first \in Tables
  BY <1>2 DEF GoodTable
<1>7. first[a] = mine /\ a \in Occupied(first)
  <2>1. first[a] = mine
    BY <1>4, <1>6 DEF Tables
  <2> QED
    BY <1>4, <1>6, <2>1, OccupiedHasEntry
<1>8. ASSUME a = b
      PROVE  /\ ours.profile = NewProfile(actual, now)
             /\ Occupied(first) = Slots
             /\ \A other \in Slots : now <= first[other].profile.lastSeen
  <2>1. b \notin SlotsOfKey(first, all)
    BY <1>1, <1>4, <1>7, <1>8 DEF SlotsOfKey
  <2>2. b = InsertionSlot(first) /\ ours.profile = NewProfile(actual, now)
    BY <1>5, <2>1
  <2>3. /\ Occupied(first) = Slots
        /\ \A other \in Slots : first[b].profile.lastSeen <= first[other].profile.lastSeen
    BY <1>6, <1>7, <1>8, <2>2, InsertionSlotFacts, CacheAssumption
  <2> QED
    BY <1>4, <1>7, <1>8, <2>2, <2>3
<1>9. UpsertScopedAndGlobal(table, scope, query, actual, now) = after
  BY DEF UpsertScopedAndGlobal, first, own, all
<1> HIDE DEF after
<1>10. ObservationOf(table, scope, query, actual, now, a, b, mine, ours)
  BY <1>2, <1>3, <1>4, <1>5, <1>8, <1>9 DEF ObservationOf, own, all
<1> QED
  BY <1>10

\* The slots and entries after an observation.
PutInTwo(table, first, after, a, b, mine, ours) ==
  /\ first \in Tables /\ after \in Tables
  /\ first[a] = mine /\ after[b] = ours
  /\ Occupied(first) = Occupied(table) \cup {a}
  /\ Occupied(after) = Occupied(first) \cup {b}
  /\ \A slot \in Slots \ {a} : first[slot] = table[slot]
  /\ \A slot \in Slots \ {b} : after[slot] = first[slot]

LEMMA ObservedTable ==
  ASSUME NEW table \in Tables, NEW a \in Slots, NEW b \in Slots, NEW mine \in Entry,
         NEW ours \in Entry,
         NEW first, first = [table EXCEPT ![a] = mine],
         NEW after, after = [first EXCEPT ![b] = ours]
  PROVE  PutInTwo(table, first, after, a, b, mine, ours)
<1>1. first \in Tables /\ Occupied(first) = Occupied(table) \cup {a}
  BY PutOccupies
<1>2. first[a] = mine /\ \A slot \in Slots \ {a} : first[slot] = table[slot]
  BY DEF Tables
<1>3. after \in Tables /\ Occupied(after) = Occupied(first) \cup {b}
  BY <1>1, PutOccupies
<1>4. after[b] = ours /\ \A slot \in Slots \ {b} : after[slot] = first[slot]
  BY <1>1 DEF Tables
<1> QED
  BY <1>1, <1>2, <1>3, <1>4 DEF PutInTwo

\* The lookup after an observation: it is there, and its mean is what was
\* written or has moved from the mean of the lookup before.
LEMMA ObservationIsLookedUp ==
  ASSUME NEW table, GoodTable(table), NEW scope \in Scopes, NEW query \in Queries,
         NEW actual \in Actuals, NEW now \in Nat
  PROVE  LET after == UpsertScopedAndGlobal(table, scope, query, actual, now) IN
         \E profile \in Profile :
           /\ LookupScopedOrGlobal(after, scope, query) = {profile}
           /\ profile.lastSeen = now
           /\ \/ profile.ewma = actual
              \/ \E old \in Profile :
                   /\ LookupScopedOrGlobal(table, scope, query) = {old}
                   /\ profile.ewma = Ewma(old.ewma, actual)
<1>1. PICK a \in Slots, b \in Slots, mine \in Entry, ours \in Entry :
        ObservationOf(table, scope, query, actual, now, a, b, mine, ours)
  BY ObservationFacts
<1> DEFINE own == <<scope, query>>
           first == [table EXCEPT ![a] = mine]
           after == [first EXCEPT ![b] = ours]
<1>2. /\ UpsertScopedAndGlobal(table, scope, query, actual, now) = after
      /\ mine.key = own /\ mine.profile.lastSeen = now
      /\ ours.key = <<Global, query>> /\ ours.profile.lastSeen = now
      /\ GoodTable(first) /\ GoodTable(after)
      /\ \/ mine.profile = NewProfile(actual, now)
         \/ /\ a \in SlotsOfKey(table, own)
            /\ mine.profile = RecordObservation(table[a].profile, actual, now)
      /\ a = b => ours.profile = NewProfile(actual, now)
  BY <1>1 DEF ObservationOf
<1>3. /\ first[a] = mine /\ after[b] = ours
      /\ Occupied(first) = Occupied(table) \cup {a}
      /\ Occupied(after) = Occupied(first) \cup {b}
      /\ \A slot \in Slots \ {b} : after[slot] = first[slot]
  <2>1. /\ table \in Tables
        /\ first = [table EXCEPT ![a] = mine] /\ after = [first EXCEPT ![b] = ours]
    BY DEF GoodTable
  <2> HIDE DEF first, after
  <2>2. PutInTwo(table, first, after, a, b, mine, ours)
    BY <2>1, ObservedTable
  <2> QED
    BY <2>2 DEF PutInTwo
<1>4. mine.profile \in Profile /\ ours.profile \in Profile
  BY DEF Entry
<1>5. NewProfile(actual, now).ewma = actual
  BY DEF NewProfile
<1> HIDE DEF first, after
<1>6. CASE a # b
  <2>1. a \in Occupied(after) /\ after[a] = mine
    BY <1>3, <1>6
  <2>2. LookupScopedOrGlobal(after, scope, query) = {mine.profile}
    <3>1. after[a].key = <<scope, query>>
      BY <1>2, <2>1
    <3> QED
      BY <1>2, <2>1, <3>1, LookupOfScoped
  <2>3. CASE mine.profile = NewProfile(actual, now)
    BY <1>2, <1>4, <1>5, <2>2, <2>3
  <2>4. CASE /\ a \in SlotsOfKey(table, own)
             /\ mine.profile = RecordObservation(table[a].profile, actual, now)
    <3>1. a \in Occupied(table) /\ table[a].key = <<scope, query>>
      BY <2>4 DEF SlotsOfKey
    <3>2. LookupScopedOrGlobal(table, scope, query) = {table[a].profile}
      BY <3>1, LookupOfScoped
    <3>3. table[a].profile \in Profile
      BY <3>1, OccupiedHasEntry DEF GoodTable, Entry
    <3>4. mine.profile.ewma = Ewma(table[a].profile.ewma, actual)
      BY <2>4 DEF RecordObservation
    <3> QED
      BY <1>2, <1>4, <2>2, <3>2, <3>3, <3>4
  <2> QED
    BY <1>2, <2>3, <2>4
<1>7. CASE a = b
  <2>1. b \in Occupied(after) /\ after[b] = ours
    BY <1>3
  <2>2. ASSUME NEW other \in Occupied(after) PROVE after[other].key # <<scope, query>>
    <3>1. CASE other = b
      BY <1>2, <1>3, <3>1, KeysAssumption
    <3>2. CASE other # b
      <4>1. other \in Occupied(first) /\ other \in Slots /\ after[other] = first[other]
        BY <1>3, <2>2, <3>2 DEF Occupied
      <4>2. a \in Occupied(first)
        BY <1>3
      <4> QED
        BY <1>2, <1>3, <1>7, <3>2, <4>1, <4>2 DEF GoodTable
    <3> QED
      BY <3>1, <3>2
  <2>3. LookupScopedOrGlobal(after, scope, query) = {ours.profile}
    <3>1. after[b].key = <<Global, query>>
      BY <1>2, <2>1
    <3>2. SlotsOfKey(after, <<scope, query>>) = {}
      BY <2>2 DEF SlotsOfKey
    <3>3. LookupScopedOrGlobal(after, scope, query) = {after[b].profile}
      BY <1>2, <2>1, <3>1, <3>2, LookupOfGlobal
    <3> QED
      BY <2>1, <3>3
  <2> QED
    BY <1>2, <1>4, <1>5, <1>7, <2>3
<1> QED
  BY <1>6, <1>7

\* An observation newer than every entry keeps its scope's own profile: with
\* two slots, the entry that makes room for the global one is an older one.
NewerThanAll(table, now) ==
  \A slot \in Occupied(table) : table[slot].profile.lastSeen < now

LEMMA LatestIsKept ==
  ASSUME NEW table, GoodTable(table), NEW scope \in Scopes, NEW query \in Queries,
         NEW actual \in Actuals, NEW now \in Nat, Capacity > 1,
         NewerThanAll(table, now)
  PROVE  SlotsOfKey(UpsertScopedAndGlobal(table, scope, query, actual, now),
                    <<scope, query>>) # {}
<1>1. PICK a \in Slots, b \in Slots, mine \in Entry, ours \in Entry :
        ObservationOf(table, scope, query, actual, now, a, b, mine, ours)
  BY ObservationFacts
<1> DEFINE first == [table EXCEPT ![a] = mine]
           after == [first EXCEPT ![b] = ours]
<1>2. /\ UpsertScopedAndGlobal(table, scope, query, actual, now) = after
      /\ mine.key = <<scope, query>>
      /\ a = b => /\ Occupied(first) = Slots
                  /\ \A other \in Slots : now <= first[other].profile.lastSeen
  BY <1>1 DEF ObservationOf
<1>3. /\ first \in Tables /\ first[a] = mine
      /\ Occupied(first) = Occupied(table) \cup {a}
      /\ Occupied(after) = Occupied(first) \cup {b}
      /\ \A slot \in Slots \ {a} : first[slot] = table[slot]
      /\ \A slot \in Slots \ {b} : after[slot] = first[slot]
  <2>1. /\ table \in Tables
        /\ first = [table EXCEPT ![a] = mine] /\ after = [first EXCEPT ![b] = ours]
    BY DEF GoodTable
  <2> HIDE DEF first, after
  <2>2. PutInTwo(table, first, after, a, b, mine, ours)
    BY <2>1, ObservedTable
  <2> QED
    BY <2>2 DEF PutInTwo
<1> HIDE DEF first, after
<1>4. a # b
  <2> SUFFICES ASSUME a = b PROVE FALSE
    OBVIOUS
  <2>1. PICK other \in Slots : other # a
    <3>1. 1 \in Slots /\ 2 \in Slots
      BY CapacityAssumption DEF Slots
    <3> QED
      BY <3>1
  <2>2. other \in Occupied(table) /\ first[other] = table[other]
    BY <1>2, <1>3, <2>1
  <2>3. table[other].profile.lastSeen < now /\ now <= table[other].profile.lastSeen
    BY <1>2, <2>2 DEF NewerThanAll
  <2>4. table[other].profile.lastSeen \in Nat
    BY <1>3, <2>1, <2>2, OccupiedHasEntry DEF GoodTable, Entry, Profile
  <2> QED
    BY <2>3, <2>4
<1>5. a \in Occupied(after) /\ after[a] = mine
  BY <1>3, <1>4
<1> QED
  BY <1>2, <1>5 DEF SlotsOfKey

\* A scope that keeps its own profile reads the same one after an observation
\* of another scope or of another query.
LEMMA OthersReadTheSame ==
  ASSUME NEW table, GoodTable(table), NEW scope \in Scopes, NEW query \in Queries,
         NEW actual \in Actuals, NEW now \in Nat,
         NEW reader \in Scopes, NEW read \in Queries, <<reader, read>> # <<scope, query>>,
         <<reader, read>> \in KeysOf(table),
         <<reader, read>> \in KeysOf(UpsertScopedAndGlobal(table, scope, query, actual, now))
  PROVE  \E profile \in Profile :
           /\ LookupScopedOrGlobal(table, reader, read) = {profile}
           /\ LookupScopedOrGlobal(UpsertScopedAndGlobal(table, scope, query, actual, now),
                                   reader, read) = {profile}
<1>1. PICK a \in Slots, b \in Slots, mine \in Entry, ours \in Entry :
        ObservationOf(table, scope, query, actual, now, a, b, mine, ours)
  BY ObservationFacts
<1> DEFINE first == [table EXCEPT ![a] = mine]
           after == [first EXCEPT ![b] = ours]
           own == <<reader, read>>
<1>2. /\ UpsertScopedAndGlobal(table, scope, query, actual, now) = after
      /\ mine.key = <<scope, query>> /\ ours.key = <<Global, query>>
      /\ GoodTable(after)
  BY <1>1 DEF ObservationOf
<1>3. /\ table \in Tables /\ first[a] = mine /\ after[b] = ours
      /\ Occupied(first) = Occupied(table) \cup {a}
      /\ Occupied(after) = Occupied(first) \cup {b}
      /\ \A slot \in Slots \ {a} : first[slot] = table[slot]
      /\ \A slot \in Slots \ {b} : after[slot] = first[slot]
  <2>1. /\ table \in Tables
        /\ first = [table EXCEPT ![a] = mine] /\ after = [first EXCEPT ![b] = ours]
    BY DEF GoodTable
  <2> HIDE DEF first, after
  <2>2. PutInTwo(table, first, after, a, b, mine, ours)
    BY <2>1, ObservedTable
  <2> QED
    BY <2>1, <2>2 DEF PutInTwo
<1> HIDE DEF first, after
<1>4. PICK c \in Occupied(after) : after[c].key = own
  BY <1>2 DEF KeysOf
<1>5. c # b /\ c \in Occupied(first) /\ after[c] = first[c]
  <2>1. own # <<Global, query>>
    BY KeysAssumption
  <2>2. c # b
    BY <1>2, <1>3, <1>4, <2>1
  <2> QED
    BY <1>3, <1>4, <2>2 DEF Occupied
<1>6. c # a /\ c \in Occupied(table) /\ first[c] = table[c]
  <2>1. c # a
    BY <1>2, <1>3, <1>4, <1>5
  <2> QED
    BY <1>3, <1>4, <1>5, <2>1 DEF Occupied
<1>7. LookupScopedOrGlobal(table, reader, read) = {table[c].profile}
  <2>1. table[c].key = <<reader, read>>
    BY <1>4, <1>5, <1>6
  <2> QED
    BY <1>6, <2>1, LookupOfScoped
<1>8. LookupScopedOrGlobal(after, reader, read) = {table[c].profile}
  <2>1. after[c].key = <<reader, read>> /\ after[c] = table[c]
    BY <1>4, <1>5, <1>6
  <2>2. LookupScopedOrGlobal(after, reader, read) = {after[c].profile}
    BY <1>2, <1>4, <2>1, LookupOfScoped
  <2> QED
    BY <2>1, <2>2
<1>9. table[c].profile \in Profile
  BY <1>3, <1>6, OccupiedHasEntry DEF Entry
<1> QED
  BY <1>2, <1>7, <1>8, <1>9

-----------------------------------------------------------------------------
(* The state machine.                                                      *)

\* The array is good, its length counts, and the last observation is found.
CacheInv ==
  /\ GoodTable(profiles)
  /\ len = Cardinality(Occupied(profiles))
  /\ dirty \in 0..MaxU64
  /\ ObservationIsFound

LEMMA OccupiedFitsIn ==
  ASSUME NEW table
  PROVE  Cardinality(Occupied(table)) \in Nat /\ Cardinality(Occupied(table)) <= Capacity
<1>1. IsFiniteSet(1..Capacity) /\ Cardinality(1..Capacity) = Capacity
  <2>1. 1 \in Int /\ Capacity \in Int
    BY CapacityAssumption
  <2>2. /\ IsFiniteSet(1..Capacity)
        /\ Cardinality(1..Capacity) = IF 1 > Capacity THEN 0 ELSE Capacity - 1 + 1
    BY <2>1, FS_Interval
  <2> QED
    BY <2>2, CapacityAssumption
<1>2. Occupied(table) \subseteq 1..Capacity
  BY DEF Occupied, Slots
<1>3. IsFiniteSet(Occupied(table)) /\ Cardinality(Occupied(table)) <= Capacity
  <2>1. /\ IsFiniteSet(Occupied(table))
        /\ Cardinality(Occupied(table)) <= Cardinality(1..Capacity)
    BY <1>1, <1>2, FS_Subset
  <2> QED
    BY <1>1, <2>1
<1> QED
  BY <1>3, FS_CardinalityType

\* profiles_len counts the entries again after any change of the array.
LEMMA LengthCountsEntries ==
  ASSUME NEW table, len = Cardinality(Occupied(profiles))
  PROVE  Grown(table) = Cardinality(Occupied(table))
<1>1. /\ Cardinality(Occupied(table)) \in Nat /\ Cardinality(Occupied(table)) <= Capacity
      /\ Cardinality(Occupied(profiles)) \in Nat
  BY OccupiedFitsIn
<1> QED
  BY <1>1, CapacityAssumption DEF Grown, Smaller

LEMMA EmptyTableIsGood == GoodTable(EmptyTable) /\ Cardinality(Occupied(EmptyTable)) = 0
<1>1. EmptyTable \in Tables /\ Occupied(EmptyTable) = {}
  BY DEF EmptyTable, Tables, Occupied
<1> QED
  BY <1>1, FS_EmptySet DEF GoodTable

LEMMA ObserveIsFound ==
  ASSUME CacheInv, NEW scope \in Scopes, NEW query \in Queries, NEW actual \in Actuals,
         NEW now \in 0..MaxTime, Observe(scope, query, actual, now)
  PROVE  ObservationIsFound'
<1>1. /\ GoodTable(profiles) /\ now \in Nat
      /\ profiles' = UpsertScopedAndGlobal(profiles, scope, query, actual, now)
      /\ learned'.scope = scope /\ learned'.query = query /\ learned'.now = now
      /\ learned'.latest = (\A slot \in Occupied(profiles) :
                              profiles[slot].profile.lastSeen < now)
  BY CacheAssumption DEF CacheInv, Observe
<1>2. \E profile \in LookupScopedOrGlobal(profiles', scope, query) : profile.lastSeen = now
  BY <1>1, ObservationIsLookedUp
<1>3. ASSUME learned'.latest, Capacity > 1
      PROVE  SlotsOfKey(profiles', <<scope, query>>) # {}
  <2>1. NewerThanAll(profiles, now)
    BY <1>1, <1>3 DEF NewerThanAll
  <2> QED
    BY <1>1, <1>3, <2>1, LatestIsKept
<1> QED
  BY <1>1, <1>2, <1>3 DEF ObservationIsFound

LEMMA InitEstablishesCacheInv == Init => CacheInv
  BY EmptyTableIsGood, MaxU64Assumption DEF Init, CacheInv, ObservationIsFound

LEMMA StepKeepsCacheInv == CacheInv /\ [Next]_vars => CacheInv'
<1> SUFFICES ASSUME CacheInv, [Next]_vars
             PROVE  CacheInv'
  OBVIOUS
<1> USE DEF CacheInv
<1>1. ASSUME NEW scope \in Scopes, NEW query \in Queries, NEW actual \in Actuals,
             NEW now \in 0..MaxTime, Observe(scope, query, actual, now)
      PROVE  CacheInv'
  <2>1. GoodTable(profiles')
    <3> DEFINE first == Upsert(profiles, <<scope, query>>, actual, now)
    <3>1. now \in Nat /\ <<scope, query>> \in Keys /\ <<Global, query>> \in Keys
      BY CacheAssumption DEF Keys
    <3>2. GoodTable(first)
      BY <3>1, UpsertKeepsGood
    <3>3. profiles' = Upsert(first, <<Global, query>>, actual, now)
      BY <1>1 DEF Observe, UpsertScopedAndGlobal
    <3> HIDE DEF first
    <3> QED
      BY <3>1, <3>2, <3>3, UpsertKeepsGood
  <2>2. len' = Cardinality(Occupied(profiles'))
    BY <1>1, LengthCountsEntries DEF Observe
  <2>3. dirty' \in 0..MaxU64
    BY <1>1, MaxU64Assumption DEF Observe, Smaller
  <2>4. ObservationIsFound'
    BY <1>1, ObserveIsFound
  <2> QED
    BY <2>1, <2>2, <2>3, <2>4 DEF GoodTable, MeanOK
<1>2. ASSUME NEW rows \in RowSequences, Restore(rows) PROVE CacheInv'
  <2>1. GoodTable(profiles')
    BY <1>2, RestoreKeepsGood DEF Restore
  <2>2. len' = Cardinality(Occupied(profiles'))
    BY <1>2, LengthCountsEntries DEF Restore
  <2>3. dirty' \in 0..MaxU64 /\ ObservationIsFound'
    BY <1>2 DEF Restore, ObservationIsFound
  <2> QED
    BY <2>1, <2>2, <2>3
<1>3. CASE Reset
  <2>1. /\ GoodTable(profiles') /\ len' = Cardinality(Occupied(profiles'))
    BY <1>3, EmptyTableIsGood DEF Reset
  <2>2. dirty' \in 0..MaxU64 /\ ObservationIsFound'
    BY <1>3, MaxU64Assumption DEF Reset, ObservationIsFound
  <2> QED
    BY <2>1, <2>2
<1>4. CASE UNCHANGED vars
  BY <1>4 DEF vars, ObservationIsFound
<1> QED
  BY <1>1, <1>2, <1>3, <1>4 DEF Next

LEMMA CacheInvHolds == Spec => []CacheInv
<1>1. Init => CacheInv
  BY InitEstablishesCacheInv
<1>2. CacheInv /\ [Next]_vars => CacheInv'
  BY StepKeepsCacheInv
<1> QED
  BY <1>1, <1>2, PTL DEF Spec

\* Observations, restores and resets leave an array of entries and free slots,
\* and profiles_len counts the entries, for every capacity (src/shmem/profiles.rs).
THEOREM TypeCorrect == Spec => []TypeOK
<1>1. CacheInv => TypeOK
  BY DEF CacheInv, TypeOK, GoodTable, Tables
<1> QED
  BY <1>1, CacheInvHolds, PTL

\* No sequence of insertions, evictions and merges makes two entries of one
\* key, of which find_profile_slot would only ever see the first.
THEOREM KeysAreUnique == Spec => []OneEntryPerKey
<1>1. CacheInv => OneEntryPerKey
  BY DEF CacheInv, OneEntryPerKey, GoodTable
<1> QED
  BY <1>1, CacheInvHolds, PTL

\* A learned mean stays between the smallest and the largest measurement, for
\* every weight and however often it is rounded down (QueryProfile::record_observation).
THEOREM MeansStayMeasured == Spec => []MeanWithinMeasured
<1>1. CacheInv => MeanWithinMeasured
  BY DEF CacheInv, MeanWithinMeasured, GoodTable, MeanOK
<1> QED
  BY <1>1, CacheInvHolds, PTL

\* The lookup after an observation returns it, and the scope's own profile is
\* kept when the observation is the latest and there is room for two
\* (upsert_scoped_and_global_query_profiles, lookup_scoped_or_global_query_profile).
THEOREM ObservationsAreFound == Spec => []ObservationIsFound
<1>1. CacheInv => ObservationIsFound
  BY DEF CacheInv
<1> QED
  BY <1>1, CacheInvHolds, PTL

-----------------------------------------------------------------------------
(* The predictions.                                                        *)

\* predict_context, from the profiles that the lookup returns.
PredictionFrom(lookup, predictor, class) ==
  LET means == {p.ewma : p \in lookup}
  IN  CASE class = "read only" -> 0
        [] class # "read only" /\ predictor = "profile_ewma" /\ means # {} ->
             Smaller(CHOOSE mean \in means : TRUE, MaxPrediction)
        [] OTHER -> Smaller(FallbackWalBytesForClass(class), MaxPrediction)

LEMMA PredictionFromProfile ==
  ASSUME NEW class \in {"write", "utility"}, NEW profile \in Profile
  PROVE  PredictionFrom({profile}, "profile_ewma", class) = Smaller(profile.ewma, MaxPrediction)
<1>1. {p.ewma : p \in {profile}} = {profile.ewma}
  OBVIOUS
<1>2. (CHOOSE mean \in {profile.ewma} : TRUE) = profile.ewma
  OBVIOUS
<1>3. class # "read only"
  OBVIOUS
<1> QED
  BY <1>1, <1>2, <1>3 DEF PredictionFrom

LEMMA PredictionFromClass ==
  ASSUME NEW class \in {"write", "utility"}, NEW predictor, NEW lookup,
         predictor # "profile_ewma" \/ lookup = {}
  PROVE  /\ PredictionFrom(lookup, predictor, class)
              = Smaller(FallbackWalBytesForClass(class), MaxPrediction)
         /\ PredictionFrom(lookup, predictor, class) \in Nat
<1>1. class # "read only"
  OBVIOUS
<1>2. lookup = {} => {p.ewma : p \in lookup} = {}
  OBVIOUS
<1>3. PredictionFrom(lookup, predictor, class)
        = Smaller(FallbackWalBytesForClass(class), MaxPrediction)
  BY <1>1, <1>2 DEF PredictionFrom
<1>4. FallbackWalBytesForClass(class) \in Nat
  <2>1. class = "write" \/ class = "utility"
    OBVIOUS
  <2>2. class = "write" => FallbackWalBytesForClass(class) = DefaultWrite
    BY DEF FallbackWalBytesForClass
  <2>3. class = "utility" => FallbackWalBytesForClass(class) = DefaultUtility
    BY DEF FallbackWalBytesForClass
  <2> QED
    BY <2>1, <2>2, <2>3, CacheAssumption
<1>5. Smaller(FallbackWalBytesForClass(class), MaxPrediction) \in Nat
  BY <1>4, CacheAssumption DEF Smaller
<1> QED
  BY <1>3, <1>5

LEMMA LookupIsOneOrNone ==
  ASSUME NEW table, GoodTable(table), NEW scope, NEW query
  PROVE  LookupScopedOrGlobal(table, scope, query) = {}
           \/ \E profile \in Profile : LookupScopedOrGlobal(table, scope, query) = {profile}
<1>1. ASSUME NEW slot \in Occupied(table) PROVE table[slot].profile \in Profile
  BY <1>1, OccupiedHasEntry DEF GoodTable, Entry
<1>2. CASE \E slot \in Occupied(table) : table[slot].key = <<scope, query>>
  BY <1>1, <1>2, LookupOfScoped
<1>3. CASE ~\E slot \in Occupied(table) : table[slot].key = <<scope, query>>
  <2>1. SlotsOfKey(table, <<scope, query>>) = {}
    BY <1>3 DEF SlotsOfKey
  <2>2. CASE \E slot \in Occupied(table) : table[slot].key = <<Global, query>>
    BY <1>1, <2>1, <2>2, LookupOfGlobal
  <2>3. CASE ~\E slot \in Occupied(table) : table[slot].key = <<Global, query>>
    <3>1. SlotsOfKey(table, <<Global, query>>) = {}
      BY <2>3 DEF SlotsOfKey
    <3> QED
      BY <2>1, <3>1 DEF LookupScopedOrGlobal
  <2> QED
    BY <2>2, <2>3
<1> QED
  BY <1>2, <1>3

\* Clamping keeps a mean between the old one and the measurement.
LEMMA ClampedMeanBetween ==
  ASSUME NEW old \in Nat, NEW actual \in Nat
  PROVE  Between(Smaller(old, MaxPrediction), Smaller(Ewma(old, actual), MaxPrediction),
                 Smaller(actual, MaxPrediction))
<1> DEFINE new == Ewma(old, actual)
<1>1. MaxPrediction \in Nat
  BY CacheAssumption
<1>2. CASE old <= actual
  <2>1. new \in Nat /\ old <= new /\ new <= actual
    BY <1>2, EwmaBetween
  <2> HIDE DEF new
  <2>2. /\ Smaller(old, MaxPrediction) <= Smaller(new, MaxPrediction)
        /\ Smaller(new, MaxPrediction) <= Smaller(actual, MaxPrediction)
    BY <1>1, <2>1 DEF Smaller
  <2> QED
    BY <2>2 DEF Between, new
<1>3. CASE ~(old <= actual)
  <2>1. new \in Nat /\ actual <= new /\ new <= old
    BY <1>3, EwmaBetween
  <2> HIDE DEF new
  <2>2. /\ Smaller(actual, MaxPrediction) <= Smaller(new, MaxPrediction)
        /\ Smaller(new, MaxPrediction) <= Smaller(old, MaxPrediction)
    BY <1>1, <2>1 DEF Smaller
  <2> QED
    BY <2>2 DEF Between, new
<1> QED
  BY <1>2, <1>3

\* An observation moves its own prediction towards what was written.
LEMMA OwnPredictionMoves ==
  ASSUME NEW table, GoodTable(table), NEW scope \in Scopes, NEW query \in Queries,
         NEW actual \in Actuals, NEW now \in Nat,
         NEW predictor \in Predictors, NEW class \in {"write", "utility"},
         NEW after, after = UpsertScopedAndGlobal(table, scope, query, actual, now)
  PROVE  Between(PredictionFrom(LookupScopedOrGlobal(table, scope, query), predictor, class),
                 PredictionFrom(LookupScopedOrGlobal(after, scope, query), predictor, class),
                 Smaller(actual, MaxPrediction))
<1> DEFINE was == LookupScopedOrGlobal(table, scope, query)
           is == LookupScopedOrGlobal(after, scope, query)
           p == PredictionFrom(was, predictor, class)
           q == PredictionFrom(is, predictor, class)
           goal == Smaller(actual, MaxPrediction)
<1>1. actual \in Nat /\ goal \in Nat
  BY CacheAssumption DEF Smaller
<1>2. PICK profile \in Profile :
        /\ is = {profile}
        /\ \/ profile.ewma = actual
           \/ \E old \in Profile : was = {old} /\ profile.ewma = Ewma(old.ewma, actual)
  BY ObservationIsLookedUp
<1>3. was = {} \/ \E old \in Profile : was = {old}
  BY LookupIsOneOrNone
<1> HIDE DEF was, is, goal
<1>4. CASE predictor # "profile_ewma"
  <2>1. p = q /\ p \in Nat
    BY <1>4, PredictionFromClass
  <2> HIDE DEF p, q
  <2>2. p \in Int /\ goal \in Int /\ (p <= goal \/ goal <= p)
    BY <1>1, <2>1
  <2>3. p <= p
    BY <2>2
  <2>4. Between(p, p, goal)
    BY <2>2, <2>3 DEF Between
  <2>5. Between(p, q, goal)
    BY <2>1, <2>4
  <2> QED
    BY <2>5 DEF p, q, was, is, goal
<1>5. CASE predictor = "profile_ewma"
  <2>1. q = Smaller(profile.ewma, MaxPrediction)
    BY <1>2, <1>5, PredictionFromProfile
  <2>2. CASE profile.ewma = actual
    <3>1. p \in Nat
      <4>1. CASE was = {}
        BY <4>1, PredictionFromClass
      <4>2. CASE \E old \in Profile : was = {old}
        <5>1. PICK old \in Profile : was = {old}
          BY <4>2
        <5>2. p = Smaller(old.ewma, MaxPrediction) /\ old.ewma \in Nat
          BY <1>5, <5>1, PredictionFromProfile DEF Profile
        <5> QED
          BY <5>2, CacheAssumption DEF Smaller
      <4> QED
        BY <1>3, <4>1, <4>2
    <3>2. q = goal
      BY <2>1, <2>2 DEF goal
    <3> HIDE DEF p, q
    <3>3. p \in Int /\ goal \in Int /\ goal <= goal /\ (p <= goal \/ goal <= p)
      BY <1>1, <3>1
    <3>4. Between(p, q, goal)
      BY <3>2, <3>3 DEF Between
    <3> QED
      BY <3>4 DEF p, q, was, is, goal
  <2>3. CASE \E old \in Profile : was = {old} /\ profile.ewma = Ewma(old.ewma, actual)
    <3>1. PICK old \in Profile : was = {old} /\ profile.ewma = Ewma(old.ewma, actual)
      BY <2>3
    <3>2. p = Smaller(old.ewma, MaxPrediction) /\ old.ewma \in Nat
      BY <1>5, <3>1, PredictionFromProfile DEF Profile
    <3> HIDE DEF p, q
    <3>3. Between(p, q, goal)
      BY <1>1, <2>1, <3>1, <3>2, ClampedMeanBetween DEF goal
    <3> QED
      BY <3>3 DEF p, q, was, is, goal
  <2> QED
    BY <1>2, <2>2, <2>3
<1> QED
  BY <1>4, <1>5

LEMMA PredictionsReadTheLookup ==
  ASSUME NEW predictor, NEW class, NEW scope, NEW query \in Queries
  PROVE  /\ PredictContext(predictor, class, scope, query)
              = PredictionFrom(LookupScopedOrGlobal(profiles, scope, query), predictor, class)
         /\ PredictContext(predictor, class, scope, query)'
              = PredictionFrom(LookupScopedOrGlobal(profiles', scope, query), predictor, class)
<1>1. query # 0
  BY CacheAssumption
<1>2. /\ LookupPredictionProfile(scope, query) = LookupScopedOrGlobal(profiles, scope, query)
      /\ LookupPredictionProfile(scope, query)' = LookupScopedOrGlobal(profiles', scope, query)
  BY <1>1 DEF LookupPredictionProfile
<1> QED
  BY <1>2 DEF PredictContext, PredictionFrom

LEMMA ObserveLearnsApart ==
  ASSUME CacheInv, NEW scope \in Scopes, NEW query \in Queries, NEW actual \in Actuals,
         NEW now \in 0..MaxTime, Observe(scope, query, actual, now)
  PROVE  LearnsApart
<1>1. /\ GoodTable(profiles) /\ now \in Nat
      /\ profiles' = UpsertScopedAndGlobal(profiles, scope, query, actual, now)
      /\ learned'.scope = scope /\ learned'.query = query /\ learned'.actual = actual
  BY CacheAssumption DEF CacheInv, Observe
<1>2. ASSUME NEW predictor \in Predictors, NEW class \in {"write", "utility"}
      PROVE  Between(PredictContext(predictor, class, scope, query),
                     PredictContext(predictor, class, scope, query)',
                     Smaller(actual, MaxPrediction))
  BY <1>1, OwnPredictionMoves, PredictionsReadTheLookup
<1>3. ASSUME NEW predictor \in Predictors, NEW class \in {"write", "utility"},
             NEW reader \in Scopes, NEW read \in Queries \cup {0},
             <<reader, read>> # <<scope, query>>,
             <<reader, read>> \in KeysOf(profiles) \cap KeysOf(profiles')
      PROVE  PredictContext(predictor, class, reader, read)
               = PredictContext(predictor, class, reader, read)'
  <2>1. read \in Queries
    <3>1. PICK slot \in Occupied(profiles) : profiles[slot].key = <<reader, read>>
      BY <1>3 DEF KeysOf
    <3>2. profiles[slot].key \in Keys
      BY <1>1, <3>1, OccupiedHasEntry, EntryIsNotFree DEF GoodTable
    <3> QED
      BY <3>1, <3>2 DEF Keys
  <2>2. PICK profile \in Profile :
          /\ LookupScopedOrGlobal(profiles, reader, read) = {profile}
          /\ LookupScopedOrGlobal(profiles', reader, read) = {profile}
    <3>1. /\ <<reader, read>> \in KeysOf(profiles)
          /\ <<reader, read>>
               \in KeysOf(UpsertScopedAndGlobal(profiles, scope, query, actual, now))
      BY <1>1, <1>3
    <3> QED
      BY <1>1, <1>3, <2>1, <3>1, OthersReadTheSame
  <2> QED
    BY <2>1, <2>2, PredictionsReadTheLookup
<1> QED
  BY <1>1, <1>2, <1>3 DEF LearnsApart

\* A statement's own next prediction lies between the last one and what it
\* wrote, and the predictions of scopes with profiles of their own stay the
\* same (predict_context, upsert_scoped_and_global_query_profiles).
THEOREM ScopesLearnApart == Spec => PredictionsLearnApart
<1>1. CacheInv /\ [Next]_vars => [LearnsApart]_vars
  <2> SUFFICES ASSUME CacheInv, [Next]_vars
               PROVE  [LearnsApart]_vars
    OBVIOUS
  <2>1. CASE \E scope \in Scopes, query \in Queries, actual \in Actuals, now \in 0..MaxTime :
               Observe(scope, query, actual, now)
    BY <2>1, ObserveLearnsApart
  <2>2. CASE (\E rows \in RowSequences : Restore(rows)) \/ Reset
    BY <2>2 DEF Restore, Reset, LearnsApart
  <2>3. CASE UNCHANGED vars
    BY <2>3
  <2> QED
    BY <2>1, <2>2, <2>3 DEF Next
<1> QED
  BY <1>1, CacheInvHolds, PTL DEF Spec, PredictionsLearnApart

-----------------------------------------------------------------------------
(* The map that the array stands for.                                      *)

Maps == UNION {[keys -> Profile] : keys \in {ks \in SUBSET Keys : IsFiniteSet(ks)}}

LEMMA MapEntries ==
  ASSUME NEW table, GoodTable(table)
  PROVE  /\ MapOf(table) = [key \in KeysOf(table) |-> MapOf(table)[key]]
         /\ DOMAIN MapOf(table) = KeysOf(table)
         /\ \A slot \in Occupied(table) :
              /\ table[slot].key \in KeysOf(table)
              /\ MapOf(table)[table[slot].key] = table[slot].profile
         /\ \A key \in KeysOf(table) : \E slot \in Occupied(table) : table[slot].key = key
<1>1. ASSUME NEW slot \in Occupied(table)
      PROVE  /\ table[slot].key \in KeysOf(table)
             /\ MapOf(table)[table[slot].key] = table[slot].profile
  <2> DEFINE own == SlotsOfKey(table, table[slot].key)
  <2>1. own = {slot} /\ own \subseteq Slots
    BY DEF SlotsOfKey, GoodTable, Occupied
  <2>2. First(own) = slot
    <3> HIDE DEF own
    <3> QED
      BY <2>1, FirstIsLeast
  <2>3. table[slot].key \in KeysOf(table)
    BY DEF KeysOf
  <2> QED
    BY <2>2, <2>3 DEF MapOf
<1>2. MapOf(table) = [key \in KeysOf(table) |-> MapOf(table)[key]] /\ DOMAIN MapOf(table) = KeysOf(table)
  BY DEF MapOf
<1>3. \A key \in KeysOf(table) : \E slot \in Occupied(table) : table[slot].key = key
  BY DEF KeysOf
<1> QED
  BY <1>1, <1>2, <1>3

LEMMA KeysAreAsManyAsEntries ==
  ASSUME NEW table, GoodTable(table)
  PROVE  /\ IsFiniteSet(KeysOf(table))
         /\ Cardinality(KeysOf(table)) = Cardinality(Occupied(table))
<1> DEFINE of == [slot \in Occupied(table) |-> table[slot].key]
<1>1. of \in [Occupied(table) -> KeysOf(table)]
  BY DEF KeysOf
<1>2. \A slot, other \in Occupied(table) : of[slot] = of[other] => slot = other
  BY DEF GoodTable
<1>3. \A key \in KeysOf(table) : \E slot \in Occupied(table) : of[slot] = key
  BY DEF KeysOf
<1>4. of \in Bijection(Occupied(table), KeysOf(table))
  <2> HIDE DEF of
  <2> QED
    BY <1>1, <1>2, <1>3 DEF Bijection, Injection, Surjection, IsInjective
<1>5. ExistsBijection(Occupied(table), KeysOf(table))
  BY <1>4 DEF ExistsBijection
<1>6. IsFiniteSet(Occupied(table))
  <2>1. IsFiniteSet(1..Capacity)
    BY CapacityAssumption, FS_Interval
  <2>2. Occupied(table) \subseteq 1..Capacity
    BY DEF Occupied, Slots
  <2> QED
    BY <2>1, <2>2, FS_Subset
<1> QED
  BY <1>5, <1>6, FS_Bijection

LEMMA MapIsMap ==
  ASSUME NEW table, GoodTable(table)
  PROVE  /\ MapOf(table) \in Maps /\ Cardinality(DOMAIN MapOf(table)) <= Capacity
         /\ Cardinality(DOMAIN MapOf(table)) \in Nat
<1>1. ASSUME NEW key \in KeysOf(table) PROVE key \in Keys /\ MapOf(table)[key] \in Profile
  <2>1. PICK slot \in Occupied(table) : table[slot].key = key
    BY MapEntries
  <2>2. table[slot] \in Entry
    BY OccupiedHasEntry DEF GoodTable
  <2> QED
    BY <2>1, <2>2, MapEntries DEF Entry
<1>2. DOMAIN MapOf(table) = KeysOf(table) /\ MapOf(table) \in [KeysOf(table) -> Profile]
  BY <1>1, MapEntries
<1>3. /\ IsFiniteSet(KeysOf(table)) /\ Cardinality(KeysOf(table)) <= Capacity
      /\ Cardinality(KeysOf(table)) \in Nat
  BY KeysAreAsManyAsEntries, OccupiedFitsIn
<1>4. KeysOf(table) \in {ks \in SUBSET Keys : IsFiniteSet(ks)}
  BY <1>1, <1>3
<1> QED
  BY <1>2, <1>3, <1>4 DEF Maps

\* `after' is the map `before' without `gone' and with a profile for `key'.
Replaces(before, after, gone, key, profile) ==
  /\ DOMAIN after = (DOMAIN before \ gone) \cup {key}
  /\ after[key] = profile
  /\ \A other \in DOMAIN before \ gone : other # key => after[other] = before[other]
  /\ after = [k \in DOMAIN after |-> after[k]]

KeysGone(table, slot) == IF slot \in Occupied(table) THEN {table[slot].key} ELSE {}

LEMMA PutReplaces ==
  ASSUME NEW table, GoodTable(table), NEW slot \in Slots, NEW entry \in Entry,
         MeanOK(entry.profile),
         \A other \in Occupied(table) \ {slot} : table[other].key # entry.key
  PROVE  Replaces(MapOf(table), MapOf([table EXCEPT ![slot] = entry]), KeysGone(table, slot),
                  entry.key, entry.profile)
<1> DEFINE after == [table EXCEPT ![slot] = entry]
           gone == KeysGone(table, slot)
<1>1. table \in Tables /\ Occupied(table) \subseteq Slots
  BY DEF GoodTable, Occupied
<1>2. after \in Tables /\ Occupied(after) = Occupied(table) \cup {slot}
  BY <1>1, PutOccupies
<1>3. after[slot] = entry /\ \A other \in Slots \ {slot} : after[other] = table[other]
  BY <1>1 DEF Tables
<1>4. GoodTable(after)
  BY PutKeepsGood
<1> HIDE DEF after
<1>5. KeysOf(after) = (KeysOf(table) \ gone) \cup {entry.key}
  <2>1. ASSUME NEW key \in KeysOf(after), key # entry.key
        PROVE  key \in KeysOf(table) \ gone
    <3>1. PICK other \in Occupied(after) : after[other].key = key
      BY DEF KeysOf
    <3>2. other # slot /\ other \in Occupied(table) /\ table[other].key = key
      BY <1>1, <1>2, <1>3, <2>1, <3>1
    <3>3. key \in KeysOf(table)
      BY <3>2 DEF KeysOf
    <3>4. key \notin gone
      BY <3>2 DEF KeysGone, GoodTable
    <3> QED
      BY <3>3, <3>4
  <2>2. ASSUME NEW key \in KeysOf(table) \ gone
        PROVE  key \in KeysOf(after)
    <3>1. PICK other \in Occupied(table) : table[other].key = key
      BY DEF KeysOf
    <3>2. other # slot
      BY <3>1 DEF KeysGone
    <3>3. other \in Occupied(after) /\ after[other].key = key
      BY <1>1, <1>2, <1>3, <3>1, <3>2
    <3> QED
      BY <3>3 DEF KeysOf
  <2>3. entry.key \in KeysOf(after)
    BY <1>2, <1>3 DEF KeysOf
  <2> QED
    BY <2>1, <2>2, <2>3
<1>6. MapOf(after)[entry.key] = entry.profile
  BY <1>2, <1>3, <1>4, MapEntries
<1>7. ASSUME NEW key \in KeysOf(table) \ gone
      PROVE  MapOf(after)[key] = MapOf(table)[key]
  <2>1. PICK other \in Occupied(table) : table[other].key = key
    BY DEF KeysOf
  <2>2. other # slot
    BY <2>1 DEF KeysGone
  <2>3. other \in Occupied(after) /\ after[other] = table[other]
    BY <1>1, <1>2, <1>3, <2>1, <2>2
  <2>4. MapOf(after)[after[other].key] = after[other].profile
    BY <1>4, <2>3, MapEntries
  <2>5. MapOf(table)[table[other].key] = table[other].profile
    BY <2>1, MapEntries
  <2> QED
    BY <2>1, <2>3, <2>4, <2>5
<1>8. /\ DOMAIN MapOf(after) = KeysOf(after) /\ DOMAIN MapOf(table) = KeysOf(table)
      /\ MapOf(after) = [key \in KeysOf(after) |-> MapOf(after)[key]]
  BY <1>4, MapEntries
<1> HIDE DEF gone
<1>9. Replaces(MapOf(table), MapOf(after), gone, entry.key, entry.profile)
  BY <1>5, <1>6, <1>7, <1>8 DEF Replaces
<1> QED
  BY <1>9 DEF after, gone

Replaced(before, gone, key, profile) ==
  [k \in (DOMAIN before \ gone) \cup {key} |-> IF k = key THEN profile ELSE before[k]]

LEMMA SameEntriesSameMap ==
  ASSUME NEW before, NEW after, NEW gone, NEW key, NEW profile,
         Replaces(before, after, gone, key, profile)
  PROVE  after = Replaced(before, gone, key, profile)
  BY DEF Replaces, Replaced

-----------------------------------------------------------------------------
(* An observation is one of the abstract cache.                            *)

\* The abstract cache counts, and records, with its own instances.
LEMMA SameCount == \A S : Abstract!Cardinality(S) = Cardinality(S)
  BY DEF Abstract!Cardinality, Cardinality

LEMMA SameRecords ==
  /\ \A actual, now : Abstract!NewProfile(actual, now) = NewProfile(actual, now)
  /\ \A profile, actual, now :
       Abstract!RecordObservation(profile, actual, now) = RecordObservation(profile, actual, now)
  BY DEF Abstract!NewProfile, NewProfile, Abstract!RecordObservation, RecordObservation,
         Abstract!Ewma, Ewma, Abstract!Larger, Larger, Abstract!Smaller, Smaller

\* A slot that is free leaves the map room, and the slot of a full array that
\* makes room holds a least recently seen key.
LEMMA InsertionMakesRoom ==
  ASSUME NEW table, GoodTable(table)
  PROVE  LET slot == InsertionSlot(table) IN
         /\ slot \in Slots
         /\ slot \notin Occupied(table) => Cardinality(DOMAIN MapOf(table)) < Capacity
         /\ slot \in Occupied(table) =>
              /\ Cardinality(DOMAIN MapOf(table)) = Capacity
              /\ table[slot].key \in Abstract!LeastRecent(MapOf(table))
<1> DEFINE slot == InsertionSlot(table)
<1>1. table \in Tables /\ Occupied(table) \subseteq Slots
  BY DEF GoodTable, Occupied
<1>2. /\ slot \in Slots
      /\ slot \in Occupied(table) =>
           /\ Occupied(table) = Slots
           /\ \A other \in Slots :
                table[slot].profile.lastSeen <= table[other].profile.lastSeen
  BY <1>1, InsertionSlotFacts, CacheAssumption
<1> HIDE DEF slot
<1>3. Cardinality(DOMAIN MapOf(table)) = Cardinality(Occupied(table))
  BY MapEntries, KeysAreAsManyAsEntries
<1>4. IsFiniteSet(Slots) /\ Cardinality(Slots) = Capacity
  <2>1. IsFiniteSet(1..Capacity) /\ Cardinality(1..Capacity) = Capacity
    BY CapacityAssumption, FS_Interval
  <2> QED
    BY <2>1 DEF Slots
<1>5. ASSUME slot \notin Occupied(table)
      PROVE  Cardinality(DOMAIN MapOf(table)) < Capacity
  <2>1. Occupied(table) # Slots
    BY <1>2, <1>5
  <2>2. /\ Cardinality(Occupied(table)) <= Capacity
        /\ Cardinality(Slots) = Cardinality(Occupied(table)) => Slots = Occupied(table)
    BY <1>1, <1>4, FS_Subset
  <2>3. Cardinality(Occupied(table)) \in Nat
    BY OccupiedFitsIn
  <2> QED
    BY <1>3, <1>4, <2>1, <2>2, <2>3, CapacityAssumption
<1>6. ASSUME slot \in Occupied(table)
      PROVE  /\ Cardinality(DOMAIN MapOf(table)) = Capacity
             /\ table[slot].key \in Abstract!LeastRecent(MapOf(table))
  <2>1. Occupied(table) = Slots
    BY <1>2, <1>6
  <2>2. ASSUME NEW key \in DOMAIN MapOf(table)
        PROVE  MapOf(table)[table[slot].key].lastSeen <= MapOf(table)[key].lastSeen
    <3>1. PICK other \in Occupied(table) : table[other].key = key
      BY MapEntries
    <3>2. MapOf(table)[key] = table[other].profile
      BY <3>1, MapEntries
    <3>3. MapOf(table)[table[slot].key] = table[slot].profile
      BY <1>6, MapEntries
    <3> QED
      BY <1>2, <1>6, <2>1, <3>2, <3>3
  <2>3. table[slot].key \in DOMAIN MapOf(table)
    BY <1>6, MapEntries
  <2>4. table[slot].key \in Abstract!LeastRecent(MapOf(table))
    BY <2>2, <2>3 DEF Abstract!LeastRecent
  <2> QED
    BY <1>3, <1>4, <2>1, <2>4
<1> QED
  BY <1>2, <1>5, <1>6 DEF slot

LEMMA UpsertIsLearned ==
  ASSUME NEW table, GoodTable(table), NEW key \in Keys, NEW actual \in Actuals, NEW now \in Nat
  PROVE  MapOf(Upsert(table, key, actual, now))
           \in Abstract!Learned(MapOf(table), key, actual, now)
<1>1. PICK slot \in Slots, entry \in Entry : UpsertOf(table, key, actual, now, slot, entry)
  BY UpsertFacts
<1> DEFINE map == MapOf(table)
           after == MapOf(Upsert(table, key, actual, now))
           gone == KeysGone(table, slot)
<1>2. /\ Upsert(table, key, actual, now) = [table EXCEPT ![slot] = entry]
      /\ entry.key = key /\ MeanOK(entry.profile)
      /\ \A other \in Occupied(table) \ {slot} : table[other].key # entry.key
      /\ \/ /\ slot \in SlotsOfKey(table, key)
            /\ entry.profile = RecordObservation(table[slot].profile, actual, now)
         \/ /\ SlotsOfKey(table, key) = {} /\ slot = InsertionSlot(table)
            /\ entry.profile = NewProfile(actual, now)
  BY <1>1 DEF UpsertOf
<1>3. Replaces(map, after, gone, key, entry.profile)
  BY <1>2, PutReplaces
<1>4. after = [k \in (DOMAIN map \ gone) \cup {key} |->
                 IF k = key THEN entry.profile ELSE map[k]]
  <2> HIDE DEF map, after, gone
  <2>1. after = Replaced(map, gone, key, entry.profile)
    BY <1>3, SameEntriesSameMap
  <2> QED
    BY <2>1 DEF Replaced
<1>5. /\ DOMAIN map = KeysOf(table)
      /\ \A k : Abstract!Put(map, k, entry.profile)
                  = [j \in DOMAIN map \cup {k} |-> IF j = k THEN entry.profile ELSE map[j]]
  BY MapEntries DEF Abstract!Put
<1>6. CASE /\ slot \in SlotsOfKey(table, key)
           /\ entry.profile = RecordObservation(table[slot].profile, actual, now)
  <2>1. slot \in Occupied(table) /\ table[slot].key = key
    BY <1>6 DEF SlotsOfKey
  <2>2. key \in DOMAIN map /\ map[key] = table[slot].profile /\ gone = {key}
    BY <2>1, MapEntries DEF KeysGone
  <2>3. entry.profile = Abstract!RecordObservation(map[key], actual, now)
    BY <1>6, <2>2, SameRecords
  <2> HIDE DEF map, after, gone
  <2>4. (DOMAIN map \ gone) \cup {key} = DOMAIN map \cup {key}
    BY <2>2
  <2>5. after = Abstract!Put(map, key, entry.profile)
    BY <1>4, <1>5, <2>4
  <2>6. after \in Abstract!Learned(map, key, actual, now)
    BY <2>2, <2>3, <2>5 DEF Abstract!Learned
  <2> QED
    BY <2>6 DEF map, after
<1>7. CASE /\ SlotsOfKey(table, key) = {} /\ slot = InsertionSlot(table)
           /\ entry.profile = NewProfile(actual, now)
  <2>1. key \notin DOMAIN map
    BY <1>5, <1>7 DEF KeysOf, SlotsOfKey
  <2>2. entry.profile = Abstract!NewProfile(actual, now)
    BY <1>7, SameRecords
  <2>3. /\ slot \notin Occupied(table) => Cardinality(DOMAIN map) < Capacity
        /\ slot \in Occupied(table) =>
             /\ Cardinality(DOMAIN map) = Capacity
             /\ table[slot].key \in Abstract!LeastRecent(map)
    BY <1>7, InsertionMakesRoom
  <2>4. CASE slot \notin Occupied(table)
    <3>1. gone = {} /\ Abstract!Cardinality(DOMAIN map) < Capacity
      BY <2>3, <2>4, SameCount DEF KeysGone
    <3> HIDE DEF map, after, gone
    <3>2. (DOMAIN map \ gone) \cup {key} = DOMAIN map \cup {key}
      BY <3>1
    <3>3. after = Abstract!Put(map, key, entry.profile)
      BY <1>4, <1>5, <3>2
    <3>4. after \in Abstract!Learned(map, key, actual, now)
      BY <2>1, <2>2, <3>1, <3>3 DEF Abstract!Learned
    <3> QED
      BY <3>4 DEF map, after
  <2>5. CASE slot \in Occupied(table)
    <3> DEFINE victim == table[slot].key
               without == Abstract!Without(map, victim)
    <3>1. /\ gone = {victim} /\ victim \in Abstract!LeastRecent(map)
          /\ ~(Abstract!Cardinality(DOMAIN map) < Capacity)
      BY <2>3, <2>5, SameCount, CapacityAssumption DEF KeysGone
    <3>2. without = [k \in DOMAIN map \ {victim} |-> map[k]]
      BY DEF Abstract!Without
    <3> HIDE DEF map, after, gone, victim, without
    <3>3. Abstract!Put(without, key, entry.profile)
            = [k \in (DOMAIN map \ {victim}) \cup {key} |->
                 IF k = key THEN entry.profile ELSE without[k]]
      BY <3>2 DEF Abstract!Put
    <3>4. after = Abstract!Put(without, key, entry.profile)
      <4>1. \A k \in (DOMAIN map \ {victim}) \cup {key} : k # key => without[k] = map[k]
        BY <3>2
      <4> QED
        BY <1>4, <3>1, <3>3, <4>1
    <3>5. after \in Abstract!Learned(map, key, actual, now)
      BY <2>1, <2>2, <3>1, <3>4 DEF Abstract!Learned, without
    <3> QED
      BY <3>5 DEF map, after
  <2> QED
    BY <2>4, <2>5
<1> QED
  BY <1>2, <1>6, <1>7

-----------------------------------------------------------------------------
(* A restore is one of the abstract cache.                                 *)

\* The parts of Abstract!Merged.
MergedFrom(live, rows, map) ==
  LET all == DOMAIN live \cup DOMAIN rows
  IN  /\ DOMAIN map \subseteq all
      /\ Cardinality(DOMAIN map) = Smaller(Cardinality(all), Capacity)
      /\ \A key \in DOMAIN map : map[key] = Abstract!Newer(live, rows, key)
      /\ \A key \in DOMAIN map, dropped \in all \ DOMAIN map :
           Abstract!Newer(live, rows, dropped).lastSeen <= map[key].lastSeen

LEMMA SameMerged ==
  ASSUME NEW live, NEW rows, NEW map
  PROVE  Abstract!Merged(live, rows, map) <=> MergedFrom(live, rows, map)
  BY SameCount DEF Abstract!Merged, MergedFrom, Abstract!Smaller, Smaller

LEMMA MapFacts ==
  ASSUME NEW map \in Maps
  PROVE  /\ IsFiniteSet(DOMAIN map) /\ DOMAIN map \subseteq Keys
         /\ \A key \in DOMAIN map : map[key] \in Profile /\ map[key].lastSeen \in Nat
<1>1. PICK keys \in {ks \in SUBSET Keys : IsFiniteSet(ks)} : map \in [keys -> Profile]
  BY DEF Maps
<1>2. DOMAIN map = keys
  BY <1>1
<1> QED
  BY <1>1, <1>2 DEF Profile

\* One more row changes what is newer for its own key only.
NewerWith(live, rows, more, key, profile) ==
  /\ \A other \in DOMAIN live \cup DOMAIN rows :
       other # key => Abstract!Newer(live, more, other) = Abstract!Newer(live, rows, other)
  /\ key \in DOMAIN live =>
       /\ Abstract!Newer(live, rows, key) = live[key]
       /\ Abstract!Newer(live, more, key)
            = IF live[key].lastSeen > profile.lastSeen THEN live[key] ELSE profile
  /\ key \notin DOMAIN live => Abstract!Newer(live, more, key) = profile
  /\ DOMAIN more = DOMAIN rows \cup {key}

LEMMA NewerWithRow ==
  ASSUME NEW live, NEW rows, NEW key, NEW profile, key \notin DOMAIN rows,
         NEW more, more = Abstract!Put(rows, key, profile)
  PROVE  NewerWith(live, rows, more, key, profile)
<1>1. /\ DOMAIN more = DOMAIN rows \cup {key} /\ more[key] = profile
      /\ \A other \in DOMAIN rows : other # key => more[other] = rows[other]
  BY DEF Abstract!Put
<1> QED
  BY <1>1 DEF NewerWith, Abstract!Newer

LEMMA NewerIsProfile ==
  ASSUME NEW live \in Maps, NEW rows \in Maps, NEW key \in DOMAIN live \cup DOMAIN rows
  PROVE  Abstract!Newer(live, rows, key).lastSeen \in Nat
  BY MapFacts DEF Abstract!Newer

LEMMA AllKeysAreFinite ==
  ASSUME NEW live \in Maps, NEW rows \in Maps
  PROVE  /\ IsFiniteSet(DOMAIN live \cup DOMAIN rows)
         /\ Cardinality(DOMAIN live \cup DOMAIN rows) \in Nat
<1>1. IsFiniteSet(DOMAIN live) /\ IsFiniteSet(DOMAIN rows)
  BY MapFacts
<1>2. IsFiniteSet(DOMAIN live \cup DOMAIN rows)
  BY <1>1, FS_Union
<1> QED
  BY <1>2, FS_CardinalityType

\* The row is older than the entry in its place, and dropped.
RowDropped(map, key, profile) ==
  \/ key \in DOMAIN map /\ map[key].lastSeen > profile.lastSeen
  \/ /\ key \notin DOMAIN map /\ Cardinality(DOMAIN map) = Capacity
     /\ \A other \in DOMAIN map : map[other].lastSeen > profile.lastSeen

LEMMA DroppedRowIsMerged ==
  ASSUME NEW live \in Maps, NEW rows \in Maps, NEW map \in Maps, MergedFrom(live, rows, map),
         NEW key \in Keys, NEW profile \in Profile, key \notin DOMAIN rows,
         RowDropped(map, key, profile),
         NEW more, more = Abstract!Put(rows, key, profile)
  PROVE  MergedFrom(live, more, map)
<1> DEFINE all == DOMAIN live \cup DOMAIN rows
<1>1. NewerWith(live, rows, more, key, profile)
  BY NewerWithRow
<1>2. DOMAIN live \cup DOMAIN more = all \cup {key}
  BY <1>1 DEF NewerWith
<1>3. /\ DOMAIN map \subseteq all
      /\ Cardinality(DOMAIN map) = Smaller(Cardinality(all), Capacity)
      /\ \A k \in DOMAIN map : map[k] = Abstract!Newer(live, rows, k)
      /\ \A k \in DOMAIN map, dropped \in all \ DOMAIN map :
           Abstract!Newer(live, rows, dropped).lastSeen <= map[k].lastSeen
  BY DEF MergedFrom
<1>4. profile.lastSeen \in Nat /\ \A k \in DOMAIN map : map[k].lastSeen \in Nat
  BY MapFacts DEF Profile
<1>5. IsFiniteSet(all) /\ Cardinality(all) \in Nat
  BY AllKeysAreFinite
<1> HIDE DEF all
<1>6. CASE key \in DOMAIN map /\ map[key].lastSeen > profile.lastSeen
  <2>1. key \in all /\ all \cup {key} = all /\ key \in DOMAIN live
    BY <1>3, <1>6 DEF all
  <2>2. map[key] = live[key] /\ Abstract!Newer(live, more, key) = live[key]
    BY <1>1, <1>3, <1>6, <2>1 DEF NewerWith
  <2>3. \A k \in DOMAIN map : map[k] = Abstract!Newer(live, more, k)
    BY <1>1, <1>3, <2>2 DEF NewerWith, all
  <2>4. \A k \in DOMAIN map, dropped \in all \ DOMAIN map :
          Abstract!Newer(live, more, dropped).lastSeen <= map[k].lastSeen
    BY <1>1, <1>3, <1>6 DEF NewerWith, all
  <2> QED
    BY <1>2, <1>3, <2>1, <2>3, <2>4 DEF MergedFrom
<1>7. CASE /\ key \notin DOMAIN map /\ Cardinality(DOMAIN map) = Capacity
           /\ \A other \in DOMAIN map : map[other].lastSeen > profile.lastSeen
  <2>1. Cardinality(DOMAIN map) = Smaller(Cardinality(all \cup {key}), Capacity)
    <3>1. /\ Cardinality(all \cup {key}) \in {Cardinality(all), Cardinality(all) + 1}
      BY <1>5, FS_AddElement
    <3> QED
      BY <1>3, <1>5, <1>7, <3>1, CapacityAssumption DEF Smaller
  <2>2. \A k \in DOMAIN map : map[k] = Abstract!Newer(live, more, k)
    BY <1>1, <1>3, <1>7 DEF NewerWith, all
  <2>3. ASSUME NEW k \in DOMAIN map
        PROVE  Abstract!Newer(live, more, key).lastSeen <= map[k].lastSeen
    <3>1. map[k].lastSeen > profile.lastSeen
      BY <1>7
    <3>2. CASE key \in DOMAIN live /\ live[key].lastSeen > profile.lastSeen
      <4>1. key \in all \ DOMAIN map
        BY <1>7, <3>2 DEF all
      <4>2. Abstract!Newer(live, rows, key).lastSeen <= map[k].lastSeen
        BY <1>3, <4>1
      <4> QED
        BY <1>1, <3>2, <4>2 DEF NewerWith
    <3>3. CASE ~(key \in DOMAIN live /\ live[key].lastSeen > profile.lastSeen)
      <4>1. Abstract!Newer(live, more, key) = profile
        BY <1>1, <3>3 DEF NewerWith
      <4> QED
        BY <1>4, <3>1, <4>1
    <3> QED
      BY <3>2, <3>3
  <2>4. \A k \in DOMAIN map, dropped \in (all \cup {key}) \ DOMAIN map :
          Abstract!Newer(live, more, dropped).lastSeen <= map[k].lastSeen
    BY <1>1, <1>3, <2>3 DEF NewerWith, all
  <2> QED
    BY <1>2, <1>3, <2>1, <2>2, <2>4 DEF MergedFrom
<1> QED
  BY <1>6, <1>7 DEF RowDropped

\* The row replaces an entry of its key, takes room, or takes the place of a
\* least recently seen entry.
RowTaken(map, gone, key, profile) ==
  \/ key \in DOMAIN map /\ gone = {key} /\ map[key].lastSeen <= profile.lastSeen
  \/ key \notin DOMAIN map /\ gone = {} /\ Cardinality(DOMAIN map) < Capacity
  \/ /\ key \notin DOMAIN map /\ Cardinality(DOMAIN map) = Capacity
     /\ \E victim \in DOMAIN map :
          /\ gone = {victim} /\ map[victim].lastSeen <= profile.lastSeen
          /\ \A other \in DOMAIN map : map[victim].lastSeen <= map[other].lastSeen

LEMMA TakenRowIsMerged ==
  ASSUME NEW live \in Maps, NEW rows \in Maps, NEW map \in Maps, MergedFrom(live, rows, map),
         NEW key \in Keys, NEW profile \in Profile, key \notin DOMAIN rows,
         NEW gone, RowTaken(map, gone, key, profile),
         NEW after, Replaces(map, after, gone, key, profile),
         NEW more, more = Abstract!Put(rows, key, profile)
  PROVE  MergedFrom(live, more, after)
<1> DEFINE all == DOMAIN live \cup DOMAIN rows
<1>1. NewerWith(live, rows, more, key, profile)
  BY NewerWithRow
<1>2. DOMAIN live \cup DOMAIN more = all \cup {key}
  BY <1>1 DEF NewerWith
<1>3. /\ DOMAIN map \subseteq all
      /\ Cardinality(DOMAIN map) = Smaller(Cardinality(all), Capacity)
      /\ \A k \in DOMAIN map : map[k] = Abstract!Newer(live, rows, k)
      /\ \A k \in DOMAIN map, dropped \in all \ DOMAIN map :
           Abstract!Newer(live, rows, dropped).lastSeen <= map[k].lastSeen
  BY DEF MergedFrom
<1>4. profile.lastSeen \in Nat /\ \A k \in DOMAIN map : map[k].lastSeen \in Nat
  BY MapFacts DEF Profile
<1>5. /\ IsFiniteSet(all) /\ Cardinality(all) \in Nat
      /\ IsFiniteSet(DOMAIN map) /\ Cardinality(DOMAIN map) \in Nat
  BY AllKeysAreFinite, MapFacts, FS_CardinalityType
<1>6. /\ DOMAIN after = (DOMAIN map \ gone) \cup {key} /\ after[key] = profile
      /\ \A k \in DOMAIN map \ gone : k # key => after[k] = map[k]
  BY DEF Replaces
<1>7. \A k \in all : Abstract!Newer(live, rows, k).lastSeen \in Nat
  BY NewerIsProfile
<1>8. \A k \in all : k # key => Abstract!Newer(live, more, k) = Abstract!Newer(live, rows, k)
  BY <1>1 DEF NewerWith
<1> HIDE DEF all
<1>9. CASE key \in DOMAIN map /\ gone = {key} /\ map[key].lastSeen <= profile.lastSeen
  <2>1. key \in all /\ all \cup {key} = all /\ key \in DOMAIN live /\ DOMAIN after = DOMAIN map
    BY <1>3, <1>6, <1>9 DEF all
  <2>2. map[key] = live[key] /\ Abstract!Newer(live, more, key) = profile
    BY <1>1, <1>3, <1>4, <1>9, <2>1 DEF NewerWith
  <2>3. \A k \in DOMAIN after : after[k] = Abstract!Newer(live, more, k)
    BY <1>3, <1>6, <1>8, <1>9, <2>1, <2>2
  <2>4. ASSUME NEW k \in DOMAIN after, NEW dropped \in all \ DOMAIN after
        PROVE  Abstract!Newer(live, more, dropped).lastSeen <= after[k].lastSeen
    <3>1. /\ Abstract!Newer(live, more, dropped) = Abstract!Newer(live, rows, dropped)
          /\ Abstract!Newer(live, rows, dropped).lastSeen <= map[k].lastSeen
          /\ Abstract!Newer(live, rows, dropped).lastSeen \in Nat
          /\ k \in DOMAIN map
      BY <1>3, <1>7, <1>8, <1>9, <2>1
    <3>2. CASE k = key
      BY <1>4, <1>6, <1>9, <3>1, <3>2
    <3>3. CASE k # key
      BY <1>6, <1>9, <3>1, <3>3
    <3> QED
      BY <3>2, <3>3
  <2> QED
    BY <1>2, <1>3, <2>1, <2>3, <2>4 DEF MergedFrom
<1>10. CASE key \notin DOMAIN map /\ gone = {} /\ Cardinality(DOMAIN map) < Capacity
  <2>1. DOMAIN map = all
    <3>1. Cardinality(DOMAIN map) = Cardinality(all)
      BY <1>3, <1>5, <1>10, CapacityAssumption DEF Smaller
    <3> QED
      BY <1>3, <1>5, <3>1, FS_Subset
  <2>2. DOMAIN after = all \cup {key} /\ key \notin all
    BY <1>6, <1>10, <2>1
  <2>3. Cardinality(DOMAIN after) = Smaller(Cardinality(all \cup {key}), Capacity)
    <3>1. Cardinality(all \cup {key}) = Cardinality(all) + 1
      BY <1>5, <2>2, FS_AddElement
    <3> QED
      BY <1>5, <1>10, <2>1, <2>2, <3>1, CapacityAssumption DEF Smaller
  <2>4. Abstract!Newer(live, more, key) = profile
    BY <1>1, <2>2 DEF NewerWith, all
  <2>5. \A k \in DOMAIN after : after[k] = Abstract!Newer(live, more, k)
    BY <1>3, <1>6, <1>8, <1>10, <2>1, <2>2, <2>4
  <2> QED
    BY <1>2, <2>2, <2>3, <2>5 DEF MergedFrom
<1>11. CASE /\ key \notin DOMAIN map /\ Cardinality(DOMAIN map) = Capacity
            /\ \E victim \in DOMAIN map :
                 /\ gone = {victim} /\ map[victim].lastSeen <= profile.lastSeen
                 /\ \A other \in DOMAIN map : map[victim].lastSeen <= map[other].lastSeen
  <2>1. PICK victim \in DOMAIN map :
          /\ gone = {victim} /\ map[victim].lastSeen <= profile.lastSeen
          /\ \A other \in DOMAIN map : map[victim].lastSeen <= map[other].lastSeen
    BY <1>11
  <2>2. Cardinality(DOMAIN after) = Smaller(Cardinality(all \cup {key}), Capacity)
    <3>1. /\ IsFiniteSet(DOMAIN map \ {victim})
          /\ Cardinality(DOMAIN map \ {victim}) = Capacity - 1
      BY <1>5, <1>11, FS_RemoveElement
    <3>2. Cardinality((DOMAIN map \ {victim}) \cup {key}) = Capacity - 1 + 1
      BY <1>11, <3>1, FS_AddElement
    <3>3. Cardinality(DOMAIN after) = Capacity
      BY <1>6, <2>1, <3>2, CapacityAssumption
    <3>4. Cardinality(all \cup {key}) \in {Cardinality(all), Cardinality(all) + 1}
      BY <1>5, FS_AddElement
    <3> QED
      BY <1>3, <1>5, <1>11, <3>3, <3>4, CapacityAssumption DEF Smaller
  <2>3. Abstract!Newer(live, more, key) = profile
    <3>1. CASE key \notin DOMAIN live
      BY <1>1, <3>1 DEF NewerWith
    <3>2. CASE key \in DOMAIN live
      <4>1. key \in all \ DOMAIN map
        BY <1>11, <3>2 DEF all
      <4>2. live[key].lastSeen <= map[victim].lastSeen /\ live[key].lastSeen \in Nat
        BY <1>1, <1>3, <1>7, <3>2, <4>1 DEF NewerWith
      <4>3. ~(live[key].lastSeen > profile.lastSeen)
        BY <1>4, <2>1, <4>2
      <4> QED
        BY <1>1, <3>2, <4>3 DEF NewerWith
    <3> QED
      BY <3>1, <3>2
  <2>4. DOMAIN after \subseteq all \cup {key}
    BY <1>3, <1>6
  <2>5. \A k \in DOMAIN after : after[k] = Abstract!Newer(live, more, k)
    BY <1>3, <1>6, <1>8, <2>3
  <2>6. ASSUME NEW k \in DOMAIN after
        PROVE  map[victim].lastSeen <= after[k].lastSeen /\ after[k].lastSeen \in Nat
    BY <1>4, <1>6, <2>1
  <2>7. ASSUME NEW dropped \in (all \cup {key}) \ DOMAIN after
        PROVE  /\ Abstract!Newer(live, more, dropped).lastSeen <= map[victim].lastSeen
               /\ Abstract!Newer(live, more, dropped).lastSeen \in Nat
    <3>1. dropped # key /\ dropped \in all
      BY <1>6
    <3>2. /\ Abstract!Newer(live, more, dropped) = Abstract!Newer(live, rows, dropped)
          /\ Abstract!Newer(live, rows, dropped).lastSeen \in Nat
      BY <1>7, <1>8, <3>1
    <3>3. CASE dropped = victim
      BY <1>3, <1>4, <3>2, <3>3
    <3>4. CASE dropped # victim
      <4>1. dropped \in all \ DOMAIN map
        BY <1>6, <2>1, <3>1, <3>4
      <4> QED
        BY <1>3, <3>2, <4>1
    <3> QED
      BY <3>3, <3>4
  <2>8. \A k \in DOMAIN after, dropped \in (all \cup {key}) \ DOMAIN after :
          Abstract!Newer(live, more, dropped).lastSeen <= after[k].lastSeen
    BY <1>4, <2>6, <2>7
  <2> QED
    BY <1>2, <2>2, <2>4, <2>5, <2>8 DEF MergedFrom
<1> QED
  BY <1>9, <1>10, <1>11 DEF RowTaken

\* One row of a restore is dropped or taken, as the abstract cache merges it.
RowMergedInto(map, after, key, profile) ==
  \/ after = map /\ RowDropped(map, key, profile)
  \/ \E gone : RowTaken(map, gone, key, profile) /\ Replaces(map, after, gone, key, profile)

LEMMA RestoredRowIsMerged ==
  ASSUME NEW table, GoodTable(table), NEW row \in Rows
  PROVE  RowMergedInto(MapOf(table), MapOf(UpsertRestored(table, row)), row.key, row.profile)
<1>1. PICK key \in Keys, actual \in Actuals, time \in 0..MaxTime :
        row = [key |-> key, profile |-> NewProfile(actual, time)]
  BY DEF Rows
<1>2. /\ row.key = key /\ row.profile \in Profile /\ MeanOK(row.profile) /\ row \in Entry
      /\ row.profile.lastSeen \in Nat
  <2>1. time \in Nat
    BY CacheAssumption
  <2>2. NewProfile(actual, time) \in Profile /\ MeanOK(NewProfile(actual, time))
    BY <2>1, NewProfileOK
  <2> QED
    BY <1>1, <2>2 DEF Entry, Profile
<1> DEFINE own == SlotsOfKey(table, key)
           slot == IF own # {} THEN First(own) ELSE InsertionSlot(table)
           map == MapOf(table)
           after == MapOf(UpsertRestored(table, row))
           profile == row.profile
<1>3. /\ table \in Tables /\ own \subseteq Slots
      /\ \A s \in own : s \in Occupied(table) /\ table[s].key = key
      /\ \A s \in Occupied(table) \ own : table[s].key # key
  BY SlotsOfKeyFacts DEF GoodTable
<1>4. own # {} => slot \in own
  <2>1. own # {} => First(own) \in own
    <3> HIDE DEF own
    <3> QED
      BY <1>3, FirstIsLeast
  <2> QED
    BY <2>1
<1>5. own = {} =>
        /\ slot \in Slots
        /\ slot \notin Occupied(table) => Cardinality(DOMAIN map) < Capacity
        /\ slot \in Occupied(table) =>
             /\ Cardinality(DOMAIN map) = Capacity
             /\ table[slot].key \in Abstract!LeastRecent(map)
  BY InsertionMakesRoom
<1>6. slot \in Slots
  BY <1>3, <1>4, <1>5
<1>7. \A other \in Occupied(table) \ {slot} : table[other].key # row.key
  BY <1>2, <1>3, <1>4 DEF GoodTable
<1>8. UpsertRestored(table, row) =
        IF table[slot] # Free /\ table[slot].profile.lastSeen > profile.lastSeen
        THEN table ELSE [table EXCEPT ![slot] = row]
  BY <1>2 DEF UpsertRestored
<1>9. slot \in Occupied(table) <=> table[slot] # Free
  BY <1>6 DEF Occupied
<1>10. /\ slot \in Occupied(table) =>
            /\ table[slot].key \in DOMAIN map /\ map[table[slot].key] = table[slot].profile
            /\ table[slot].profile.lastSeen \in Nat
       /\ key \in DOMAIN map <=> own # {}
       /\ \A k \in DOMAIN map : map[k].lastSeen \in Nat
  <2>1. slot \in Occupied(table) =>
          table[slot].key \in DOMAIN map /\ map[table[slot].key] = table[slot].profile
    BY MapEntries
  <2>2. slot \in Occupied(table) => table[slot].profile.lastSeen \in Nat
    BY <1>3, OccupiedHasEntry DEF Entry, Profile
  <2>3. key \in DOMAIN map <=> own # {}
    <3>1. DOMAIN map = KeysOf(table)
      BY MapEntries
    <3>2. key \in KeysOf(table) <=> own # {}
      BY DEF KeysOf, SlotsOfKey
    <3> QED
      BY <3>1, <3>2
  <2>4. \A k \in DOMAIN map : map[k].lastSeen \in Nat
    BY MapIsMap, MapFacts
  <2> QED
    BY <2>1, <2>2, <2>3, <2>4
<1>11. own = {} /\ slot \in Occupied(table) =>
         /\ table[slot].key \in DOMAIN map
         /\ \A other \in DOMAIN map : map[table[slot].key].lastSeen <= map[other].lastSeen
  BY <1>5 DEF Abstract!LeastRecent
<1> HIDE DEF slot
<1>12. CASE table[slot] # Free /\ table[slot].profile.lastSeen > profile.lastSeen
  <2>1. after = map
    BY <1>8, <1>12
  <2>2. slot \in Occupied(table)
    BY <1>9, <1>12
  <2> HIDE DEF map, after, profile, own
  <2>3. CASE own # {}
    <3>1. table[slot].key = key /\ key \in DOMAIN map
      BY <1>3, <1>4, <1>10, <2>3
    <3>2. RowDropped(map, key, profile)
      BY <1>10, <1>12, <2>2, <3>1 DEF RowDropped
    <3> QED
      BY <1>2, <2>1, <3>2 DEF RowMergedInto, map, after, profile
  <2>4. CASE own = {}
    <3>1. key \notin DOMAIN map /\ Cardinality(DOMAIN map) = Capacity
      BY <1>5, <1>10, <2>2, <2>4
    <3>2. \A other \in DOMAIN map : map[other].lastSeen > profile.lastSeen
      <4>1. profile.lastSeen \in Nat
        BY <1>2 DEF profile
      <4> QED
        BY <1>10, <1>11, <1>12, <2>2, <2>4, <4>1
    <3>3. RowDropped(map, key, profile)
      BY <3>1, <3>2 DEF RowDropped
    <3> QED
      BY <1>2, <2>1, <3>3 DEF RowMergedInto, map, after, profile
  <2> QED
    BY <2>3, <2>4
<1>13. CASE ~(table[slot] # Free /\ table[slot].profile.lastSeen > profile.lastSeen)
  <2> DEFINE gone == KeysGone(table, slot)
  <2>1. Replaces(map, after, gone, key, profile)
    <3>1. UpsertRestored(table, row) = [table EXCEPT ![slot] = row]
      BY <1>8, <1>13
    <3> QED
      BY <1>2, <1>6, <1>7, <3>1, PutReplaces
  <2>2. slot \in Occupied(table) => table[slot].profile.lastSeen <= profile.lastSeen
    <3>1. profile.lastSeen \in Nat
      BY <1>2
    <3> HIDE DEF profile
    <3> QED
      BY <1>9, <1>10, <1>13, <3>1
  <2> HIDE DEF map, after, profile, own
  <2>3. RowTaken(map, gone, key, profile)
    <3>1. CASE own # {}
      <4>1. /\ slot \in Occupied(table) /\ table[slot].key = key /\ key \in DOMAIN map
            /\ gone = {key}
        BY <1>3, <1>4, <1>10, <3>1 DEF KeysGone
      <4> QED
        BY <1>10, <2>2, <4>1 DEF RowTaken
    <3>2. CASE own = {} /\ slot \notin Occupied(table)
      BY <1>5, <1>10, <3>2 DEF RowTaken, KeysGone
    <3>3. CASE own = {} /\ slot \in Occupied(table)
      <4>1. /\ key \notin DOMAIN map /\ Cardinality(DOMAIN map) = Capacity
            /\ gone = {table[slot].key} /\ table[slot].key \in DOMAIN map
            /\ map[table[slot].key].lastSeen <= profile.lastSeen
        BY <1>5, <1>10, <2>2, <3>3 DEF KeysGone
      <4> QED
        BY <1>11, <3>3, <4>1 DEF RowTaken
    <3> QED
      BY <3>1, <3>2, <3>3
  <2> HIDE DEF gone
  <2>4. RowMergedInto(map, after, key, profile)
    BY <2>1, <2>3 DEF RowMergedInto
  <2> QED
    BY <1>2, <2>4 DEF map, after, profile
<1> QED
  BY <1>12, <1>13

LEMMA RowKeepsMerged ==
  ASSUME NEW live \in Maps, NEW rows \in Maps, NEW map \in Maps, MergedFrom(live, rows, map),
         NEW key \in Keys, NEW profile \in Profile, key \notin DOMAIN rows,
         NEW after, RowMergedInto(map, after, key, profile),
         NEW more, more = Abstract!Put(rows, key, profile)
  PROVE  MergedFrom(live, more, after)
<1>1. CASE after = map /\ RowDropped(map, key, profile)
  BY <1>1, DroppedRowIsMerged
<1>2. CASE \E gone : /\ RowTaken(map, gone, key, profile)
                     /\ Replaces(map, after, gone, key, profile)
  BY <1>2, TakenRowIsMerged
<1> QED
  BY <1>1, <1>2 DEF RowMergedInto

\* The rows of a subset of the sequence, as the map that the durable table is.
RowsOf(rows, s) ==
  [key \in {rows[i].key : i \in s} |-> rows[CHOOSE i \in s : rows[i].key = key].profile]

LEMMA RowsOfAreRows ==
  ASSUME NEW rows \in RowSequences, NEW s, s \subseteq DOMAIN rows
  PROVE  /\ \A i \in s : rows[i] \in Rows /\ RowsOf(rows, s)[rows[i].key] = rows[i].profile
         /\ DOMAIN RowsOf(rows, s) = {rows[i].key : i \in s}
<1>1. PICK n \in 0..MaxRows : rows \in [1..n -> Rows]
  BY DEF RowSequences
<1>2. \A i, j \in DOMAIN rows : i < j => rows[i].key # rows[j].key
  BY DEF RowSequences
<1>3. DOMAIN rows = 1..n
  BY <1>1
<1>4. ASSUME NEW i \in s, NEW j \in s, rows[i].key = rows[j].key PROVE i = j
  <2>1. i \in 1..n /\ j \in 1..n
    BY <1>3
  <2>2. ~(i < j) /\ ~(j < i)
    BY <1>2, <1>4
  <2> QED
    BY <2>1, <2>2
<1>5. ASSUME NEW i \in s
      PROVE  rows[i] \in Rows /\ RowsOf(rows, s)[rows[i].key] = rows[i].profile
  <2>1. (CHOOSE j \in s : rows[j].key = rows[i].key) = i
    BY <1>4
  <2>2. rows[i] \in Rows
    BY <1>1, <1>3
  <2> QED
    BY <2>1, <2>2 DEF RowsOf
<1> QED
  BY <1>5 DEF RowsOf

LEMMA LastRowIsPut ==
  ASSUME NEW rows \in RowSequences, NEW s, s \subseteq DOMAIN rows, NEW last \in s
  PROVE  /\ rows[last].key \notin DOMAIN RowsOf(rows, s \ {last})
         /\ RowsOf(rows, s) = Abstract!Put(RowsOf(rows, s \ {last}), rows[last].key,
                                           rows[last].profile)
<1> DEFINE before == s \ {last}
           key == rows[last].key
           with == Abstract!Put(RowsOf(rows, before), key, rows[last].profile)
<1>1. PICK n \in 0..MaxRows : rows \in [1..n -> Rows]
  BY DEF RowSequences
<1>2. \A i, j \in DOMAIN rows : i < j => rows[i].key # rows[j].key
  BY DEF RowSequences
<1>3. ASSUME NEW i \in before PROVE rows[i].key # key
  <2>1. i \in 1..n /\ last \in 1..n /\ i # last
    BY <1>1
  <2>2. i < last \/ last < i
    BY <2>1
  <2> QED
    BY <1>1, <1>2, <2>1, <2>2
<1>4. /\ \A i \in s : RowsOf(rows, s)[rows[i].key] = rows[i].profile
      /\ DOMAIN RowsOf(rows, s) = {rows[i].key : i \in s}
  BY RowsOfAreRows
<1>5. /\ \A i \in before : RowsOf(rows, before)[rows[i].key] = rows[i].profile
      /\ DOMAIN RowsOf(rows, before) = {rows[i].key : i \in before}
  <2>1. before \subseteq DOMAIN rows
    OBVIOUS
  <2> HIDE DEF before
  <2> QED
    BY <2>1, RowsOfAreRows
<1>6. key \notin DOMAIN RowsOf(rows, before)
  BY <1>3, <1>5
<1>7. with = [k \in DOMAIN RowsOf(rows, before) \cup {key} |->
                IF k = key THEN rows[last].profile ELSE RowsOf(rows, before)[k]]
  BY DEF Abstract!Put
<1>8. DOMAIN RowsOf(rows, s) = DOMAIN RowsOf(rows, before) \cup {key}
  BY <1>4, <1>5
<1>9. ASSUME NEW k \in DOMAIN RowsOf(rows, s) PROVE RowsOf(rows, s)[k] = with[k]
  <2>1. CASE k = key
    BY <1>4, <1>7, <1>8, <2>1
  <2>2. CASE k # key
    <3>1. PICK i \in before : rows[i].key = k
      BY <1>5, <1>8, <2>2
    <3> QED
      BY <1>4, <1>5, <1>7, <1>8, <2>2, <3>1
  <2> QED
    BY <2>1, <2>2
<1>10. RowsOf(rows, s) = [k \in DOMAIN RowsOf(rows, s) |-> RowsOf(rows, s)[k]]
  BY DEF RowsOf
<1>11. DOMAIN with = DOMAIN RowsOf(rows, s) /\ with = [k \in DOMAIN with |-> with[k]]
  BY <1>7, <1>8
<1>12. RowsOf(rows, s) = with
  <2> DEFINE all == RowsOf(rows, s)
  <2> HIDE DEF all, with
  <2>1. /\ all = [k \in DOMAIN all |-> all[k]] /\ with = [k \in DOMAIN with |-> with[k]]
        /\ DOMAIN with = DOMAIN all /\ \A k \in DOMAIN all : all[k] = with[k]
    BY <1>9, <1>10, <1>11 DEF all
  <2>2. all = with
    BY <2>1
  <2> QED
    BY <2>2 DEF all
<1> QED
  BY <1>6, <1>12

LEMMA RowsOfIsMap ==
  ASSUME NEW rows \in RowSequences, NEW s, s \subseteq DOMAIN rows
  PROVE  /\ RowsOf(rows, s) \in Maps
         /\ RowsOf(rows, s) \in Abstract!RowMaps
<1> DEFINE keys == {rows[i].key : i \in s}
           map == RowsOf(rows, s)
           Restored == [calls : {1}, ewma : Actuals, max : Actuals, lastSeen : 0..MaxTime]
<1>1. PICK n \in 0..MaxRows : rows \in [1..n -> Rows]
  BY DEF RowSequences
<1>2. MaxRows \in Nat /\ n \in Nat /\ n <= MaxRows /\ s \subseteq 1..n
  BY <1>1, CacheAssumption, CapacityAssumption
<1>3. IsFiniteSet(s) /\ Cardinality(s) <= n /\ Cardinality(s) \in Nat
  <2>1. IsFiniteSet(1..n) /\ Cardinality(1..n) = n
    BY <1>2, FS_Interval
  <2>2. IsFiniteSet(s) /\ Cardinality(s) <= n
    BY <1>2, <2>1, FS_Subset
  <2> QED
    BY <2>2, FS_CardinalityType
<1>4. IsFiniteSet(keys) /\ Cardinality(keys) <= MaxRows
  <2> DEFINE of == [i \in s |-> rows[i].key]
  <2>1. of \in [s -> keys]
    OBVIOUS
  <2>2. \A key \in keys : \E i \in s : of[i] = key
    OBVIOUS
  <2>3. of \in Surjection(s, keys)
    <3> HIDE DEF of, keys
    <3> QED
      BY <2>1, <2>2 DEF Surjection
  <2>4. IsFiniteSet(keys) /\ Cardinality(keys) <= Cardinality(s)
    <3> HIDE DEF of, keys
    <3> QED
      BY <1>3, <2>3, FS_Surjection
  <2>5. Cardinality(keys) \in Nat
    <3> HIDE DEF keys
    <3> QED
      BY <2>4, FS_CardinalityType
  <2> QED
    BY <1>2, <1>3, <2>4, <2>5
<1>5. /\ \A i \in s : rows[i] \in Rows /\ map[rows[i].key] = rows[i].profile
      /\ DOMAIN map = keys /\ map = [key \in keys |-> map[key]]
  <2>1. map = [key \in keys |-> map[key]]
    BY DEF RowsOf
  <2> QED
    BY <2>1, RowsOfAreRows
<1>6. ASSUME NEW row \in Rows
      PROVE  row.key \in Keys /\ row.profile \in Profile /\ row.profile \in Restored
  <2>1. PICK key \in Keys, actual \in Actuals, time \in 0..MaxTime :
          row = [key |-> key, profile |-> NewProfile(actual, time)]
    BY DEF Rows
  <2>2. NewProfile(actual, time) \in Restored
    BY DEF NewProfile
  <2>3. time \in Nat
    BY CacheAssumption
  <2>4. NewProfile(actual, time) \in Profile
    BY <2>3, NewProfileOK
  <2> QED
    BY <2>1, <2>2, <2>4
<1> HIDE DEF map
<1>7. \A key \in keys : key \in Keys /\ map[key] \in Profile /\ map[key] \in Restored
  BY <1>5, <1>6
<1> HIDE DEF keys, Restored
<1>8. map \in [keys -> Profile] /\ map \in [keys -> Restored] /\ keys \in SUBSET Keys
  BY <1>5, <1>7
<1>9. map \in Maps
  BY <1>4, <1>8 DEF Maps
<1>10. map \in Abstract!RowMaps
  <2>1. Abstract!Keys = Keys
    BY DEF Abstract!Keys, Keys
  <2>2. Abstract!Cardinality(keys) <= MaxRows
    BY <1>4, SameCount
  <2>3. keys \in {ks \in SUBSET Abstract!Keys : Abstract!Cardinality(ks) <= MaxRows}
    BY <1>8, <2>1, <2>2
  <2> QED
    BY <1>8, <2>3 DEF Abstract!RowMaps, Restored
<1> QED
  BY <1>9, <1>10 DEF map

LEMMA NoRowsAreMerged ==
  ASSUME NEW table, GoodTable(table), NEW rows
  PROVE  MergedFrom(MapOf(table), RowsOf(rows, {}), MapOf(table))
<1> DEFINE map == MapOf(table)
<1>1. DOMAIN RowsOf(rows, {}) = {}
  BY DEF RowsOf
<1>2. Cardinality(DOMAIN map) <= Capacity /\ Cardinality(DOMAIN map) \in Nat
  BY MapIsMap
<1> HIDE DEF map
<1>3. DOMAIN map \cup DOMAIN RowsOf(rows, {}) = DOMAIN map
  BY <1>1
<1>4. Cardinality(DOMAIN map) = Smaller(Cardinality(DOMAIN map), Capacity)
  BY <1>2, CapacityAssumption DEF Smaller
<1>5. \A key \in DOMAIN map : map[key] = Abstract!Newer(map, RowsOf(rows, {}), key)
  BY <1>1 DEF Abstract!Newer
<1>6. MergedFrom(map, RowsOf(rows, {}), map)
  BY <1>3, <1>4, <1>5 DEF MergedFrom
<1> QED
  BY <1>6 DEF map

\* What the fold has made of the rows of every subset of the sequence.
MergedSoFar(table, rows, s, merged) ==
  GoodTable(merged) /\ MergedFrom(MapOf(table), RowsOf(rows, s), MapOf(merged))

LEMMA OneMoreRow ==
  ASSUME NEW table, GoodTable(table), NEW rows \in RowSequences, NEW s, s \subseteq DOMAIN rows,
         NEW last \in s, NEW merged, MergedSoFar(table, rows, s \ {last}, merged)
  PROVE  MergedSoFar(table, rows, s, UpsertRestored(merged, rows[last]))
<1> DEFINE before == s \ {last}
           after == UpsertRestored(merged, rows[last])
           key == rows[last].key
           profile == rows[last].profile
<1>1. /\ GoodTable(merged) /\ MergedFrom(MapOf(table), RowsOf(rows, before), MapOf(merged))
  BY DEF MergedSoFar
<1>2. rows[last] \in Rows /\ before \subseteq DOMAIN rows
  BY RowsOfAreRows
<1>3. key \in Keys /\ profile \in Profile
  <2>1. PICK k \in Keys, actual \in Actuals, time \in 0..MaxTime :
          rows[last] = [key |-> k, profile |-> NewProfile(actual, time)]
    BY <1>2 DEF Rows
  <2>2. time \in Nat
    BY CacheAssumption
  <2>3. NewProfile(actual, time) \in Profile
    BY <2>2, NewProfileOK
  <2> QED
    BY <2>1, <2>3
<1>4. GoodTable(after)
  BY <1>1, <1>2, RestoredKeepsGood
<1>5. RowMergedInto(MapOf(merged), MapOf(after), key, profile)
  BY <1>1, <1>2, RestoredRowIsMerged
<1>6. MapOf(table) \in Maps /\ MapOf(merged) \in Maps /\ RowsOf(rows, before) \in Maps
  <2> HIDE DEF before
  <2> QED
    BY <1>1, <1>2, MapIsMap, RowsOfIsMap
<1>7. /\ key \notin DOMAIN RowsOf(rows, before)
      /\ RowsOf(rows, s) = Abstract!Put(RowsOf(rows, before), key, profile)
  BY LastRowIsPut
<1> HIDE DEF before, after, key, profile
<1>8. MergedFrom(MapOf(table), RowsOf(rows, s), MapOf(after))
  BY <1>1, <1>3, <1>5, <1>6, <1>7, RowKeepsMerged
<1>9. MergedSoFar(table, rows, s, after)
  BY <1>4, <1>8 DEF MergedSoFar
<1> QED
  BY <1>9 DEF after

LEMMA RestoreIsMerged ==
  ASSUME NEW table, GoodTable(table), NEW rows \in RowSequences
  PROVE  MergedSoFar(table, rows, DOMAIN rows, RestoreAll(table, rows))
<1>1. PICK n \in 0..MaxRows : rows \in [1..n -> Rows]
  BY DEF RowSequences
<1>2. n \in Nat /\ DOMAIN rows = 1..n
  BY <1>1, CacheAssumption
<1> DEFINE D == 1..n
           merges == Merges(table, rows, D)
<1>3. AreMerges(merges, table, rows, D)
  BY <1>2, MergesExist
<1>4. IsFiniteSet(D)
  BY <1>2, FS_Interval
<1> DEFINE bad == {s \in SUBSET D : ~MergedSoFar(table, rows, s, merges[s])}
<1>5. bad = {}
  <2> SUFFICES ASSUME bad # {} PROVE FALSE
    OBVIOUS
  <2>1. PICK s \in bad : \A U \in SUBSET s : U # s => U \notin bad
    <3>1. bad \subseteq SUBSET D
      OBVIOUS
    <3> HIDE DEF bad, D
    <3> QED
      BY <1>4, <3>1, LeastSubset
  <2>2. s \in SUBSET D /\ ~MergedSoFar(table, rows, s, merges[s])
    OBVIOUS
  <2>3. s # {}
    <3> SUFFICES ASSUME s = {} PROVE FALSE
      OBVIOUS
    <3>1. merges[{}] = table
      <4> HIDE DEF merges, D, bad
      <4> QED
        BY <1>3, MergesOfNone
    <3>2. MergedSoFar(table, rows, {}, table)
      BY NoRowsAreMerged DEF MergedSoFar
    <3> HIDE DEF merges, D, bad
    <3> QED
      BY <2>2, <3>1, <3>2
  <2>4. Max(s) \in s
    BY <1>2, <2>2, <2>3, MaxIsOne
  <2>5. MergedSoFar(table, rows, s \ {Max(s)}, merges[s \ {Max(s)}])
    BY <2>1, <2>2, <2>4
  <2>6. merges[s] = UpsertRestored(merges[s \ {Max(s)}], rows[Max(s)])
    <3> HIDE DEF merges, D, bad
    <3>1. MergesUnfold(merges, rows, D)
      BY <1>3, MergesOfSome
    <3> QED
      BY <2>2, <2>3, <3>1 DEF MergesUnfold
  <2>7. s \subseteq DOMAIN rows
    BY <1>2, <2>2
  <2> HIDE DEF merges, D, bad
  <2> QED
    BY <2>2, <2>4, <2>5, <2>6, <2>7, OneMoreRow
<1>6. MergedSoFar(table, rows, D, merges[D])
  <2>1. D \in SUBSET D
    OBVIOUS
  <2> QED
    BY <1>5, <2>1
<1> QED
  BY <1>2, <1>6, RestoreIsAmongMerges

LEMMA EmptyTableIsEmptyMap == MapOf(EmptyTable) = [key \in {} |-> {}]
<1>1. KeysOf(EmptyTable) = {}
  BY DEF KeysOf, Occupied, EmptyTable
<1> QED
  BY <1>1 DEF MapOf

\* The array, with its search, its free slots and its evictions, is the map
\* that AbstractProfileCache promises: an observation learns in two keys, a
\* restore merges the newest that fit, whatever slots they are in.
THEOREM ArrayImplementsMap == Spec => ImplementsAbstractProfileCache
<1>1. Init => Abstract!Init
  BY EmptyTableIsEmptyMap DEF Init, Abstract!Init, Known
<1>2. CacheInv /\ [Next]_vars => [Abstract!Next]_Known
  <2> SUFFICES ASSUME CacheInv, [Next]_vars
               PROVE  [Abstract!Next]_Known
    OBVIOUS
  <2>0. GoodTable(profiles)
    BY DEF CacheInv
  <2>1. ASSUME NEW scope \in Scopes, NEW query \in Queries, NEW actual \in Actuals,
               NEW now \in 0..MaxTime, Observe(scope, query, actual, now)
        PROVE  Abstract!Next
    <3> DEFINE first == Upsert(profiles, <<scope, query>>, actual, now)
    <3>1. now \in Nat /\ <<scope, query>> \in Keys /\ <<Global, query>> \in Keys
      BY CacheAssumption DEF Keys
    <3>2. /\ GoodTable(first)
          /\ MapOf(first) \in Abstract!Learned(MapOf(profiles), <<scope, query>>, actual, now)
      BY <2>0, <3>1, UpsertKeepsGood, UpsertIsLearned
    <3>3. profiles' = Upsert(first, <<Global, query>>, actual, now)
      BY <2>1 DEF Observe, UpsertScopedAndGlobal
    <3> HIDE DEF first
    <3>4. MapOf(profiles') \in Abstract!Learned(MapOf(first), <<Global, query>>, actual, now)
      BY <3>1, <3>2, <3>3, UpsertIsLearned
    <3>5. Known = MapOf(profiles) /\ Known' = MapOf(profiles')
      BY DEF Known
    <3>6. Abstract!Observe(scope, query, actual, now)
      BY <3>2, <3>4, <3>5 DEF Abstract!Observe
    <3> QED
      BY <3>6 DEF Abstract!Next
  <2>2. ASSUME NEW rows \in RowSequences, Restore(rows)
        PROVE  Abstract!Next
    <3> DEFINE map == RowsOf(rows, DOMAIN rows)
    <3>1. profiles' = RestoreAll(profiles, rows)
      BY <2>2 DEF Restore
    <3>2. MergedSoFar(profiles, rows, DOMAIN rows, profiles')
      BY <2>0, <3>1, RestoreIsMerged
    <3>3. MergedFrom(MapOf(profiles), map, MapOf(profiles'))
      BY <3>2 DEF MergedSoFar
    <3>4. map \in Abstract!RowMaps
      BY RowsOfIsMap
    <3> HIDE DEF map
    <3>5. Abstract!Merged(Known, map, Known')
      BY <3>3, SameMerged DEF Known
    <3>6. Abstract!Restore(map)
      BY <3>5 DEF Abstract!Restore
    <3> QED
      BY <3>4, <3>6 DEF Abstract!Next
  <2>3. CASE Reset
    BY <2>3, EmptyTableIsEmptyMap DEF Reset, Abstract!Next, Abstract!Reset, Known
  <2>4. CASE UNCHANGED vars
    BY <2>4 DEF vars, Known
  <2> QED
    BY <2>1, <2>2, <2>3, <2>4 DEF Next
<1> QED
  BY <1>1, <1>2, CacheInvHolds, PTL DEF Spec, ImplementsAbstractProfileCache, Abstract!Spec

-----------------------------------------------------------------------------
(* The profile store: what one row or one observation does to the array.   *)

LEMMA ObservedProfile ==
  ASSUME NEW profile \in Profile, NEW actual \in Nat, NEW now \in Nat
  PROVE  RecordObservation(profile, actual, now) \in Profile
<1> DEFINE after == RecordObservation(profile, actual, now)
           old == profile.ewma
           low == Smaller(old, actual)
           high == Larger(old, actual)
<1>1. old \in Nat /\ profile.max \in Nat /\ profile.calls \in 1..MaxU64 /\ MaxU64 \in Nat \ {0}
  BY MaxU64Assumption DEF Profile
<1>2. low \in Nat /\ low <= old /\ low <= actual /\ high \in Nat /\ old <= high /\ actual <= high
  BY <1>1 DEF Smaller, Larger
<1> HIDE DEF low, high, old
<1>3. Ewma(old, actual) \in Nat
  BY <1>1, <1>2, EwmaBetween
<1>4. Smaller(profile.calls + 1, MaxU64) \in 1..MaxU64 /\ Larger(profile.max, actual) \in Nat
  BY <1>1 DEF Smaller, Larger
<1> QED
  BY <1>3, <1>4 DEF RecordObservation, Profile, old

LEMMA UpsertKeepsDistinct ==
  ASSUME NEW table, DistinctTable(table), NEW key \in Keys, NEW actual \in Nat, NEW now \in Nat,
         Capacity > 0
  PROVE  DistinctTable(Upsert(table, key, actual, now))
<1> DEFINE own == SlotsOfKey(table, key)
           after == Upsert(table, key, actual, now)
<1>1. /\ table \in Tables /\ own \subseteq Slots
      /\ \A slot \in own : slot \in Occupied(table) /\ table[slot].key = key
      /\ \A slot \in Occupied(table) \ own : table[slot].key # key
  BY SlotsOfKeyFacts DEF DistinctTable
<1>2. CASE own # {}
  <2> DEFINE slot == First(own)
             profile == RecordObservation(table[slot].profile, actual, now)
             entry == [key |-> key, profile |-> profile]
  <2>1. slot \in own /\ slot \in Slots /\ slot \in Occupied(table) /\ table[slot].key = key
    <3>1. slot \in own
      <4> HIDE DEF own
      <4> QED
        BY <1>1, <1>2, FirstIsLeast
    <3> QED
      BY <1>1, <3>1
  <2>2. table[slot] \in Entry /\ table[slot].profile \in Profile
    BY <1>1, <2>1, OccupiedHasEntry, EntryIsNotFree
  <2>3. profile \in Profile
    BY <2>2, ObservedProfile
  <2>4. after = [table EXCEPT ![slot].profile = profile]
    BY <1>2 DEF Upsert
  <2> HIDE DEF profile
  <2>5. entry \in Entry /\ entry.key = key
    BY <2>3 DEF Entry
  <2>6. [table EXCEPT ![slot].profile = profile] = [table EXCEPT ![slot] = entry]
    <3>1. [table[slot] EXCEPT !.profile = profile] = entry
      BY <2>1, <2>2 DEF Entry
    <3> QED
      BY <3>1
  <2>7. \A other \in Occupied(table) \ {slot} : table[other].key # entry.key
    BY <2>1, <2>5 DEF DistinctTable
  <2> HIDE DEF entry, slot, own, after
  <2> QED
    BY <1>1, <2>1, <2>4, <2>5, <2>6, <2>7, PutPuts, PutKeepsDistinct DEF after
<1>3. CASE own = {}
  <2> DEFINE slot == InsertionSlot(table)
             entry == [key |-> key, profile |-> NewProfile(actual, now)]
  <2>1. slot \in Slots
    BY <1>1, InsertionSlotFacts
  <2>2. NewProfile(actual, now) \in Profile
    BY MaxU64Assumption DEF NewProfile, Profile
  <2>3. entry \in Entry /\ entry.key = key
    BY <2>2 DEF Entry
  <2>4. after = [table EXCEPT ![slot] = entry]
    BY <1>3 DEF Upsert
  <2>5. \A other \in Occupied(table) \ {slot} : table[other].key # entry.key
    BY <1>1, <1>3, <2>3
  <2> HIDE DEF entry, slot, own, after
  <2> QED
    BY <1>1, <2>1, <2>3, <2>4, <2>5, PutPuts, PutKeepsDistinct DEF after
<1> QED
  BY <1>2, <1>3

\* What a restored row does: it is dropped, or it takes the slot of its key, a
\* free one, or the one that was seen the longest ago.
RowIsMerged(table, row, after, slot) ==
  /\ \/ after = table
     \/ /\ Puts(table, slot, row, after)
        /\ slot \in Occupied(table) => table[slot].profile.lastSeen <= row.profile.lastSeen
  /\ \/ slot \notin Occupied(table)
     \/ slot \in Occupied(table) /\ table[slot].key = row.key
     \/ /\ Occupied(table) = Slots
        /\ \A other \in Slots :
             table[slot].profile.lastSeen <= table[other].profile.lastSeen
  /\ \A other \in Occupied(table) \ {slot} : table[other].key # row.key

LEMMA MergedRow ==
  ASSUME NEW table, DistinctTable(table), NEW row \in Entry, Capacity > 0
  PROVE  \E slot \in Slots : RowIsMerged(table, row, UpsertRestored(table, row), slot)
<1> DEFINE own == SlotsOfKey(table, row.key)
           slot == IF own # {} THEN First(own) ELSE InsertionSlot(table)
           after == UpsertRestored(table, row)
<1>1. /\ table \in Tables /\ own \subseteq Slots
      /\ \A s \in own : s \in Occupied(table) /\ table[s].key = row.key
      /\ \A s \in Occupied(table) \ own : table[s].key # row.key
  BY SlotsOfKeyFacts DEF DistinctTable
<1>2. /\ InsertionSlot(table) \in Slots
      /\ InsertionSlot(table) \in Occupied(table) =>
           /\ Occupied(table) = Slots
           /\ \A other \in Slots :
                table[InsertionSlot(table)].profile.lastSeen <= table[other].profile.lastSeen
  BY <1>1, InsertionSlotFacts
<1>3. own # {} => First(own) \in own
  <2> HIDE DEF own
  <2> QED
    BY <1>1, FirstIsLeast
<1>4. slot \in Slots
  BY <1>1, <1>2, <1>3
<1>5. \A other \in Occupied(table) \ {slot} : table[other].key # row.key
  BY <1>1, <1>3 DEF DistinctTable
<1>6. \/ slot \notin Occupied(table)
      \/ slot \in Occupied(table) /\ table[slot].key = row.key
      \/ /\ Occupied(table) = Slots
         /\ \A other \in Slots :
              table[slot].profile.lastSeen <= table[other].profile.lastSeen
  BY <1>1, <1>2, <1>3
<1>7. \/ after = table
      \/ /\ after = [table EXCEPT ![slot] = row]
         /\ table[slot] = Free \/ ~(table[slot].profile.lastSeen > row.profile.lastSeen)
  BY DEF UpsertRestored
<1> HIDE DEF slot, own, after
<1>8. after # table => Puts(table, slot, row, after)
  BY <1>1, <1>4, <1>7, PutPuts
<1>9. after # table /\ slot \in Occupied(table) =>
        table[slot].profile.lastSeen <= row.profile.lastSeen
  <2> SUFFICES ASSUME after # table, slot \in Occupied(table)
               PROVE  table[slot].profile.lastSeen <= row.profile.lastSeen
    OBVIOUS
  <2>1. table[slot] \in Entry
    BY <1>1, OccupiedHasEntry
  <2>2. table[slot] # Free
    BY <2>1, EntryIsNotFree
  <2>3. table[slot].profile.lastSeen \in Nat /\ row.profile.lastSeen \in Nat
    BY <2>1 DEF Entry, Profile
  <2> QED
    BY <1>7, <2>2, <2>3
<1> QED
  BY <1>4, <1>5, <1>6, <1>8, <1>9 DEF RowIsMerged, after

LEMMA RestoredKeepsDistinct ==
  ASSUME NEW table, DistinctTable(table), NEW row \in Entry, Capacity > 0
  PROVE  DistinctTable(UpsertRestored(table, row))
<1>1. PICK slot \in Slots : RowIsMerged(table, row, UpsertRestored(table, row), slot)
  BY MergedRow
<1> DEFINE after == UpsertRestored(table, row)
<1> HIDE DEF after
<1>2. after = table \/ Puts(table, slot, row, after)
  BY <1>1 DEF RowIsMerged, after
<1>3. \A other \in Occupied(table) \ {slot} : table[other].key # row.key
  BY <1>1 DEF RowIsMerged
<1>4. DistinctTable(after)
  BY <1>2, <1>3, PutKeepsDistinct
<1> QED
  BY <1>4 DEF after

\* What the array knew is still known as of then, or had to make room for
\* entries that were all seen since.
EntrySeenSince(entry, after) ==
  \/ \E s \in Occupied(after) :
       /\ after[s].key = entry.key
       /\ entry.profile.lastSeen <= after[s].profile.lastSeen
  \/ /\ Occupied(after) = Slots
     /\ \A s \in Slots : entry.profile.lastSeen <= after[s].profile.lastSeen

LEMMA RowKeepsSeen ==
  ASSUME NEW table, DistinctTable(table), NEW row \in Entry, Capacity > 0,
         NEW entry \in Entry, EntrySeenSince(entry, table)
  PROVE  EntrySeenSince(entry, UpsertRestored(table, row))
<1> DEFINE after == UpsertRestored(table, row)
<1>1. PICK slot \in Slots : RowIsMerged(table, row, after, slot)
  BY MergedRow
<1> HIDE DEF after
<1>2. CASE after = table
  BY <1>2 DEF after
<1>3. CASE after # table
  <2>1. /\ Puts(table, slot, row, after)
        /\ slot \in Occupied(table) => table[slot].profile.lastSeen <= row.profile.lastSeen
    BY <1>1, <1>3 DEF RowIsMerged
  <2>2. /\ after[slot] = row /\ Occupied(after) = Occupied(table) \cup {slot}
        /\ \A other \in Slots \ {slot} : after[other] = table[other]
    BY <2>1 DEF Puts
  <2>3. Occupied(table) \subseteq Slots
    BY DEF Occupied
  <2>4. /\ entry.profile.lastSeen \in Nat /\ row.profile.lastSeen \in Nat
        /\ \A s \in Occupied(table) : table[s].profile.lastSeen \in Nat
    <3>1. \A s \in Occupied(table) : table[s] \in Entry
      BY OccupiedHasEntry DEF DistinctTable
    <3> QED
      BY <3>1 DEF Entry, Profile
  <2>5. CASE /\ Occupied(table) = Slots
             /\ \A s \in Slots : entry.profile.lastSeen <= table[s].profile.lastSeen
    <3>1. Occupied(after) = Slots
      BY <2>2, <2>5
    <3>2. entry.profile.lastSeen <= row.profile.lastSeen
      BY <2>1, <2>4, <2>5
    <3>3. \A s \in Slots : entry.profile.lastSeen <= after[s].profile.lastSeen
      BY <2>2, <2>5, <3>2
    <3> QED
      BY <3>1, <3>3 DEF EntrySeenSince, after
  <2>6. ASSUME NEW s \in Occupied(table), table[s].key = entry.key,
               entry.profile.lastSeen <= table[s].profile.lastSeen
        PROVE  EntrySeenSince(entry, after)
    <3>1. CASE s # slot
      <4>1. s \in Occupied(after) /\ after[s] = table[s]
        BY <2>2, <2>3, <3>1
      <4> QED
        BY <2>6, <4>1 DEF EntrySeenSince
    <3>2. CASE s = slot
      <4>1. entry.profile.lastSeen <= row.profile.lastSeen
        BY <2>1, <2>4, <2>6, <3>2
      <4>2. CASE table[slot].key = row.key
        BY <2>2, <2>6, <3>2, <4>1, <4>2 DEF EntrySeenSince
      <4>3. CASE table[slot].key # row.key
        <5>1. /\ Occupied(table) = Slots
              /\ \A other \in Slots :
                   table[slot].profile.lastSeen <= table[other].profile.lastSeen
          BY <1>1, <2>6, <3>2, <4>3 DEF RowIsMerged
        <5>2. \A other \in Slots : entry.profile.lastSeen <= table[other].profile.lastSeen
          BY <2>4, <2>6, <3>2, <5>1
        <5>3. \A other \in Slots : entry.profile.lastSeen <= after[other].profile.lastSeen
          BY <2>2, <4>1, <5>2
        <5>4. Occupied(after) = Slots
          BY <2>2, <5>1
        <5> QED
          BY <5>3, <5>4 DEF EntrySeenSince
      <4> QED
        BY <4>2, <4>3
    <3> QED
      BY <3>1, <3>2
  <2> QED
    BY <2>5, <2>6 DEF EntrySeenSince, after
<1> QED
  BY <1>2, <1>3 DEF after

\* A restore loses nothing but to entries that were seen since, and keeps one
\* entry for each key.
LEMMA RestoreKeepsSeen ==
  ASSUME NEW table, DistinctTable(table), NEW rows \in Seq(Entry), Capacity > 0
  PROVE  /\ DistinctTable(RestoreAll(table, rows))
         /\ \A slot \in Occupied(table) :
              EntrySeenSince(table[slot], RestoreAll(table, rows))
<1> DEFINE n == Len(rows)
<1>1. n \in Nat /\ DOMAIN rows = 1..n /\ \A i \in 1..n : rows[i] \in Entry
  BY LenProperties, ElementOfSeq
<1>2. table \in Tables /\ \A slot \in Occupied(table) : table[slot] \in Entry
  BY OccupiedHasEntry DEF DistinctTable
<1> HIDE DEF n
<1> DEFINE SeenSince(t) == \A slot \in Occupied(table) : EntrySeenSince(table[slot], t)
           G == {t \in Tables : DistinctTable(t) /\ SeenSince(t)}
<1>3. table \in G
  <2>1. ASSUME NEW slot \in Occupied(table) PROVE EntrySeenSince(table[slot], table)
    <3>1. table[slot].profile.lastSeen \in Nat
      BY <1>2 DEF Entry, Profile
    <3> QED
      BY <3>1 DEF EntrySeenSince
  <2> QED
    BY <1>2, <2>1
<1>4. ASSUME NEW t \in G, NEW i \in 1..n PROVE UpsertRestored(t, rows[i]) \in G
  <2>1. rows[i] \in Entry /\ DistinctTable(t) /\ SeenSince(t)
    BY <1>1, <1>4
  <2>2. DistinctTable(UpsertRestored(t, rows[i]))
    BY <2>1, RestoredKeepsDistinct
  <2>3. \A slot \in Occupied(table) : EntrySeenSince(table[slot], UpsertRestored(t, rows[i]))
    BY <1>2, <2>1, RowKeepsSeen
  <2>4. UpsertRestored(t, rows[i]) \in Tables
    BY <2>2 DEF DistinctTable
  <2> QED
    BY <2>2, <2>3, <2>4
<1>5. RestoreAll(table, rows) \in G
  <2> HIDE DEF G
  <2> QED
    BY <1>1, <1>3, <1>4, RestoreInduction
<1> QED
  BY <1>5

-----------------------------------------------------------------------------
(* What is read off the array and off the rows, in order.                  *)

\* The snapshot that a persist takes has the occupied entries, and no others.
LEMMA SnapshotFacts ==
  ASSUME NEW table, DistinctTable(table)
  PROVE  /\ SnapshotOf(table) \in Seq(Entry)
         /\ \A i \in DOMAIN SnapshotOf(table) :
              \E slot \in Occupied(table) : SnapshotOf(table)[i] = table[slot]
         /\ \A slot \in Occupied(table) :
              \E i \in DOMAIN SnapshotOf(table) : SnapshotOf(table)[i] = table[slot]
<1> DEFINE S == Occupied(table)
           n == Cardinality(S)
           R == {pair \in S \X S : pair[1] < pair[2]}
           order == InOrder(S, <)
<1>1. S \subseteq Slots /\ IsFiniteSet(Slots) /\ S \subseteq Nat
  BY CapacityAssumption, FS_Interval DEF Occupied, Slots
<1>2. IsFiniteSet(S) /\ n \in Nat
  BY <1>1, FS_Subset, FS_CardinalityType
<1>3. \A s \in S : table[s] \in Entry
  BY OccupiedHasEntry DEF DistinctTable
<1> HIDE DEF S
<1>4. \A x, y \in S : <<x, y>> \in R <=> x < y
  OBVIOUS
<1> HIDE DEF R, n
<1>5. StrictTotal(R, S)
  <2>1. \A x, y \in S : ~(x < x) /\ (x = y \/ x < y \/ y < x)
    BY <1>1
  <2>2. \A x, y, z \in S : x < y /\ y < z => x < z
    BY <1>1
  <2> QED
    BY <1>4, <2>1, <2>2 DEF StrictTotal
<1>6. PICK some : IsOrderOf(some, S, R)
  BY <1>2, <1>5, OrdersExist
<1>7. some \in [1..Cardinality(S) -> S] /\ \A i, j \in DOMAIN some : i < j => some[i] < some[j]
  BY <1>4, <1>6 DEF IsOrderOf
<1>8. order \in [1..Cardinality(S) -> S] /\ \A i, j \in DOMAIN order : i < j => order[i] < order[j]
  BY <1>7 DEF InOrder
<1> HIDE DEF order
<1>9. IsOrderOf(order, S, R)
  BY <1>4, <1>8 DEF IsOrderOf
<1>10. \A x \in S : \E i \in 1..n : order[i] = x
  BY <1>2, <1>5, <1>9, OrderIsComplete DEF n
<1>11. order \in [1..n -> S]
  BY <1>8 DEF n
<1>12. SnapshotOf(table) = [i \in 1..n |-> table[order[i]]]
  BY <1>11 DEF SnapshotOf, order, S
<1> DEFINE rows == [i \in 1..n |-> table[order[i]]]
<1>13. rows \in [1..n -> Entry]
  BY <1>3, <1>11
<1>14. /\ DOMAIN rows = 1..n
       /\ \A i \in 1..n : rows[i] = table[order[i]] /\ order[i] \in S
  BY <1>11
<1> HIDE DEF rows
<1>15. rows \in Seq(Entry)
  BY <1>2, <1>13
<1>16. SnapshotOf(table) = rows
  BY <1>12 DEF rows
<1>17. \A i \in DOMAIN rows : \E slot \in S : rows[i] = table[slot]
  BY <1>14
<1>18. \A slot \in S : \E i \in DOMAIN rows : rows[i] = table[slot]
  BY <1>10, <1>14
<1> QED
  BY <1>15, <1>16, <1>17, <1>18 DEF S

\* The rows that SQL finds are finitely many entries, in whatever order.
LEMMA FoundRowsAreEntries ==
  ASSUME NEW b, NEW view \in [Keys -> Profile \cup {Missing}], Visible(b) = view
  PROVE  /\ IsFiniteSet(FoundRows(b)) /\ Cardinality(FoundRows(b)) \in Nat
         /\ \A x \in FoundRows(b) : x \in Entry /\ x.profile = view[x.key] /\ x.key \in Keys
         /\ SetToSeqs(FoundRows(b)) \subseteq Seq(Entry)
<1> DEFINE known == {key \in Keys : view[key] # Missing}
           S == {[key |-> key, profile |-> view[key]] : key \in known}
           n == Cardinality(S)
<1>0. FoundRows(b) = S
  BY DEF FoundRows
<1>1. IsFiniteSet(S) /\ n \in Nat
  <2>1. IsFiniteSet(Scopes \cup {Global}) /\ IsFiniteSet(Queries)
    BY StoreAssumption, FS_AddElement
  <2>2. IsFiniteSet(Keys)
    BY <2>1, FS_Product DEF Keys
  <2>3. IsFiniteSet(known)
    BY <2>2, FS_Subset
  <2>4. S = {[key |-> key, profile |-> view[key]] : key \in known}
    OBVIOUS
  <2> DEFINE rowOf == [key \in known |-> [key |-> key, profile |-> view[key]]]
  <2>5. rowOf \in Surjection(known, S)
    BY DEF Surjection
  <2>6. IsFiniteSet(S)
    <3> HIDE DEF rowOf, known, S
    <3> QED
      BY <2>3, <2>5, FS_Surjection
  <2> QED
    BY <2>6, FS_CardinalityType
<1>2. \A x \in S : x \in Entry /\ x.profile = view[x.key] /\ x.key \in Keys
  BY DEF Entry
<1> HIDE DEF S, n
<1>3. SetToSeqs(S) \subseteq [1..n -> S]
  BY DEF SetToSeqs, n
<1>4. [1..n -> S] \subseteq Seq(Entry)
  BY <1>1, <1>2
<1> QED
  BY <1>0, <1>1, <1>2, <1>3, <1>4 DEF n

\* What a restore loads are entries.
LEMMA LoadedRowsAreEntries ==
  ASSUME NEW b, NEW view \in [Keys -> Profile \cup {Missing}], Visible(b) = view
  PROVE  LoadProfiles(b) \in Seq(Entry)
<1> DEFINE S == FoundRows(b)
           n == Cardinality(S)
           R == {pair \in S \X S : LoadsBefore(pair[1], pair[2])}
           all == InOrder(S, LoadsBefore)
<1>1. IsFiniteSet(S) /\ n \in Nat
  BY FoundRowsAreEntries
<1>2. \A x \in S : x \in Entry /\ x.profile = view[x.key] /\ x.key \in Keys
  BY FoundRowsAreEntries
<1>3. \A x \in S : /\ x.key[1] \in Nat /\ x.key[2] \in Nat /\ x.profile.lastSeen \in Nat
                   /\ x.key = <<x.key[1], x.key[2]>>
  <2>1. \A key \in Keys : key[1] \in Nat /\ key[2] \in Nat /\ key = <<key[1], key[2]>>
    <3>1. Scopes \cup {Global} \subseteq Nat /\ Queries \subseteq Nat
      BY StoreAssumption, KeysAssumption
    <3>2. ASSUME NEW key \in Keys
          PROVE  key[1] \in Nat /\ key[2] \in Nat /\ key = <<key[1], key[2]>>
      <4>1. PICK scope \in Scopes \cup {Global}, query \in Queries : key = <<scope, query>>
        BY DEF Keys
      <4>2. scope \in Nat /\ query \in Nat
        BY <3>1
      <4> QED
        BY <4>1, <4>2
    <3> QED
      BY <3>2
  <2>2. \A x \in S : x.profile \in Profile
    BY <1>2 DEF Entry
  <2>3. \A p \in Profile : p.lastSeen \in Nat
    BY DEF Profile
  <2> HIDE DEF S
  <2> QED
    BY <1>2, <2>1, <2>2, <2>3
<1>4. \A x, y \in S : x.key = y.key => x = y
  BY <1>2 DEF Entry
<1> HIDE DEF S
<1>5. \A x, y \in S : <<x, y>> \in R <=> LoadsBefore(x, y)
  OBVIOUS
<1> HIDE DEF R, n
<1>6. \A x, y \in S : x # y =>
        x.key[1] # y.key[1] \/ x.key[2] # y.key[2]
  BY <1>3, <1>4
<1>7. StrictTotal(R, S)
  <2>1. ASSUME NEW x \in S, NEW y \in S
        PROVE  ~LoadsBefore(x, x) /\ (x = y \/ LoadsBefore(x, y) \/ LoadsBefore(y, x))
    BY <1>3, <1>6 DEF LoadsBefore
  <2>2. ASSUME NEW x \in S, NEW y \in S, NEW z \in S, LoadsBefore(x, y), LoadsBefore(y, z)
        PROVE  LoadsBefore(x, z)
    BY <1>3, <2>2 DEF LoadsBefore
  <2> QED
    BY <1>5, <2>1, <2>2 DEF StrictTotal
<1>8. PICK some : IsOrderOf(some, S, R)
  BY <1>1, <1>7, OrdersExist
<1>9. /\ some \in [1..Cardinality(S) -> S]
      /\ \A i, j \in DOMAIN some : i < j => LoadsBefore(some[i], some[j])
  BY <1>5, <1>8 DEF IsOrderOf
<1>10. all \in [1..Cardinality(S) -> S]
  BY <1>9 DEF InOrder
<1>11. LoadProfiles(b) = IF HasTable(b) THEN SubSeq(all, 1, Smaller(Len(all), Capacity))
                                        ELSE <<>>
  BY DEF LoadProfiles, S
<1> HIDE DEF all
<1>12. all \in Seq(Entry) /\ Len(all) = n
  <2>1. all \in [1..n -> Entry]
    BY <1>2, <1>10 DEF n
  <2> QED
    BY <1>1, <2>1
<1>13. SubSeq(all, 1, Smaller(Len(all), Capacity)) \in Seq(Entry)
  <2>1. Smaller(Len(all), Capacity) \in Nat /\ Smaller(Len(all), Capacity) <= Len(all)
    BY <1>1, <1>12, CapacityAssumption DEF Smaller
  <2>2. \A i \in 1..Smaller(Len(all), Capacity) : all[i] \in Entry
    BY <1>12, <2>1
  <2> QED
    BY <1>12, <2>1, <2>2
<1> QED
  BY <1>11, <1>13

-----------------------------------------------------------------------------
(* The profile store: its state machine.                                   *)

Labels == {"idle", "load", "failed", "finish", "ready", "write", "delete"}

LocalsOK ==
  /\ task \in [Backends -> Tasks \cup {"none"}]
  /\ pc \in [Backends -> Labels]
  /\ reading \in [Backends -> Nat]
  /\ batch \in [Backends -> Seq(Entry)]
  /\ overlapped \in [Backends -> BOOLEAN]
  /\ \A b \in Backends : pc[b] = "idle" <=> task[b] = "none"

RowsOK ==
  /\ durable \in [Databases -> [Keys -> Profile \cup {Missing}]]
  /\ pending \in [Backends -> [Keys -> Profile \cup {Missing, Kept}]]

TimesOK ==
  /\ clock \in Nat /\ restarts \in Nat
  /\ restore \in {"not attempted", "in progress", "loaded", "failed"}
  /\ started \in 0..clock /\ lastPersist \in 0..clock /\ marks \in 0..MaxU64

\* A persist has written every live entry, or has still to write it, and has
\* nothing else to write, as long as the array does not change under it.
SnapshotOK(b) ==
  pc[b] = "write" /\ HasTable(b) /\ ~overlapped[b] =>
    /\ \A slot \in Occupied(array) :
         \/ pending[b][array[slot].key] = array[slot].profile
         \/ \E i \in DOMAIN batch[b] : batch[b][i] = array[slot]
    /\ \A i \in DOMAIN batch[b] : \E slot \in Occupied(array) : batch[b][i] = array[slot]

StoreInv ==
  /\ DistinctTable(array)
  /\ LocalsOK /\ RowsOK /\ TimesOK
  /\ \A b \in Backends : SnapshotOK(b)

\* No backend does anything.
AllIdle ==
  /\ task = [b \in Backends |-> "none"] /\ pc = [b \in Backends |-> "idle"]
  /\ reading = [b \in Backends |-> 0] /\ batch = [b \in Backends |-> <<>>]
  /\ overlapped = [b \in Backends |-> FALSE]

LEMMA IdleLocals == AllIdle => LocalsOK
<1> SUFFICES ASSUME AllIdle PROVE LocalsOK
  OBVIOUS
<1>1. <<>> \in Seq(Entry)
  OBVIOUS
<1>2. batch \in [Backends -> Seq(Entry)]
  BY <1>1 DEF AllIdle
<1>3. task \in [Backends -> Tasks \cup {"none"}] /\ pc \in [Backends -> Labels]
  BY DEF AllIdle, Labels
<1>4. reading \in [Backends -> Nat] /\ overlapped \in [Backends -> BOOLEAN]
  BY DEF AllIdle
<1>5. \A b \in Backends : pc[b] = "idle" <=> task[b] = "none"
  BY DEF AllIdle
<1> QED
  BY <1>2, <1>3, <1>4, <1>5 DEF LocalsOK

LEMMA InitialStore ==
  ASSUME StoreInit
  PROVE  StoreInv
<1>1. array = EmptyTable /\ Occupied(array) = {} /\ array \in Tables
  BY DEF StoreInit, EmptyTable, Occupied, Tables
<1>2. DistinctTable(array)
  BY <1>1 DEF DistinctTable
<1>3. LocalsOK
  BY IdleLocals DEF StoreInit, AllIdle
<1>4. RowsOK
  <2>1. \A d \in Databases : durable[d] \in [Keys -> Profile \cup {Missing}]
    <3>1. NoRows \in [Keys -> Profile \cup {Missing}]
      BY DEF NoRows
    <3>2. \A d \in Databases : durable[d] \in InitialRows \/ durable[d] = NoRows
      BY DEF StoreInit
    <3> QED
      BY <3>1, <3>2, RowsAssumption
  <2>2. durable \in [Databases -> InitialRows \cup {NoRows}]
    BY DEF StoreInit
  <2>3. durable \in [Databases -> [Keys -> Profile \cup {Missing}]]
    BY <2>1, <2>2
  <2>4. NoChanges \in [Keys -> Profile \cup {Missing, Kept}]
    BY DEF NoChanges
  <2>5. pending = [b \in Backends |-> NoChanges]
    BY DEF StoreInit
  <2>6. pending \in [Backends -> [Keys -> Profile \cup {Missing, Kept}]]
    BY <2>4, <2>5
  <2> QED
    BY <2>3, <2>6 DEF RowsOK
<1>5. TimesOK
  <2>1. MaxU64 \in Nat
    BY MaxU64Assumption
  <2>2. /\ clock = 0 /\ restarts = 0 /\ started = 0 /\ lastPersist = 0 /\ marks = 0
    BY DEF StoreInit
  <2>3. started \in 0..clock /\ lastPersist \in 0..clock
    BY <2>2
  <2>4. marks \in 0..MaxU64
    BY <2>1, <2>2
  <2>5. restore \in {"not attempted", "in progress", "loaded", "failed"}
    BY DEF StoreInit
  <2> QED
    BY <2>2, <2>3, <2>4, <2>5 DEF TimesOK
<1>6. \A b \in Backends : SnapshotOK(b)
  BY DEF StoreInit, SnapshotOK
<1> QED
  BY <1>2, <1>3, <1>4, <1>5, <1>6 DEF StoreInv

-----------------------------------------------------------------------------
(* What a step of one backend does.                                        *)

\* The steps that leave the shared memory alone.
Elsewhere(b) ==
  \/ "reset" \in Tasks /\ BeginReset(b)
  \/ DeleteRow(b) \/ Load(b) \/ LoadFails(b) \/ PersistNotDue(b) \/ WriteRow(b) \/ PersistFails(b)
  \/ Commit(b) \/ Abort(b) \/ Raise(b) \/ Deadlock(b)

Snapshot(b) == ReservePersist(b) \/ Flush(b)

BackendStep(b) ==
  \/ \E kind \in Tasks : BeginTask(b, kind)
  \/ \E scope \in Scopes, query \in Queries : RecordQueryObservation(b, scope, query)
  \/ RestoreFailed(b) \/ FinishRestore(b) \/ CompletePersist(b) \/ ClearProfiles(b)
  \/ Snapshot(b) \/ Elsewhere(b)

LEMMA StoreSteps ==
  ASSUME [StoreNext]_storeVars
  PROVE  \/ \E b \in Backends : BackendStep(b)
         \/ Restart \/ Tick \/ UNCHANGED storeVars
  BY DEF StoreNext, BackendStep, Elsewhere, Snapshot, Restoring, Ready, Persisting

LEMMA ElsewhereKeepsShared ==
  ASSUME NEW b, Elsewhere(b)
  PROVE  /\ array' = array /\ restore' = restore /\ started' = started
         /\ lastPersist' = lastPersist /\ marks' = marks
         /\ clock' = clock /\ restarts' = restarts
<1>1. CASE BeginReset(b) \/ DeleteRow(b)
  BY <1>1 DEF BeginReset, DeleteRow, shared, bounds
<1>2. CASE Load(b)
  BY <1>2 DEF Load, shared, bounds
<1>3. CASE LoadFails(b)
  BY <1>3 DEF LoadFails, shared
<1>4. CASE PersistNotDue(b)
  BY <1>4 DEF PersistNotDue, shared, bounds
<1>5. CASE WriteRow(b)
  BY <1>5 DEF WriteRow, shared, bounds
<1>6. CASE PersistFails(b)
  BY <1>6 DEF PersistFails, shared
<1>7. CASE Commit(b) \/ Abort(b)
  BY <1>7 DEF Commit, Abort, shared, bounds
<1>8. CASE Raise(b)
  BY <1>8 DEF Raise, Unwind, shared
<1>9. CASE Deadlock(b)
  BY <1>9 DEF Deadlock, Unwind, shared, bounds
<1> QED
  BY <1>1, <1>2, <1>3, <1>4, <1>5, <1>6, <1>7, <1>8, <1>9 DEF Elsewhere

LEMMA BackendKeepsTimes ==
  ASSUME TimesOK, NEW b, BackendStep(b)
  PROVE  TimesOK'
<1> DEFINE States == {"not attempted", "in progress", "loaded", "failed"}
<1>1. clock \in Nat /\ restarts \in Nat /\ restore \in States /\ started \in 0..clock
      /\ lastPersist \in 0..clock /\ marks \in 0..MaxU64
  BY DEF TimesOK
<1>2. ASSUME clock' = clock, restarts' = restarts, restore' \in States, started' \in 0..clock,
             lastPersist' \in 0..clock, marks' \in 0..MaxU64
      PROVE  TimesOK'
  BY <1>1, <1>2 DEF TimesOK
<1>3. 0 \in 0..clock /\ clock \in 0..clock /\ 0 \in 0..MaxU64 /\ Marked \in 0..MaxU64
  <2>1. MaxU64 \in Nat /\ 1 <= MaxU64
    BY MaxU64Assumption
  <2> HIDE DEF States
  <2>2. clock \in Nat
    BY <1>1
  <2>3. marks \in 0..MaxU64
    BY <1>1
  <2>4. marks \in Nat /\ marks <= MaxU64
    BY <2>1, <2>3
  <2>5. Marked \in Nat /\ Marked <= MaxU64
    BY <2>1, <2>4 DEF Marked, Smaller
  <2> QED
    BY <2>1, <2>2, <2>5
<1>4. ASSUME NEW kind \in Tasks, BeginTask(b, kind) PROVE TimesOK'
  <2>1. /\ clock' = clock /\ restarts' = restarts /\ lastPersist' = lastPersist /\ marks' = marks
        /\ \/ restore' = "in progress" /\ started' = clock
           \/ restore' = restore /\ started' = started
    BY <1>4 DEF BeginTask, bounds
  <2> QED
    BY <1>1, <1>2, <1>3, <2>1
<1>5. ASSUME NEW scope, NEW query, RecordQueryObservation(b, scope, query) PROVE TimesOK'
  <2>1. /\ clock' = clock /\ restarts' = restarts /\ lastPersist' = lastPersist
        /\ marks' = Marked /\ restore' = restore /\ started' = started
    BY <1>5 DEF RecordQueryObservation, bounds
  <2> QED
    BY <1>1, <1>2, <1>3, <2>1
<1>6. CASE RestoreFailed(b)
  <2>1. /\ clock' = clock /\ restarts' = restarts /\ lastPersist' = lastPersist /\ marks' = marks
        /\ \/ restore' = "failed" /\ started' = 0
           \/ restore' = restore /\ started' = started
    BY <1>6 DEF RestoreFailed, MarkRestoreFailed, bounds
  <2> QED
    BY <1>1, <1>2, <1>3, <2>1
<1>7. CASE FinishRestore(b)
  <2>1. /\ clock' = clock /\ restarts' = restarts /\ lastPersist' = lastPersist
        /\ marks' = marks /\ restore' = "loaded" /\ started' = 0
    BY <1>7 DEF FinishRestore, bounds
  <2> QED
    BY <1>1, <1>2, <1>3, <2>1
<1>8. CASE CompletePersist(b)
  <2>1. /\ clock' = clock /\ restarts' = restarts /\ lastPersist' = lastPersist
        /\ marks' = 0 /\ restore' = restore /\ started' = started
    BY <1>8 DEF CompletePersist, bounds
  <2> QED
    BY <1>1, <1>2, <1>3, <2>1
<1>9. CASE ClearProfiles(b)
  <2>1. /\ clock' = clock /\ restarts' = restarts /\ lastPersist' = 0
        /\ marks' = 0 /\ restore' = "loaded" /\ started' = 0
    BY <1>9 DEF ClearProfiles, bounds
  <2> QED
    BY <1>1, <1>2, <1>3, <2>1
<1>10. CASE Snapshot(b)
  <2>1. /\ clock' = clock /\ restarts' = restarts /\ lastPersist' = clock
        /\ marks' = marks /\ restore' = restore /\ started' = started
    BY <1>10 DEF Snapshot, ReservePersist, Flush, TakeSnapshot, bounds
  <2> QED
    BY <1>1, <1>2, <1>3, <2>1
<1>11. CASE Elsewhere(b)
  BY <1>1, <1>2, <1>11, ElsewhereKeepsShared
<1> QED
  BY <1>4, <1>5, <1>6, <1>7, <1>8, <1>9, <1>10, <1>11 DEF BackendStep

\* What a transaction sees are profiles, or nothing.
LEMMA VisibleRows ==
  ASSUME RowsOK, NEW b \in Backends
  PROVE  Visible(b) \in [Keys -> Profile \cup {Missing}]
<1>1. /\ pending[b] \in [Keys -> Profile \cup {Missing, Kept}]
      /\ durable[Home[b]] \in [Keys -> Profile \cup {Missing}]
  BY StoreAssumption DEF RowsOK
<1>2. \A key \in Keys :
        (IF pending[b][key] = Kept THEN durable[Home[b]][key] ELSE pending[b][key])
           \in Profile \cup {Missing}
  BY <1>1
<1> QED
  BY <1>2 DEF Visible

LEMMA BackendKeepsRows ==
  ASSUME LocalsOK, RowsOK, NEW b \in Backends, BackendStep(b)
  PROVE  RowsOK'
<1> DEFINE Changes == [Keys -> Profile \cup {Missing, Kept}]
           Stored == [Keys -> Profile \cup {Missing}]
<1>1. /\ durable \in [Databases -> Stored] /\ pending \in [Backends -> Changes]
      /\ NoChanges \in Changes /\ Home[b] \in Databases
  BY StoreAssumption DEF RowsOK, NoChanges
<1>2. Visible(b) \in Stored
  BY VisibleRows
<1>3. ASSUME durable' = durable \/ durable' = [durable EXCEPT ![Home[b]] = Visible(b)],
             NEW changes \in Changes,
             pending' = pending \/ pending' = [pending EXCEPT ![b] = changes]
      PROVE  RowsOK'
  <2>1. durable' \in [Databases -> Stored]
    BY <1>1, <1>2, <1>3
  <2>2. pending' \in [Backends -> Changes]
    BY <1>1, <1>3
  <2> QED
    BY <2>1, <2>2 DEF RowsOK
<1>4. ASSUME NEW kind \in Tasks, BeginTask(b, kind) PROVE RowsOK'
  <2>1. durable' = durable /\ pending' = pending
    BY <1>4 DEF BeginTask
  <2> QED
    BY <1>1, <1>3, <2>1
<1>5. ASSUME NEW scope, NEW query, RecordQueryObservation(b, scope, query) PROVE RowsOK'
  <2>1. durable' = durable /\ pending' = pending
    BY <1>5 DEF RecordQueryObservation
  <2> QED
    BY <1>1, <1>3, <2>1
<1>6. CASE FinishRestore(b) \/ CompletePersist(b) \/ ClearProfiles(b) \/ Snapshot(b)
  <2>1. durable' = durable /\ pending' = pending
    BY <1>6 DEF FinishRestore, CompletePersist, ClearProfiles, Snapshot, ReservePersist, Flush,
                TakeSnapshot
  <2> QED
    BY <1>1, <1>3, <2>1
<1>7. CASE RestoreFailed(b) \/ LoadFails(b) \/ PersistFails(b) \/ Raise(b) \/ Deadlock(b)
  <2>1. /\ durable' = durable
        /\ pending' = pending \/ pending' = [pending EXCEPT ![b] = NoChanges]
    BY <1>7 DEF RestoreFailed, LoadFails, PersistFails, Raise, Deadlock, Unwind
  <2> QED
    BY <1>1, <1>3, <2>1
<1>8. CASE Load(b) \/ PersistNotDue(b)
  <2>1. durable' = durable /\ pending' = pending
    BY <1>8 DEF Load, PersistNotDue
  <2> QED
    BY <1>1, <1>3, <2>1
<1>9. CASE Commit(b) \/ Abort(b)
  <2>1. /\ durable' = durable \/ durable' = [durable EXCEPT ![Home[b]] = Visible(b)]
        /\ pending' = [pending EXCEPT ![b] = NoChanges]
    BY <1>9 DEF Commit, Abort
  <2> QED
    BY <1>1, <1>3, <2>1
<1>10. CASE WriteRow(b)
  <2> DEFINE row == Head(batch[b])
             changes == [pending[b] EXCEPT ![row.key] = row.profile]
  <2>1. batch[b] \in Seq(Entry) /\ batch[b] # <<>>
    BY <1>10 DEF WriteRow, Writing, LocalsOK
  <2>2. row \in Entry
    BY <2>1
  <2>3. row.profile \in Profile
    BY <2>2 DEF Entry
  <2>4. /\ durable' = durable
        /\ pending' = [pending EXCEPT ![b][row.key] = row.profile]
    BY <1>10 DEF WriteRow
  <2> HIDE DEF row
  <2>5. changes \in Changes
    BY <1>1, <2>3
  <2>6. pending' = [pending EXCEPT ![b] = changes]
    BY <2>4
  <2> HIDE DEF changes
  <2> QED
    BY <1>3, <2>4, <2>5, <2>6
<1>11. CASE BeginReset(b)
  <2>1. durable' = durable /\ pending' = pending
    BY <1>11 DEF BeginReset
  <2> QED
    BY <1>1, <1>3, <2>1
<1>12. CASE DeleteRow(b)
  <2> DEFINE row == Head(batch[b])
             after == IF Visible(b)[row.key] = Missing THEN pending[b][row.key] ELSE Missing
             changes == [pending[b] EXCEPT ![row.key] = after]
  <2>1. batch[b] \in Seq(Entry) /\ batch[b] # <<>>
    BY <1>12 DEF DeleteRow, Deleting, LocalsOK
  <2>2. row \in Entry
    BY <2>1
  <2>3. row.key \in Keys
    BY <2>2 DEF Entry
  <2>4. /\ durable' = durable
        /\ pending' = [pending EXCEPT ![b][row.key] = after]
    BY <1>1, <1>12, <2>3 DEF DeleteRow
  <2> HIDE DEF row
  <2>5. after \in Profile \cup {Missing, Kept}
    BY <1>1, <2>3
  <2> HIDE DEF after
  <2>6. changes \in Changes
    BY <1>1, <2>3, <2>5
  <2>7. pending' = [pending EXCEPT ![b] = changes]
    BY <2>4
  <2> HIDE DEF changes
  <2> QED
    BY <1>3, <2>4, <2>6, <2>7
<1> QED
  BY <1>4, <1>5, <1>6, <1>7, <1>8, <1>9, <1>10, <1>11, <1>12 DEF BackendStep, Elsewhere

\* A backend goes to a place in the code, with a job, a time and rows.
Goes(b, label, job, time, rows) ==
  /\ pc' = [pc EXCEPT ![b] = label] /\ batch' = [batch EXCEPT ![b] = rows]
  /\ task' = [task EXCEPT ![b] = job] /\ reading' = [reading EXCEPT ![b] = time]

LEMMA GoesKeepsLocals ==
  ASSUME LocalsOK, NEW b \in Backends, NEW label \in Labels, NEW job \in Tasks \cup {"none"},
         NEW time \in Nat, NEW rows \in Seq(Entry), label = "idle" <=> job = "none",
         Goes(b, label, job, time, rows), overlapped' \in [Backends -> BOOLEAN]
  PROVE  LocalsOK'
<1>1. task' \in [Backends -> Tasks \cup {"none"}] /\ pc' \in [Backends -> Labels]
  BY DEF Goes, LocalsOK
<1>2. reading' \in [Backends -> Nat] /\ batch' \in [Backends -> Seq(Entry)]
  BY DEF Goes, LocalsOK
<1>3. ASSUME NEW x \in Backends PROVE pc'[x] = "idle" <=> task'[x] = "none"
  <2>1. CASE x = b
    BY <2>1 DEF Goes, LocalsOK
  <2>2. CASE x # b
    BY <2>2 DEF Goes, LocalsOK
  <2> QED
    BY <2>1, <2>2
<1> QED
  BY <1>1, <1>2, <1>3 DEF LocalsOK

LEMMA BackendKeepsLocals ==
  ASSUME DistinctTable(array), LocalsOK, RowsOK, TimesOK, NEW b \in Backends, BackendStep(b)
  PROVE  LocalsOK'
<1>1. /\ pc[b] \in Labels /\ task[b] \in Tasks \cup {"none"} /\ reading[b] \in Nat
      /\ batch[b] \in Seq(Entry) /\ <<>> \in Seq(Entry) /\ clock \in Nat
      /\ pc[b] = "idle" <=> task[b] = "none"
      /\ overlapped \in [Backends -> BOOLEAN]
  <2>1. /\ pc[b] \in Labels /\ task[b] \in Tasks \cup {"none"} /\ reading[b] \in Nat
        /\ batch[b] \in Seq(Entry) /\ overlapped \in [Backends -> BOOLEAN]
    BY DEF LocalsOK
  <2>2. pc[b] = "idle" <=> task[b] = "none"
    BY DEF LocalsOK
  <2>3. <<>> \in Seq(Entry)
    OBVIOUS
  <2>4. clock \in Nat
    BY DEF TimesOK
  <2> QED
    BY <2>1, <2>2, <2>3, <2>4
<1>2. task' = task => task' = [task EXCEPT ![b] = task[b]]
  BY DEF LocalsOK
<1>3. reading' = reading => reading' = [reading EXCEPT ![b] = reading[b]]
  BY DEF LocalsOK
<1>4. pc' = pc => pc' = [pc EXCEPT ![b] = pc[b]]
  BY DEF LocalsOK
<1>5. overlapped' = [x \in Backends |-> pc[x] = "write"] => overlapped' \in [Backends -> BOOLEAN]
  OBVIOUS
<1>6. {"idle", "load", "failed", "finish", "ready", "write", "delete"} \subseteq Labels
  BY DEF Labels
<1>7. \A x : x \in Tasks => x # "none"
  BY StoreAssumption
<1>8. ASSUME Finished(b) PROVE LocalsOK'
  <2>1. Goes(b, "idle", "none", 0, <<>>)
    BY <1>8 DEF Finished, Goto, Goes
  <2>2. overlapped' \in [Backends -> BOOLEAN]
    BY <1>1, <1>8 DEF Finished
  <2> QED
    BY <1>1, <1>6, <2>1, <2>2, GoesKeepsLocals
<1>9. ASSUME NEW kind \in Tasks, BeginTask(b, kind) PROVE LocalsOK'
  <2> DEFINE time == IF kind = "observe" THEN clock ELSE 0
  <2>1. time \in Nat
    BY <1>1
  <2>2. Goes(b, EntryLabel, kind, time, <<>>) /\ overlapped' = overlapped
    BY <1>9 DEF BeginTask, Goto, Goes, history
  <2>3. EntryLabel \in Labels /\ EntryLabel # "idle"
    BY <1>6 DEF EntryLabel
  <2> HIDE DEF time
  <2> QED
    BY <1>1, <1>7, <2>1, <2>2, <2>3, GoesKeepsLocals
<1>10. ASSUME NEW scope, NEW query, RecordQueryObservation(b, scope, query) PROVE LocalsOK'
  <2>1. Goes(b, "idle", "none", 0, <<>>)
    BY <1>10 DEF RecordQueryObservation, Goto, Goes
  <2>2. overlapped' \in [Backends -> BOOLEAN]
    BY <1>5, <1>10 DEF RecordQueryObservation, Touched
  <2> QED
    BY <1>1, <1>6, <2>1, <2>2, GoesKeepsLocals
<1>11. CASE RestoreFailed(b) \/ PersistNotDue(b) \/ CompletePersist(b) \/ PersistFails(b)
            \/ Raise(b) \/ Deadlock(b)
  <2>1. Finished(b)
    BY <1>11 DEF RestoreFailed, PersistNotDue, CompletePersist, PersistFails, Raise, Deadlock,
                 Unwind
  <2> QED
    BY <1>8, <2>1
<1>12. CASE FinishRestore(b)
  <2>1. pc[b] = "finish" /\ task' = task /\ reading' = reading
    BY <1>12 DEF FinishRestore
  <2>2. Goes(b, "ready", task[b], reading[b], <<>>)
    BY <1>2, <1>3, <1>12, <2>1 DEF FinishRestore, Goto, Goes
  <2>3. overlapped' \in [Backends -> BOOLEAN]
    BY <1>5, <1>12 DEF FinishRestore, Touched
  <2> QED
    BY <1>1, <1>6, <2>1, <2>2, <2>3, GoesKeepsLocals
<1>13. CASE ClearProfiles(b)
  <2>1. reading' = reading
    BY <1>13 DEF ClearProfiles
  <2>2. Goes(b, "idle", "none", reading[b], <<>>)
    BY <1>3, <1>13, <2>1 DEF ClearProfiles, Goto, Goes
  <2>3. overlapped' \in [Backends -> BOOLEAN]
    BY <1>5, <1>13 DEF ClearProfiles, Touched
  <2> QED
    BY <1>1, <1>6, <2>2, <2>3, GoesKeepsLocals
<1>14. CASE Snapshot(b)
  <2>1. pc[b] = "ready" /\ task' = task /\ reading' = reading /\ overlapped' = overlapped
    BY <1>14 DEF Snapshot, ReservePersist, Flush, TakeSnapshot, history
  <2>2. Goes(b, "write", task[b], reading[b], SnapshotOf(array))
    BY <1>2, <1>3, <1>14, <2>1 DEF Snapshot, ReservePersist, Flush, TakeSnapshot, Goto, Goes
  <2>3. SnapshotOf(array) \in Seq(Entry)
    BY SnapshotFacts
  <2> QED
    BY <1>1, <1>6, <2>1, <2>2, <2>3, GoesKeepsLocals
<1>15. CASE Load(b)
  <2>1. pc[b] = "load" /\ task' = task /\ reading' = reading /\ overlapped' = overlapped
    BY <1>15 DEF Load, history
  <2>2. Goes(b, "finish", task[b], reading[b], LoadProfiles(b))
    BY <1>2, <1>3, <1>15, <2>1 DEF Load, Goto, Goes
  <2>3. LoadProfiles(b) \in Seq(Entry)
    <3>1. Visible(b) \in [Keys -> Profile \cup {Missing}]
      BY VisibleRows
    <3> QED
      BY <3>1, LoadedRowsAreEntries
  <2> QED
    BY <1>1, <1>6, <2>1, <2>2, <2>3, GoesKeepsLocals
<1>16. CASE LoadFails(b)
  <2>1. pc[b] = "load" /\ task' = task /\ reading' = reading /\ overlapped' = overlapped
    BY <1>16 DEF LoadFails, history
  <2>2. Goes(b, "failed", task[b], reading[b], <<>>)
    BY <1>2, <1>3, <1>16, <2>1 DEF LoadFails, Goto, Goes
  <2> QED
    BY <1>1, <1>6, <2>1, <2>2, GoesKeepsLocals
<1>17. CASE WriteRow(b)
  <2>1. /\ pc[b] = "write" /\ batch[b] # <<>> /\ pc' = pc /\ task' = task /\ reading' = reading
        /\ overlapped' = overlapped /\ batch' = [batch EXCEPT ![b] = Tail(batch[b])]
    BY <1>17 DEF WriteRow, Writing, history
  <2>2. Goes(b, "write", task[b], reading[b], Tail(batch[b]))
    BY <1>2, <1>3, <1>4, <2>1 DEF Goes
  <2>3. Tail(batch[b]) \in Seq(Entry)
    BY <1>1, <2>1
  <2> QED
    BY <1>1, <1>6, <2>1, <2>2, <2>3, GoesKeepsLocals
<1>18. CASE Commit(b) \/ Abort(b)
  <2>1. /\ pc' = pc /\ task' = task /\ reading' = reading /\ batch' = batch
        /\ overlapped' = overlapped
    BY <1>18 DEF Commit, Abort, local, history
  <2> QED
    BY <2>1 DEF LocalsOK
<1>19. ASSUME "reset" \in Tasks, BeginReset(b) PROVE LocalsOK'
  <2>1. reading' = reading /\ overlapped' = overlapped
    BY <1>19 DEF BeginReset, history
  <2>2. PICK rows \in SetToSeqs(FoundRows(b)) : Goes(b, "delete", "reset", reading[b], rows)
    BY <1>3, <1>19, <2>1 DEF BeginReset, Goto, Goes
  <2>3. rows \in Seq(Entry)
    BY VisibleRows, FoundRowsAreEntries
  <2> QED
    BY <1>1, <1>6, <1>19, <2>1, <2>2, <2>3, GoesKeepsLocals
<1>20. CASE DeleteRow(b)
  <2>1. /\ pc[b] = "delete" /\ batch[b] # <<>> /\ pc' = pc /\ task' = task
        /\ reading' = reading /\ overlapped' = overlapped
        /\ batch' = [batch EXCEPT ![b] = Tail(batch[b])]
    BY <1>20 DEF DeleteRow, Deleting, history
  <2>2. Goes(b, "delete", task[b], reading[b], Tail(batch[b]))
    BY <1>2, <1>3, <1>4, <2>1 DEF Goes
  <2>3. Tail(batch[b]) \in Seq(Entry)
    BY <1>1, <2>1
  <2> QED
    BY <1>1, <1>6, <2>1, <2>2, <2>3, GoesKeepsLocals
<1> QED
  BY <1>9, <1>10, <1>11, <1>12, <1>13, <1>14, <1>15, <1>16, <1>17, <1>18, <1>19, <1>20
     DEF BackendStep, Elsewhere

\* The steps that change the array, and those that do not.
Touching(b) ==
  \/ \E scope \in Scopes, query \in Queries : RecordQueryObservation(b, scope, query)
  \/ FinishRestore(b) \/ ClearProfiles(b)

LEMMA ArrayStays ==
  ASSUME NEW b, BackendStep(b), ~Touching(b)
  PROVE  array' = array
<1>1. CASE \E kind \in Tasks : BeginTask(b, kind)
  BY <1>1 DEF BeginTask
<1>2. CASE RestoreFailed(b)
  BY <1>2 DEF RestoreFailed
<1>3. CASE CompletePersist(b)
  BY <1>3 DEF CompletePersist
<1>4. CASE Snapshot(b)
  BY <1>4 DEF Snapshot, ReservePersist, Flush, TakeSnapshot
<1>5. CASE Elsewhere(b)
  BY <1>5, ElsewhereKeepsShared
<1> QED
  BY <1>1, <1>2, <1>3, <1>4, <1>5 DEF BackendStep, Touching

LEMMA EmptyTableIsDistinct == DistinctTable(EmptyTable) /\ Occupied(EmptyTable) = {}
  BY DEF DistinctTable, EmptyTable, Occupied, Tables

LEMMA BackendKeepsArray ==
  ASSUME StoreInv, NEW b \in Backends, BackendStep(b)
  PROVE  DistinctTable(array')
<1>1. DistinctTable(array) /\ batch[b] \in Seq(Entry) /\ reading[b] \in Nat /\ Capacity > 0
  BY StoreAssumption DEF StoreInv, LocalsOK
<1>2. ASSUME NEW scope \in Scopes, NEW query \in Queries,
             RecordQueryObservation(b, scope, query)
      PROVE  DistinctTable(array')
  <2> DEFINE first == Upsert(array, <<scope, query>>, 1, reading[b])
  <2>1. <<scope, query>> \in Keys /\ <<Global, query>> \in Keys
    BY DEF Keys
  <2>2. DistinctTable(first)
    BY <1>1, <2>1, UpsertKeepsDistinct
  <2>3. array' = Upsert(first, <<Global, query>>, 1, reading[b])
    BY <1>2 DEF RecordQueryObservation, UpsertScopedAndGlobal
  <2> HIDE DEF first
  <2> QED
    BY <1>1, <2>1, <2>2, <2>3, UpsertKeepsDistinct
<1>3. CASE FinishRestore(b)
  <2>1. array' = RestoreAll(array, batch[b])
    BY <1>3 DEF FinishRestore
  <2> QED
    BY <1>1, <2>1, RestoreKeepsSeen
<1>4. CASE ClearProfiles(b)
  BY <1>4, EmptyTableIsDistinct DEF ClearProfiles
<1>5. CASE ~Touching(b)
  BY <1>1, <1>5, ArrayStays
<1> QED
  BY <1>2, <1>3, <1>4, <1>5 DEF Touching

\* A step of one backend leaves the places, the rows and the transactions of
\* the others alone.
LEMMA OthersStay ==
  ASSUME LocalsOK, RowsOK, NEW b \in Backends, BackendStep(b), NEW x \in Backends, x # b
  PROVE  /\ pc'[x] = pc[x] /\ batch'[x] = batch[x] /\ pending'[x] = pending[x]
         /\ ~Touching(b) => overlapped'[x] = overlapped[x]
<1>1. /\ pc \in [Backends -> Labels] /\ batch \in [Backends -> Seq(Entry)]
      /\ overlapped \in [Backends -> BOOLEAN]
      /\ pending \in [Backends -> [Keys -> Profile \cup {Missing, Kept}]]
  BY DEF LocalsOK, RowsOK
<1>2. CASE \E kind \in Tasks : BeginTask(b, kind)
  BY <1>1, <1>2 DEF BeginTask, Goto, history
<1>3. CASE Touching(b)
  BY <1>1, <1>3 DEF Touching, RecordQueryObservation, FinishRestore, ClearProfiles, Goto
<1>4. CASE RestoreFailed(b)
  BY <1>1, <1>4 DEF RestoreFailed, Finished, Goto
<1>5. CASE CompletePersist(b)
  BY <1>1, <1>5 DEF CompletePersist, Finished, Goto
<1>6. CASE Snapshot(b)
  BY <1>1, <1>6 DEF Snapshot, ReservePersist, Flush, TakeSnapshot, Goto, history
<1>7. CASE BeginReset(b) \/ DeleteRow(b)
  BY <1>1, <1>7 DEF BeginReset, DeleteRow, Goto, history
<1>8. CASE Load(b)
  BY <1>1, <1>8 DEF Load, Goto, history
<1>9. CASE LoadFails(b)
  BY <1>1, <1>9 DEF LoadFails, Goto, history
<1>10. CASE PersistNotDue(b)
  BY <1>1, <1>10 DEF PersistNotDue, Finished, Goto
<1>11. CASE WriteRow(b)
  BY <1>1, <1>11 DEF WriteRow, history
<1>12. CASE PersistFails(b)
  BY <1>1, <1>12 DEF PersistFails, Finished, Goto
<1>13. CASE Commit(b) \/ Abort(b)
  BY <1>1, <1>13 DEF Commit, Abort, local, history
<1>14. CASE Raise(b) \/ Deadlock(b)
  BY <1>1, <1>14 DEF Raise, Deadlock, Unwind, Finished, Goto
<1> QED
  BY <1>2, <1>3, <1>4, <1>5, <1>6, <1>7, <1>8, <1>9, <1>10, <1>11, <1>12, <1>13, <1>14
     DEF BackendStep, Touching, Elsewhere

\* Writing a row takes the entry from the rows to the transaction.
LEMMA WriteKeepsSnapshot ==
  ASSUME StoreInv, NEW b \in Backends, WriteRow(b)
  PROVE  SnapshotOK(b)'
<1> DEFINE rows == batch[b]
           row == Head(rows)
<1>1. /\ pc[b] = "write" /\ HasTable(b) /\ rows # <<>> /\ array' = array
      /\ batch' = [batch EXCEPT ![b] = Tail(rows)]
      /\ pending' = [pending EXCEPT ![b][row.key] = row.profile]
      /\ overlapped' = overlapped
  BY DEF WriteRow, Writing, shared, history
<1>2. /\ rows \in Seq(Entry) /\ DistinctTable(array)
      /\ batch \in [Backends -> Seq(Entry)]
      /\ pending \in [Backends -> [Keys -> Profile \cup {Missing, Kept}]]
      /\ SnapshotOK(b)
  BY DEF StoreInv, LocalsOK, RowsOK
<1> SUFFICES ASSUME ~overlapped[b]
             PROVE  /\ \A slot \in Occupied(array) :
                         \/ pending'[b][array[slot].key] = array[slot].profile
                         \/ \E i \in DOMAIN batch'[b] : batch'[b][i] = array[slot]
                    /\ \A i \in DOMAIN batch'[b] :
                         \E slot \in Occupied(array) : batch'[b][i] = array[slot]
  BY <1>1 DEF SnapshotOK
<1>3. /\ \A slot \in Occupied(array) :
           \/ pending[b][array[slot].key] = array[slot].profile
           \/ \E i \in DOMAIN rows : rows[i] = array[slot]
      /\ \A i \in DOMAIN rows : \E slot \in Occupied(array) : rows[i] = array[slot]
  BY <1>1, <1>2 DEF SnapshotOK
<1> DEFINE rest == Tail(rows)
<1>4. batch'[b] = rest
  BY <1>1, <1>2
<1>5. /\ pending'[b] = [pending[b] EXCEPT ![row.key] = row.profile]
      /\ pending[b] \in [Keys -> Profile \cup {Missing, Kept}]
  BY <1>1, <1>2
<1> HIDE DEF rows
<1>6. /\ Len(rows) \in Nat \ {0} /\ DOMAIN rows = 1..Len(rows) /\ row = rows[1]
      /\ DOMAIN rest = 1..(Len(rows) - 1)
      /\ \A i \in 1..(Len(rows) - 1) : rest[i] = rows[i + 1]
  BY <1>1, <1>2
<1> HIDE DEF row, rest
<1>7. PICK mine \in Occupied(array) : row = array[mine]
  BY <1>3, <1>6
<1>8. ASSUME NEW slot \in Occupied(array)
      PROVE  \/ pending'[b][array[slot].key] = array[slot].profile
             \/ \E i \in DOMAIN rest : rest[i] = array[slot]
  <2>1. array[slot] \in Entry /\ array[slot].key \in Keys
    BY <1>2, OccupiedHasEntry, EntryIsNotFree DEF DistinctTable
  <2>2. CASE array[slot].key = row.key
    <3>1. slot = mine
      BY <1>2, <1>7, <2>2 DEF DistinctTable
    <3> QED
      BY <1>5, <1>7, <2>1, <3>1
  <2>3. CASE array[slot].key # row.key /\ pending[b][array[slot].key] = array[slot].profile
    BY <1>5, <2>1, <2>3
  <2>4. ASSUME array[slot].key # row.key, NEW i \in DOMAIN rows, rows[i] = array[slot]
        PROVE  \E j \in DOMAIN rest : rest[j] = array[slot]
    <3>1. i # 1
      BY <1>6, <2>4
    <3>2. i - 1 \in DOMAIN rest /\ rest[i - 1] = rows[i]
      BY <1>6, <2>4, <3>1
    <3> QED
      BY <2>4, <3>2
  <2> QED
    BY <1>3, <2>2, <2>3, <2>4
<1>9. ASSUME NEW i \in DOMAIN rest
      PROVE  \E slot \in Occupied(array) : rest[i] = array[slot]
  <2>1. i + 1 \in DOMAIN rows /\ rest[i] = rows[i + 1]
    BY <1>6
  <2> QED
    BY <1>3, <2>1
<1> QED
  BY <1>4, <1>8, <1>9

LEMMA BackendKeepsSnapshots ==
  ASSUME StoreInv, NEW b \in Backends, BackendStep(b), NEW x \in Backends
  PROVE  SnapshotOK(x)'
<1>1. /\ LocalsOK /\ RowsOK /\ DistinctTable(array) /\ SnapshotOK(x)
      /\ pc \in [Backends -> Labels] /\ batch \in [Backends -> Seq(Entry)]
  BY DEF StoreInv, LocalsOK
<1>2. CASE Touching(b)
  <2>1. Touched /\ \E label \in {"idle", "ready"} : pc' = [pc EXCEPT ![b] = label]
    BY <1>2 DEF Touching, RecordQueryObservation, FinishRestore, ClearProfiles, Goto
  <2>2. pc'[x] = "write" => overlapped'[x]
    BY <1>1, <2>1 DEF Touched
  <2> QED
    BY <2>2 DEF SnapshotOK
<1>3. CASE ~Touching(b) /\ x # b
  <2>1. array' = array
    BY <1>3, ArrayStays
  <2>2. /\ pc'[x] = pc[x] /\ batch'[x] = batch[x] /\ pending'[x] = pending[x]
        /\ overlapped'[x] = overlapped[x]
    BY <1>1, <1>3, OthersStay
  <2> QED
    BY <1>1, <2>1, <2>2 DEF SnapshotOK, HasTable
<1>4. CASE ~Touching(b) /\ x = b
  <2>1. CASE Snapshot(b)
    <3>1. array' = array /\ batch'[b] = SnapshotOf(array)
      BY <1>1, <2>1 DEF Snapshot, ReservePersist, Flush, TakeSnapshot, Goto
    <3> QED
      BY <1>1, <1>4, <3>1, SnapshotFacts DEF SnapshotOK
  <2>2. CASE WriteRow(b)
    BY <1>4, <2>2, WriteKeepsSnapshot
  <2>3. CASE ~Snapshot(b) /\ ~WriteRow(b)
    <3> SUFFICES pc'[b] # "write"
      BY <1>4 DEF SnapshotOK
    <3>1. CASE \E kind \in Tasks : BeginTask(b, kind)
      BY <1>1, <3>1 DEF BeginTask, Goto, EntryLabel
    <3>2. CASE RestoreFailed(b) \/ CompletePersist(b) \/ PersistNotDue(b) \/ PersistFails(b)
               \/ Raise(b) \/ Deadlock(b)
      <4>1. Finished(b)
        BY <3>2 DEF RestoreFailed, PersistNotDue, CompletePersist, PersistFails, Raise,
                    Deadlock, Unwind
      <4> QED
        BY <1>1, <4>1 DEF Finished, Goto
    <3>3. CASE BeginReset(b) \/ DeleteRow(b) \/ Load(b) \/ LoadFails(b)
      BY <1>1, <3>3 DEF BeginReset, DeleteRow, Deleting, Load, LoadFails, Goto
    <3>4. CASE Commit(b) \/ Abort(b)
      BY <1>1, <3>4 DEF Commit, Abort, local
    <3> QED
      BY <1>4, <2>3, <3>1, <3>2, <3>3, <3>4 DEF BackendStep, Touching, Elsewhere
  <2> QED
    BY <2>1, <2>2, <2>3
<1> QED
  BY <1>2, <1>3, <1>4

LEMMA RestartKeepsStore ==
  ASSUME StoreInv, Restart
  PROVE  StoreInv'
<1>1. DistinctTable(array')
  BY EmptyTableIsDistinct DEF Restart
<1>2. LocalsOK'
  <2>1. AllIdle'
    BY DEF Restart, AllIdle
  <2> QED
    BY <2>1, IdleLocals, PTL
<1>3. RowsOK'
  <2>1. NoChanges \in [Keys -> Profile \cup {Missing, Kept}]
    BY DEF NoChanges
  <2>2. durable' = durable /\ pending' = [b \in Backends |-> NoChanges]
    BY DEF Restart
  <2> QED
    BY <2>1, <2>2 DEF StoreInv, RowsOK
<1>4. TimesOK'
  <2>1. MaxU64 \in Nat
    BY MaxU64Assumption
  <2>2. clock \in Nat /\ restarts \in Nat
    BY DEF StoreInv, TimesOK
  <2>3. /\ clock' = clock /\ restarts' = restarts + 1 /\ started' = 0 /\ lastPersist' = 0
        /\ marks' = 0
    BY DEF Restart
  <2>4. /\ clock' \in Nat /\ restarts' \in Nat /\ started' \in 0..clock'
        /\ lastPersist' \in 0..clock' /\ marks' \in 0..MaxU64
    BY <2>1, <2>2, <2>3
  <2>5. restore' \in {"not attempted", "in progress", "loaded", "failed"}
    BY DEF Restart
  <2> QED
    BY <2>4, <2>5 DEF TimesOK
<1>5. \A b \in Backends : SnapshotOK(b)'
  BY DEF Restart, SnapshotOK
<1> QED
  BY <1>1, <1>2, <1>3, <1>4, <1>5 DEF StoreInv

LEMMA TickKeepsStore ==
  ASSUME StoreInv, Tick
  PROVE  StoreInv'
<1>1. /\ array' = array /\ restore' = restore /\ started' = started
      /\ lastPersist' = lastPersist /\ marks' = marks /\ durable' = durable
      /\ pending' = pending /\ task' = task /\ pc' = pc /\ reading' = reading
      /\ batch' = batch /\ restarts' = restarts /\ overlapped' = overlapped
      /\ clock' = clock + 1
  BY DEF Tick, shared, local, history
<1>2. TimesOK'
  <2>1. clock \in Nat /\ started \in 0..clock /\ lastPersist \in 0..clock
    BY DEF StoreInv, TimesOK
  <2>2. clock' \in Nat /\ started' \in 0..clock' /\ lastPersist' \in 0..clock'
    BY <1>1, <2>1
  <2> QED
    BY <1>1, <2>2 DEF StoreInv, TimesOK
<1>3. LocalsOK' /\ RowsOK'
  BY <1>1 DEF StoreInv, LocalsOK, RowsOK
<1>4. \A b \in Backends : SnapshotOK(b)'
  BY <1>1 DEF StoreInv, SnapshotOK, HasTable
<1> QED
  BY <1>1, <1>2, <1>3, <1>4 DEF StoreInv

LEMMA StepKeepsStore == StoreInv /\ [StoreNext]_storeVars => StoreInv'
<1> SUFFICES ASSUME StoreInv, [StoreNext]_storeVars
             PROVE  StoreInv'
  OBVIOUS
<1>1. ASSUME NEW b \in Backends, BackendStep(b) PROVE StoreInv'
  <2>1. DistinctTable(array')
    BY <1>1, BackendKeepsArray
  <2>2. LocalsOK'
    BY <1>1, BackendKeepsLocals DEF StoreInv
  <2>3. RowsOK' /\ TimesOK'
    BY <1>1, BackendKeepsRows, BackendKeepsTimes DEF StoreInv
  <2>4. \A x \in Backends : SnapshotOK(x)'
    BY <1>1, BackendKeepsSnapshots
  <2> QED
    BY <2>1, <2>2, <2>3, <2>4 DEF StoreInv
<1>2. CASE Restart
  BY <1>2, RestartKeepsStore
<1>3. CASE Tick
  BY <1>3, TickKeepsStore
<1>4. CASE UNCHANGED storeVars
  <2>1. /\ array' = array /\ restore' = restore /\ started' = started
        /\ lastPersist' = lastPersist /\ marks' = marks /\ durable' = durable
        /\ pending' = pending /\ task' = task /\ pc' = pc /\ reading' = reading
        /\ batch' = batch /\ clock' = clock /\ restarts' = restarts
        /\ overlapped' = overlapped
    BY <1>4 DEF storeVars, shared, local, bounds, history
  <2>2. LocalsOK' /\ RowsOK' /\ TimesOK'
    BY <2>1 DEF StoreInv, LocalsOK, RowsOK, TimesOK
  <2>3. \A b \in Backends : SnapshotOK(b)'
    BY <2>1 DEF StoreInv, SnapshotOK, HasTable
  <2> QED
    BY <2>1, <2>2, <2>3 DEF StoreInv
<1> QED
  BY <1>1, <1>2, <1>3, <1>4, StoreSteps

LEMMA StoreInvHolds == StoreSpec => []StoreInv
<1>1. StoreInit => StoreInv
  BY InitialStore
<1>2. StoreInv /\ [StoreNext]_storeVars => StoreInv'
  BY StepKeepsStore
<1> QED
  BY <1>1, <1>2, PTL DEF StoreSpec

\* The step that finishes a restore is the one that is named so.
LEMMA FinishingStep ==
  ASSUME LocalsOK, NEW b \in Backends, BackendStep(b), pc[b] = "finish", pc'[b] = "ready"
  PROVE  array' = RestoreAll(array, batch[b])
<1>1. pc \in [Backends -> Labels]
  BY DEF LocalsOK
<1>2. CASE FinishRestore(b)
  BY <1>2 DEF FinishRestore
<1>3. CASE ~FinishRestore(b)
  <2>1. ~\E kind \in Tasks : BeginTask(b, kind)
    BY DEF BeginTask
  <2>2. ~\E scope \in Scopes, query \in Queries : RecordQueryObservation(b, scope, query)
    BY DEF RecordQueryObservation
  <2>3. ~RestoreFailed(b) /\ ~CompletePersist(b) /\ ~ClearProfiles(b) /\ ~Snapshot(b)
    BY DEF RestoreFailed, CompletePersist, ClearProfiles, Snapshot, ReservePersist, Flush
  <2>4. ~BeginReset(b) /\ ~DeleteRow(b) /\ ~Load(b) /\ ~LoadFails(b) /\ ~PersistNotDue(b) /\ ~WriteRow(b)
        /\ ~PersistFails(b) /\ ~Commit(b) /\ ~Abort(b) /\ ~Raise(b)
    BY DEF BeginReset, DeleteRow, Deleting, Load, LoadFails, PersistNotDue, WriteRow,
           PersistFails, Writing, Commit, Abort, Raise
  <2>5. ~Deadlock(b)
    BY <1>1 DEF Deadlock, Unwind, Finished, Goto
  <2> QED
    BY <1>3, <2>1, <2>2, <2>3, <2>4, <2>5 DEF BackendStep, Elsewhere
<1> QED
  BY <1>2, <1>3

LEMMA ProfileIsNotKept ==
  ASSUME NEW profile \in Profile
  PROVE  profile # Kept
<1>1. DOMAIN profile = {"calls", "ewma", "max", "lastSeen"}
  BY DEF Profile
<1>2. DOMAIN Kept = {"row"}
  BY DEF Kept
<1>3. "row" \notin DOMAIN profile
  BY <1>1
<1> QED
  BY <1>2, <1>3

LEMMA RestartCounts ==
  ASSUME StoreInv, Restart
  PROVE  restarts' # restarts
<1>1. restarts \in Nat
  BY DEF StoreInv, TimesOK
<1>2. restarts' = restarts + 1
  BY DEF Restart
<1> QED
  BY <1>1, <1>2

-----------------------------------------------------------------------------
(* The profile store: its theorems.                                        *)

\* Whatever backends do and wherever they are interrupted, the array, the rows
\* and the open transactions hold profiles, and the times of the restore and of
\* the persist are in the past (src/shmem/profiles.rs, src/profile_store.rs).
THEOREM StoreTypeCorrect == StoreSpec => []StoreTypeOK
<1>1. StoreInv => StoreTypeOK
  BY DEF StoreInv, StoreTypeOK, DistinctTable, Tables, LocalsOK, RowsOK, TimesOK
<1> QED
  BY <1>1, StoreInvHolds, PTL

\* A finished restore stays finished until the server restarts, although a
\* backend whose restore was taken over may still fail or finish
\* (mark_profile_restore_failed, finish_profile_restore).
THEOREM LoadedStaysLoaded == StoreSpec => LoadedIsFinal
<1> DEFINE Final == restore = "loaded" /\ restarts' = restarts => restore' = "loaded"
<1>1. StoreInv /\ [StoreNext]_storeVars => [Final]_storeVars
  <2> SUFFICES ASSUME StoreInv, [StoreNext]_storeVars, restore = "loaded", restarts' = restarts
               PROVE  restore' = "loaded"
    OBVIOUS
  <2>1. ASSUME NEW b \in Backends, BackendStep(b) PROVE restore' = "loaded"
    <3>1. CASE \E kind \in Tasks : BeginTask(b, kind)
      BY <3>1 DEF BeginTask, NeedsRestore
    <3>2. CASE \E scope \in Scopes, query \in Queries : RecordQueryObservation(b, scope, query)
      BY <3>2 DEF RecordQueryObservation
    <3>3. CASE RestoreFailed(b)
      BY <3>3 DEF RestoreFailed, MarkRestoreFailed
    <3>4. CASE FinishRestore(b) \/ ClearProfiles(b)
      BY <3>4 DEF FinishRestore, ClearProfiles
    <3>5. CASE CompletePersist(b)
      BY <3>5 DEF CompletePersist
    <3>6. CASE Snapshot(b)
      BY <3>6 DEF Snapshot, ReservePersist, Flush, TakeSnapshot
    <3>7. CASE Elsewhere(b)
      BY <3>7, ElsewhereKeepsShared
    <3> QED
      BY <2>1, <3>1, <3>2, <3>3, <3>4, <3>5, <3>6, <3>7 DEF BackendStep
  <2>2. ~Restart
    BY RestartCounts
  <2>3. CASE Tick \/ UNCHANGED storeVars
    BY <2>3 DEF Tick, storeVars, shared
  <2> QED
    BY <2>1, <2>2, <2>3, StoreSteps
<1>2. LoadedIsFinal <=> [][Final]_storeVars
  BY DEF LoadedIsFinal
<1> QED
  BY <1>1, <1>2, StoreInvHolds, PTL DEF StoreSpec

\* A restore that merges its rows late, after others have observed or restored,
\* leaves no profile older than it was (finish_profile_restore).
THEOREM RestoreNeverRegresses == StoreSpec => RestoreKeepsNewer
<1> DEFINE Newer ==
      \A b \in Backends : pc[b] = "finish" /\ pc'[b] = "ready" =>
        \A key \in KeysOf(array) \cap KeysOf(array') :
          \A before \in LastSeen(array, key), after \in LastSeen(array', key) :
            before <= after
<1>1. StoreInv /\ [StoreNext]_storeVars => [Newer]_storeVars
  <2> SUFFICES ASSUME StoreInv, [StoreNext]_storeVars,
                      NEW b \in Backends, pc[b] = "finish", pc'[b] = "ready",
                      NEW key \in KeysOf(array) \cap KeysOf(array'),
                      NEW before \in LastSeen(array, key), NEW after \in LastSeen(array', key)
               PROVE  before <= after
    OBVIOUS
  <2>1. array' = RestoreAll(array, batch[b])
    <3>1. PICK x \in Backends : BackendStep(x)
      BY StoreSteps DEF Restart, Tick, storeVars, local
    <3>2. x = b
      BY <3>1, OthersStay DEF StoreInv
    <3> QED
      BY <3>1, <3>2, FinishingStep DEF StoreInv
  <2>2. DistinctTable(array) /\ batch[b] \in Seq(Entry) /\ Capacity > 0
    BY StoreAssumption DEF StoreInv, LocalsOK
  <2> DEFINE table == array'
  <2>3. DistinctTable(table) /\ \A slot \in Occupied(array) : EntrySeenSince(array[slot], table)
    BY <2>1, <2>2, RestoreKeepsSeen
  <2>4. PICK slot \in Occupied(array) :
          array[slot].key = key /\ before = array[slot].profile.lastSeen
    BY DEF LastSeen, SlotsOfKey
  <2>5. PICK now \in Occupied(table) : table[now].key = key /\ after = table[now].profile.lastSeen
    BY DEF LastSeen, SlotsOfKey
  <2> HIDE DEF table
  <2>6. CASE \E s \in Occupied(table) :
               /\ table[s].key = array[slot].key
               /\ array[slot].profile.lastSeen <= table[s].profile.lastSeen
    BY <2>3, <2>4, <2>5, <2>6 DEF DistinctTable
  <2>7. CASE \A s \in Slots : array[slot].profile.lastSeen <= table[s].profile.lastSeen
    BY <2>4, <2>5, <2>7 DEF Occupied
  <2> QED
    BY <2>3, <2>6, <2>7 DEF EntrySeenSince
<1>2. RestoreKeepsNewer <=> [][Newer]_storeVars
  BY DEF RestoreKeepsNewer
<1> QED
  BY <1>1, <1>2, StoreInvHolds, PTL DEF StoreSpec

\* A persist that no change of the array overlapped leaves every live profile in
\* its transaction as it is in the array, whatever it and others wrote or deleted
\* before (reserve_profile_persist, persist_profiles, complete_profile_persist).
THEOREM PersistIsComplete == StoreSpec => UndisturbedPersistIsComplete
<1> DEFINE Complete ==
      \A b \in Backends :
        CompletePersist(b) /\ HasTable(b) /\ ~overlapped[b] =>
          \A slot \in Occupied(array) :
            Visible(b)[array[slot].key] = array[slot].profile
<1>1. StoreInv => Complete
  <2> SUFFICES ASSUME StoreInv, NEW b \in Backends, CompletePersist(b), HasTable(b),
                      ~overlapped[b], NEW slot \in Occupied(array)
               PROVE  Visible(b)[array[slot].key] = array[slot].profile
    OBVIOUS
  <2>1. pc[b] = "write" /\ batch[b] = <<>>
    BY DEF CompletePersist, Written
  <2>2. pending[b][array[slot].key] = array[slot].profile
    <3>1. DOMAIN batch[b] = {}
      BY <2>1
    <3> QED
      BY <2>1, <3>1 DEF StoreInv, SnapshotOK
  <2>3. array[slot].key \in Keys /\ array[slot].profile \in Profile
    BY OccupiedHasEntry, EntryIsNotFree DEF StoreInv, DistinctTable
  <2>4. array[slot].profile # Kept
    BY <2>3, ProfileIsNotKept
  <2> QED
    BY <2>2, <2>3, <2>4 DEF Visible
<1>2. UndisturbedPersistIsComplete <=> [][Complete]_storeVars
  BY DEF UndisturbedPersistIsComplete
<1> QED
  BY <1>1, <1>2, StoreInvHolds, PTL DEF StoreSpec
=============================================================================
