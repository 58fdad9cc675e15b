------------------------ MODULE SharedMemory_proofs ------------------------
(***************************************************************************)
(* The shared memory segment.  Its arrays never overlap and never leave    *)
(* it, for every size of the header and of the records, every alignment    *)
(* and every capacity, so no write reaches another record's bytes or the   *)
(* header's.  And one of them, the array of budget buckets, implements the *)
(* map that BudgetAdmission works on, for every set of keys, every         *)
(* contents of a bucket and every capacity that is a natural number.       *)
(***************************************************************************)
EXTENDS SharedLayout, BudgetBucketTable, FiniteSetTheorems, TLAPS

-----------------------------------------------------------------------------
(* Arithmetic.                                                             *)

\* Integer division rounds down to within one divisor.
LEMMA DivisionBounds ==
  ASSUME NEW n \in Nat, NEW d \in Nat \ {0}
  PROVE  /\ n \div d \in Nat
         /\ d * (n \div d) \in Nat
         /\ n < d * (n \div d) + d
  BY Z3

\* align_up never goes back.
LEMMA AlignUpBound ==
  ASSUME NEW value \in Nat, NEW alignment \in Nat \ {0}
  PROVE  AlignUp(value, alignment) \in Nat /\ AlignUp(value, alignment) >= value
<1> DEFINE n == value + (alignment - 1)
<1>1. n \in Nat
  OBVIOUS
<1>2. /\ alignment * (n \div alignment) \in Nat
      /\ n < alignment * (n \div alignment) + alignment
  BY <1>1, DivisionBounds
<1> QED
  BY <1>1, <1>2 DEF AlignUp

\* A product of naturals is a natural.
LEMMA ProductNat ==
  ASSUME NEW a \in Nat, NEW b \in Nat
  PROVE  a * b \in Nat
  OBVIOUS

\* An earlier record of an array ends before a later one, or before the end of
\* the array, begins.
LEMMA RecordsInOrder ==
  ASSUME NEW slot \in Nat, NEW later \in Nat, NEW size \in Nat, slot < later
  PROVE  /\ slot * size \in Nat /\ later * size \in Nat
         /\ slot * size + size <= later * size
<1>1. (slot + 1) * size <= later * size
  BY Z3
<1>2. (slot + 1) * size = slot * size + size
  BY Z3
<1> QED
  BY <1>1, <1>2, ProductNat

\* A multiple of a divisor is reached by what it divides into.
LEMMA MultipleOf ==
  ASSUME NEW n \in Nat, NEW d \in Nat \ {0}, n % d = 0
  PROVE  n = (n \div d) * d /\ n \div d \in Nat
  BY Z3

\* align_up goes beyond a limit in front of a multiple of the alignment when
\* its addition does: the check of the addition refuses nothing else.
LEMMA AlignUpPast ==
  ASSUME NEW value \in Nat, NEW alignment \in Nat \ {0}, NEW limit \in Nat,
         (limit + 1) % alignment = 0, value + (alignment - 1) > limit
  PROVE  AlignUp(value, alignment) > limit
<1> DEFINE n == value + (alignment - 1)
           m == n \div alignment
           q == (limit + 1) \div alignment
<1>1. n \in Nat /\ n >= limit + 1
  OBVIOUS
<1>2. m \in Nat /\ alignment * m \in Nat /\ n < alignment * m + alignment
  BY <1>1, DivisionBounds
<1>3. q \in Nat /\ limit + 1 = q * alignment
  BY MultipleOf
<1>4. AlignUp(value, alignment) = alignment * m
  BY DEF AlignUp
<1> HIDE DEF n, m, q
<1>5. alignment * m = m * alignment
  BY <1>2
<1>6. ~(m < q)
  <2> SUFFICES ASSUME m < q PROVE FALSE
    OBVIOUS
  <2>1. m * alignment + alignment <= q * alignment /\ m * alignment \in Nat
    BY <1>2, <1>3, RecordsInOrder
  <2> QED
    BY <1>1, <1>2, <1>3, <1>5, <2>1
<1>7. q * alignment <= m * alignment
  <2>1. CASE q = m
    BY <1>3, <2>1
  <2>2. CASE q < m
    <3>1. q * alignment + alignment <= m * alignment /\ q * alignment \in Nat
          /\ m * alignment \in Nat
      BY <1>2, <1>3, <2>2, RecordsInOrder
    <3> QED
      BY <3>1
  <2> QED
    BY <1>2, <1>3, <1>6, <2>1, <2>2
<1> QED
  BY <1>2, <1>3, <1>4, <1>5, <1>7

-----------------------------------------------------------------------------
(* The layout.                                                             *)

\* A step of compute_layout: an array lies between its offset, which is not in
\* front of the array before it, and what is behind it.
LEMMA EndBound ==
  ASSUME NEW array \in Arrays, NEW from \in Nat, NEW capacity \in Nat
  PROVE  /\ Offset(array, from) \in Nat /\ End(array, from, capacity) \in Nat
         /\ from <= Offset(array, from)
         /\ Offset(array, from) <= End(array, from, capacity)
<1>1. Alignment[array] \in Nat \ {0} /\ ItemSize[array] \in Nat
  BY SizeAssumption
<1>2. Offset(array, from) \in Nat /\ from <= Offset(array, from)
  BY <1>1, AlignUpBound DEF Offset
<1>3. capacity * ItemSize[array] \in Nat
  BY <1>1, ProductNat
<1> QED
  BY <1>2, <1>3 DEF End

\* The chain of the arrays: each begins behind the one before it, the first
\* behind the header.
LEMMA Chain ==
  ASSUME NEW capacities \in [Arrays -> Nat]
  PROVE  LET behind == Behind(capacities) IN
         /\ behind[1] = HeaderSize
         /\ \A array \in Arrays :
              /\ behind[array] \in Nat /\ behind[array + 1] \in Nat
              /\ OffsetOf(capacities, array) \in Nat
              /\ behind[array] <= OffsetOf(capacities, array)
              /\ OffsetOf(capacities, array) <= behind[array + 1]
              /\ behind[array + 1] =
                   OffsetOf(capacities, array) + capacities[array] * ItemSize[array]
<1> DEFINE b1 == HeaderSize
           b2 == End(1, b1, capacities[1])
           b3 == End(2, b2, capacities[2])
           b4 == End(3, b3, capacities[3])
           b5 == End(4, b4, capacities[4])
<1>1. Behind(capacities) = <<b1, b2, b3, b4, b5>>
  BY DEF Behind
<1>2. /\ 1 \in Arrays /\ 2 \in Arrays /\ 3 \in Arrays /\ 4 \in Arrays
      /\ capacities[1] \in Nat /\ capacities[2] \in Nat
      /\ capacities[3] \in Nat /\ capacities[4] \in Nat
  BY DEF Arrays
<1>3. b1 \in Nat
  BY SizeAssumption
<1>4. b2 \in Nat /\ Offset(1, b1) \in Nat /\ b1 <= Offset(1, b1) /\ Offset(1, b1) <= b2
  BY <1>2, <1>3, EndBound
<1>5. b3 \in Nat /\ Offset(2, b2) \in Nat /\ b2 <= Offset(2, b2) /\ Offset(2, b2) <= b3
  BY <1>2, <1>4, EndBound
<1>6. b4 \in Nat /\ Offset(3, b3) \in Nat /\ b3 <= Offset(3, b3) /\ Offset(3, b3) <= b4
  BY <1>2, <1>5, EndBound
<1>7. b5 \in Nat /\ Offset(4, b4) \in Nat /\ b4 <= Offset(4, b4) /\ Offset(4, b4) <= b5
  BY <1>2, <1>6, EndBound
<1>8. /\ b2 = Offset(1, b1) + capacities[1] * ItemSize[1]
      /\ b3 = Offset(2, b2) + capacities[2] * ItemSize[2]
      /\ b4 = Offset(3, b3) + capacities[3] * ItemSize[3]
      /\ b5 = Offset(4, b4) + capacities[4] * ItemSize[4]
  BY DEF End
<1> HIDE DEF b1, b2, b3, b4, b5
<1>9. /\ Behind(capacities)[1] = b1 /\ Behind(capacities)[2] = b2
      /\ Behind(capacities)[3] = b3 /\ Behind(capacities)[4] = b4
      /\ Behind(capacities)[5] = b5
  BY <1>1
<1>10. /\ OffsetOf(capacities, 1) = Offset(1, b1)
       /\ OffsetOf(capacities, 2) = Offset(2, b2)
       /\ OffsetOf(capacities, 3) = Offset(3, b3)
       /\ OffsetOf(capacities, 4) = Offset(4, b4)
  BY <1>9 DEF OffsetOf
<1>11. \A array \in Arrays : array = 1 \/ array = 2 \/ array = 3 \/ array = 4
  BY DEF Arrays
<1>12. b1 = HeaderSize
  BY DEF b1
<1> QED
  BY <1>3, <1>4, <1>5, <1>6, <1>7, <1>8, <1>9, <1>10, <1>11, <1>12

\* An array ends before a later one begins.
LEMMA ArraysInOrder ==
  ASSUME NEW capacities \in [Arrays -> Nat], NEW array \in Arrays,
         NEW later \in Arrays, array < later
  PROVE  Behind(capacities)[array + 1] <= OffsetOf(capacities, later)
<1> DEFINE behind == Behind(capacities)
<1>1. \A a \in Arrays :
        /\ behind[a] \in Nat /\ behind[a + 1] \in Nat /\ OffsetOf(capacities, a) \in Nat
        /\ behind[a] <= OffsetOf(capacities, a)
        /\ OffsetOf(capacities, a) <= behind[a + 1]
  BY Chain
<1> HIDE DEF behind
<1>2. /\ behind[2] <= OffsetOf(capacities, 2) /\ OffsetOf(capacities, 2) <= behind[3]
      /\ behind[3] <= OffsetOf(capacities, 3) /\ OffsetOf(capacities, 3) <= behind[4]
      /\ behind[4] <= OffsetOf(capacities, 4)
      /\ behind[2] \in Nat /\ behind[3] \in Nat /\ behind[4] \in Nat
      /\ OffsetOf(capacities, 2) \in Nat /\ OffsetOf(capacities, 3) \in Nat
      /\ OffsetOf(capacities, 4) \in Nat
  BY <1>1 DEF Arrays
<1>3. CASE array = 1
  BY <1>2, <1>3 DEF Arrays, behind
<1>4. CASE array = 2
  BY <1>2, <1>4 DEF Arrays, behind
<1>5. CASE array = 3
  BY <1>2, <1>5 DEF Arrays, behind
<1> QED
  BY <1>3, <1>4, <1>5 DEF Arrays

\* What is behind an array is within the segment.
LEMMA BehindWithin ==
  ASSUME NEW capacities \in [Arrays -> Nat], NEW array \in Arrays
  PROVE  /\ TotalBytes(capacities) \in Nat
         /\ HeaderSize <= OffsetOf(capacities, array)
         /\ Behind(capacities)[array + 1] <= TotalBytes(capacities)
         /\ HeaderSize <= TotalBytes(capacities)
<1> DEFINE behind == Behind(capacities)
<1>1. /\ behind[1] = HeaderSize
      /\ \A a \in Arrays :
           /\ behind[a] \in Nat /\ behind[a + 1] \in Nat /\ OffsetOf(capacities, a) \in Nat
           /\ behind[a] <= OffsetOf(capacities, a)
           /\ OffsetOf(capacities, a) <= behind[a + 1]
  BY Chain
<1>2. TotalBytes(capacities) = behind[5]
  BY DEF TotalBytes
<1> HIDE DEF behind
<1>3. /\ behind[1] = HeaderSize /\ behind[1] \in Nat /\ behind[2] \in Nat
      /\ behind[3] \in Nat /\ behind[4] \in Nat /\ behind[5] \in Nat
      /\ behind[1] <= OffsetOf(capacities, 1) /\ OffsetOf(capacities, 1) <= behind[2]
      /\ behind[2] <= OffsetOf(capacities, 2) /\ OffsetOf(capacities, 2) <= behind[3]
      /\ behind[3] <= OffsetOf(capacities, 3) /\ OffsetOf(capacities, 3) <= behind[4]
      /\ behind[4] <= OffsetOf(capacities, 4) /\ OffsetOf(capacities, 4) <= behind[5]
      /\ OffsetOf(capacities, 1) \in Nat /\ OffsetOf(capacities, 2) \in Nat
      /\ OffsetOf(capacities, 3) \in Nat /\ OffsetOf(capacities, 4) \in Nat
  BY <1>1 DEF Arrays
<1>4. HeaderSize \in Nat
  BY SizeAssumption
<1>5. /\ \A a \in Arrays : HeaderSize <= OffsetOf(capacities, a)
      /\ \A a \in Arrays : behind[a + 1] <= behind[5]
      /\ HeaderSize <= behind[5]
  BY <1>3, <1>4 DEF Arrays
<1> QED
  BY <1>2, <1>3, <1>5 DEF behind

\* The bytes of a record are those of its array, behind the header and within
\* the segment.
LEMMA RecordInside ==
  ASSUME NEW capacities \in [Arrays -> Nat], NEW array \in Arrays,
         NEW slot \in 0..(capacities[array] - 1), NEW byte \in Bytes(capacities, array, slot)
  PROVE  /\ byte \in Nat /\ HeaderSize <= byte /\ byte < TotalBytes(capacities)
         /\ OffsetOf(capacities, array) <= byte
         /\ byte < Behind(capacities)[array + 1]
<1> DEFINE offset == OffsetOf(capacities, array)
           size == ItemSize[array]
           end == Behind(capacities)[array + 1]
<1>1. size \in Nat /\ HeaderSize \in Nat /\ capacities[array] \in Nat /\ slot \in Nat
      /\ slot < capacities[array]
  BY SizeAssumption
<1>2. /\ slot * size \in Nat /\ capacities[array] * size \in Nat
      /\ slot * size + size <= capacities[array] * size
  BY <1>1, RecordsInOrder
<1>3. offset \in Nat /\ end \in Nat /\ end = offset + capacities[array] * size
  BY Chain
<1>4. HeaderSize <= offset /\ end <= TotalBytes(capacities)
      /\ TotalBytes(capacities) \in Nat
  BY BehindWithin
<1>5. byte \in (offset + slot * size)..(offset + slot * size + size - 1)
  BY DEF Bytes
<1> HIDE DEF offset, size, end
<1>6. byte \in Int /\ offset + slot * size <= byte /\ byte <= offset + slot * size + size - 1
  BY <1>1, <1>2, <1>3, <1>5
<1>7. /\ byte \in Nat /\ HeaderSize <= byte /\ byte < TotalBytes(capacities)
      /\ offset <= byte /\ byte < end
  BY <1>1, <1>2, <1>3, <1>4, <1>6
<1> QED
  BY <1>7 DEF offset, end

\* No byte belongs to two records.
LEMMA RecordsDisjoint ==
  ASSUME NEW capacities \in [Arrays -> Nat],
         NEW a \in Arrays, NEW s \in 0..(capacities[a] - 1),
         NEW b \in Arrays, NEW t \in 0..(capacities[b] - 1),
         NEW byte \in Bytes(capacities, a, s), byte \in Bytes(capacities, b, t)
  PROVE  a = b /\ s = t
<1>1. /\ byte \in Nat
      /\ OffsetOf(capacities, a) <= byte /\ byte < Behind(capacities)[a + 1]
      /\ OffsetOf(capacities, b) <= byte /\ byte < Behind(capacities)[b + 1]
  BY RecordInside
<1>2. /\ OffsetOf(capacities, a) \in Nat /\ OffsetOf(capacities, b) \in Nat
      /\ Behind(capacities)[a + 1] \in Nat /\ Behind(capacities)[b + 1] \in Nat
  BY Chain
<1>3. ~(a < b)
  <2> SUFFICES ASSUME a < b PROVE FALSE
    OBVIOUS
  <2>1. Behind(capacities)[a + 1] <= OffsetOf(capacities, b)
    BY ArraysInOrder
  <2> QED
    BY <1>1, <1>2, <2>1
<1>4. ~(b < a)
  <2> SUFFICES ASSUME b < a PROVE FALSE
    OBVIOUS
  <2>1. Behind(capacities)[b + 1] <= OffsetOf(capacities, a)
    BY ArraysInOrder
  <2> QED
    BY <1>1, <1>2, <2>1
<1>5. a = b
  BY <1>3, <1>4 DEF Arrays
<1> DEFINE offset == OffsetOf(capacities, a)
           size == ItemSize[a]
<1>6. s \in Nat /\ t \in Nat /\ size \in Nat /\ offset \in Nat
  BY <1>2, <1>5, SizeAssumption
<1>7. /\ byte \in (offset + s * size)..(offset + s * size + size - 1)
      /\ byte \in (offset + t * size)..(offset + t * size + size - 1)
  BY <1>5 DEF Bytes
<1> HIDE DEF offset, size
<1>8. s * size \in Nat /\ t * size \in Nat
  BY <1>6, ProductNat
<1>9. ~(s < t)
  <2> SUFFICES ASSUME s < t PROVE FALSE
    OBVIOUS
  <2>1. s * size + size <= t * size
    BY <1>6, RecordsInOrder
  <2> QED
    BY <1>1, <1>6, <1>7, <1>8, <2>1
<1>10. ~(t < s)
  <2> SUFFICES ASSUME t < s PROVE FALSE
    OBVIOUS
  <2>1. t * size + size <= s * size
    BY <1>6, RecordsInOrder
  <2> QED
    BY <1>1, <1>6, <1>7, <1>8, <2>1
<1> QED
  BY <1>5, <1>6, <1>9, <1>10

\* Capacities whose intermediate results overflow need more than a usize can
\* count.
LEMMA OverflowIsTooLarge ==
  ASSUME NEW capacities \in [Arrays -> Nat], ~Fits(capacities)
  PROVE  TotalBytes(capacities) > MaxUsize
<1> DEFINE behind == Behind(capacities)
<1>1. MaxUsize \in Nat /\ HeaderSize \in Nat /\ TotalBytes(capacities) \in Nat
  <2>1. 1 \in Arrays
    BY DEF Arrays
  <2> QED
    BY <2>1, SizeAssumption, BehindWithin
<1>2. \A array \in Arrays :
        /\ behind[array] \in Nat /\ behind[array + 1] \in Nat
        /\ OffsetOf(capacities, array) \in Nat
        /\ OffsetOf(capacities, array) <= behind[array + 1]
        /\ behind[array + 1] =
             OffsetOf(capacities, array) + capacities[array] * ItemSize[array]
        /\ behind[array + 1] <= TotalBytes(capacities)
  BY Chain, BehindWithin
<1>3. ASSUME NEW array \in Arrays, behind[array] + (Alignment[array] - 1) > MaxUsize
      PROVE  TotalBytes(capacities) > MaxUsize
  <2>1. Alignment[array] \in Nat \ {0} /\ (MaxUsize + 1) % Alignment[array] = 0
    BY SizeAssumption, AlignmentAssumption
  <2>2. AlignUp(behind[array], Alignment[array]) > MaxUsize
    <3>1. behind[array] \in Nat
      BY <1>2
    <3> HIDE DEF behind
    <3> QED
      BY <1>1, <1>3, <2>1, <3>1, AlignUpPast
  <2>3. OffsetOf(capacities, array) > MaxUsize
    BY <2>2 DEF OffsetOf, Offset
  <2> HIDE DEF behind
  <2> QED
    BY <1>1, <1>2, <2>3
<1>4. ASSUME NEW array \in Arrays, capacities[array] * ItemSize[array] > MaxUsize
      PROVE  TotalBytes(capacities) > MaxUsize
  <2>1. capacities[array] * ItemSize[array] \in Nat
    BY SizeAssumption, ProductNat
  <2> HIDE DEF behind
  <2> QED
    BY <1>1, <1>2, <1>4, <2>1
<1>5. ASSUME NEW array \in 2..5, behind[array] > MaxUsize
      PROVE  TotalBytes(capacities) > MaxUsize
  <2>1. array - 1 \in Arrays /\ (array - 1) + 1 = array
    BY DEF Arrays
  <2>2. behind[array] \in Nat /\ behind[array] <= TotalBytes(capacities)
    <3> HIDE DEF behind
    <3> QED
      BY <1>2, <2>1
  <2> HIDE DEF behind
  <2> QED
    BY <1>1, <1>5, <2>2
<1>6. /\ \A array \in Arrays :
           /\ behind[array] + (Alignment[array] - 1) \in Int
           /\ capacities[array] * ItemSize[array] \in Int
      /\ \A array \in 2..5 : behind[array] \in Int
  <2>1. \A array \in Arrays : Alignment[array] \in Nat /\ ItemSize[array] \in Nat
    BY SizeAssumption
  <2>2. \A array \in 2..5 : array - 1 \in Arrays /\ (array - 1) + 1 = array
    BY DEF Arrays
  <2> HIDE DEF behind
  <2>3. \A array \in 2..5 : behind[array] \in Int
    BY <1>2, <2>2
  <2> QED
    BY <1>2, <2>1, <2>3
<1> HIDE DEF behind
<1> QED
  BY <1>1, <1>3, <1>4, <1>5, <1>6 DEF Fits, behind

-----------------------------------------------------------------------------
(* The specification.                                                      *)

\* NothingClobbered with what it rests on: the layout, which fits, the records
\* that are written and the bytes of the segment.
SegmentInv ==
  /\ layout \in [Arrays -> Nat]
  /\ specific \in [Arrays -> Specific] /\ shmemCapacity \in Settings
  /\ \A record \in written :
       \E array \in Arrays : \E slot \in 0..(layout[array] - 1) : record = <<array, slot>>
  /\ phase \in {"starting", "requested", "refused", "running"}
  /\ phase # "running" => written = {}
  /\ phase = "refused" => ~Fits(Configured)
  /\ phase \in {"requested", "running"} => TotalBytes(layout) <= MaxUsize
  /\ phase = "running" => DOMAIN memory = 0..(TotalBytes(layout) - 1)
  /\ NothingClobbered

\* The capacities that the settings ask for are natural.
LEMMA ConfiguredNat ==
  ASSUME specific \in [Arrays -> Specific], shmemCapacity \in Settings
  PROVE  Configured \in [Arrays -> Nat]
<1> SUFFICES ASSUME NEW array \in Arrays
             PROVE  Capacity(specific[array], shmemCapacity) \in Nat
  BY DEF Configured
<1> QED
  BY SettingsAssumption DEF Capacity

LEMMA InitSegmentInv == Init => SegmentInv
  BY DEF Init, SegmentInv, NoLayout, NothingClobbered

\* A write leaves the header's and all other records' bytes alone, and is the
\* last to its own.
LEMMA WriteSegmentInv ==
  ASSUME SegmentInv, NEW array \in Arrays, NEW slot \in 0..(layout[array] - 1),
         Write(array, slot)
  PROVE  SegmentInv'
<1> USE DEF SegmentInv
<1>1. /\ phase = "running" /\ phase' = phase /\ layout' = layout
      /\ shmemCapacity' = shmemCapacity /\ specific' = specific
      /\ written' = written \cup {<<array, slot>>}
      /\ memory' = [byte \in DOMAIN memory \cup Bytes(layout, array, slot) |->
                      IF byte \in Bytes(layout, array, slot) THEN <<array, slot>>
                      ELSE memory[byte]]
  BY DEF Write, settings
<1>2. \A byte \in Bytes(layout, array, slot) :
        byte \in Nat /\ HeaderSize <= byte /\ byte < TotalBytes(layout)
  BY RecordInside
<1>3. HeaderSize \in Nat /\ TotalBytes(layout) \in Nat /\ HeaderSize <= TotalBytes(layout)
  BY SizeAssumption, BehindWithin
<1>4. DOMAIN memory \cup Bytes(layout, array, slot) = 0..(TotalBytes(layout) - 1)
  BY <1>1, <1>2, <1>3
<1>5. /\ DOMAIN memory' = 0..(TotalBytes(layout) - 1)
      /\ \A byte \in 0..(TotalBytes(layout) - 1) :
           memory'[byte] = IF byte \in Bytes(layout, array, slot) THEN <<array, slot>>
                           ELSE memory[byte]
  BY <1>1, <1>4
<1>6. \A byte \in 0..(HeaderSize - 1) : memory'[byte] = Header
  BY <1>1, <1>2, <1>3, <1>5 DEF NothingClobbered
<1>7. \A record \in written' :
        \E a \in Arrays : \E s \in 0..(layout[a] - 1) : record = <<a, s>>
  BY <1>1
<1>8. ASSUME NEW record \in written',
             NEW byte \in Bytes(layout, record[1], record[2])
      PROVE  memory'[byte] = record
  <2>1. PICK a \in Arrays : \E s \in 0..(layout[a] - 1) : record = <<a, s>>
    BY <1>7
  <2>2. PICK s \in 0..(layout[a] - 1) : record = <<a, s>>
    BY <2>1
  <2>3. byte \in Bytes(layout, a, s)
    BY <2>2
  <2>4. byte \in 0..(TotalBytes(layout) - 1)
    BY <2>3, <1>3, RecordInside
  <2>5. CASE byte \in Bytes(layout, array, slot)
    <3>1. a = array /\ s = slot
      BY <2>3, <2>5, RecordsDisjoint
    <3> QED
      BY <1>5, <2>2, <2>4, <2>5, <3>1
  <2>6. CASE byte \notin Bytes(layout, array, slot)
    <3>1. record # <<array, slot>>
      BY <2>6
    <3>2. record \in written
      BY <1>1, <3>1
    <3> QED
      BY <1>1, <1>5, <2>4, <2>6, <3>2 DEF NothingClobbered
  <2> QED
    BY <2>5, <2>6
<1>9. NothingClobbered'
  <2>1. \A record \in written' :
          \A byte \in Bytes(layout, record[1], record[2]) : memory'[byte] = record
    BY <1>8
  <2> QED
    BY <1>1, <1>6, <2>1 DEF NothingClobbered
<1> QED
  BY <1>1, <1>5, <1>7, <1>9

\* Every step keeps the invariant.
LEMMA NextSegmentInv == SegmentInv /\ [Next]_vars => SegmentInv'
<1> SUFFICES ASSUME SegmentInv, [Next]_vars PROVE SegmentInv'
  OBVIOUS
<1>0. UNCHANGED settings => Fits(Configured)' = Fits(Configured)
  BY DEF settings, Configured, Capacity, Fits
<1>1. CASE Request
  <2>1. Configured \in [Arrays -> Nat]
    BY ConfiguredNat DEF SegmentInv
  <2>2. TotalBytes(Configured) <= MaxUsize
    BY <1>1 DEF Request, Fits, TotalBytes
  <2> QED
    BY <1>1, <2>1, <2>2 DEF Request, SegmentInv, settings, NothingClobbered
<1>2. CASE Refuse
  BY <1>0, <1>2 DEF Refuse, SegmentInv, settings, NothingClobbered
<1>3. CASE Startup
  <2>1. /\ layout \in [Arrays -> Nat] /\ written = {} /\ written' = {} /\ layout' = layout
        /\ phase' = "running" /\ shmemCapacity' = shmemCapacity /\ specific' = specific
        /\ memory' = [byte \in 0..(TotalBytes(layout) - 1) |->
                        IF byte < HeaderSize THEN Header ELSE Zero]
    BY <1>3 DEF Startup, SegmentInv, settings
  <2>2. HeaderSize \in Nat /\ TotalBytes(layout) \in Nat /\ HeaderSize <= TotalBytes(layout)
    <3>1. 1 \in Arrays
      BY DEF Arrays
    <3> QED
      BY <2>1, <3>1, SizeAssumption, BehindWithin
  <2>3. \A byte \in 0..(HeaderSize - 1) : memory'[byte] = Header
    BY <2>1, <2>2
  <2>4. DOMAIN memory' = 0..(TotalBytes(layout) - 1)
    BY <2>1
  <2>5. NothingClobbered'
    BY <2>1, <2>3 DEF NothingClobbered
  <2>6. TotalBytes(layout) <= MaxUsize
    BY <1>3 DEF Startup, SegmentInv
  <2> QED
    BY <2>1, <2>4, <2>5, <2>6 DEF SegmentInv
<1>4. CASE Reinitialize
  BY <1>4 DEF Reinitialize, SegmentInv, settings, NothingClobbered
<1>5. ASSUME NEW array \in Arrays, NEW slot \in 0..(layout[array] - 1), Write(array, slot)
      PROVE  SegmentInv'
  BY <1>5, WriteSegmentInv
<1>6. ASSUME NEW capacity \in Settings, NEW capacities \in [Arrays -> Specific],
             Restart(capacity, capacities)
      PROVE  SegmentInv'
  BY <1>6 DEF Restart, SegmentInv, NoLayout, NothingClobbered
<1>7. CASE UNCHANGED vars
  BY <1>0, <1>7 DEF vars, settings, SegmentInv, NothingClobbered
<1> QED
  BY <1>1, <1>2, <1>3, <1>4, <1>5, <1>6, <1>7 DEF Next

\* No write reaches the header, another record, or beyond the segment, whatever
\* the sizes, alignments and capacities: the layout that compute_layout gives
\* to the slices of the four arrays is disjoint.
THEOREM RecordsKeepTheirBytes == Spec => []NothingClobbered
<1>1. SegmentInv => NothingClobbered
  BY DEF SegmentInv
<1> QED
  BY InitSegmentInv, NextSegmentInv, <1>1, PTL DEF Spec

\* The settings, the phases and the records are what they should be, and the
\* segment is exactly as long as it was requested.
THEOREM TypeCorrect == Spec => []TypeOK
<1>1. SegmentInv => TypeOK
  <2> SUFFICES ASSUME SegmentInv PROVE TypeOK
    OBVIOUS
  <2>1. written \subseteq UNION {{array} \X (0..(layout[array] - 1)) : array \in Arrays}
    <3> SUFFICES ASSUME NEW record \in written
                 PROVE  \E array \in Arrays :
                          record \in {array} \X (0..(layout[array] - 1))
      OBVIOUS
    <3> QED
      BY DEF SegmentInv
  <2> QED
    BY <2>1 DEF SegmentInv, TypeOK
<1> QED
  BY InitSegmentInv, NextSegmentInv, <1>1, PTL DEF Spec

\* The checked arithmetic of compute_layout is exact for every size, alignment
\* and setting: what it refuses cannot be addressed, what it lays out can.
THEOREM RefusalsAreExact == Spec => []RefusedExactlyWhenTooLarge
<1>1. SegmentInv => RefusedExactlyWhenTooLarge
  <2> SUFFICES ASSUME SegmentInv PROVE RefusedExactlyWhenTooLarge
    OBVIOUS
  <2>1. phase = "refused" => TotalBytes(Configured) > MaxUsize
    BY ConfiguredNat, OverflowIsTooLarge DEF SegmentInv
  <2> QED
    BY <2>1 DEF SegmentInv, RefusedExactlyWhenTooLarge
<1> QED
  BY InitSegmentInv, NextSegmentInv, <1>1, PTL DEF Spec

-----------------------------------------------------------------------------
(* The array of budget buckets.                                            *)

\* The inductive invariant.  That the filled slots are a prefix makes the slot
\* behind it free for a new key; that keys are unique makes the found slot the
\* only one, so that storing in it is a change of the map at one key.
TableInv == TableTypeOK /\ OneBucketPerKey

LEMMA FreeIsNoEntry == Free \notin Entry
  BY DEF Free, Entry

LEMMA FirstMatch ==
  ASSUME BucketCapacity \in Nat, TableInv, NEW key, Matches(key) # {}
  PROVE  /\ First(Matches(key)) \in 1..len
         /\ slots[First(Matches(key))].key = key
<1>1. PICK slot \in 1..len : slots[slot].key = key
  BY DEF Matches
<1>2. Matches(key) = {slot}
  BY <1>1 DEF Matches, TableInv, OneBucketPerKey
<1>3. slot <= slot
  BY <1>1 DEF TableInv, TableTypeOK
<1>4. First(Matches(key)) = slot
  BY <1>2, <1>3 DEF First
<1> QED
  BY <1>1, <1>4

LEMMA InvInit == BucketCapacity \in Nat /\ TableInit => TableInv
<1> SUFFICES ASSUME BucketCapacity \in Nat, TableInit PROVE TableInv
  OBVIOUS
<1>1. TableTypeOK
  BY FreeIsNoEntry DEF TableInit, TableTypeOK, Slots
<1>2. OneBucketPerKey
  BY DEF TableInit, OneBucketPerKey
<1> QED
  BY <1>1, <1>2 DEF TableInv

\* Storing in the slot where the key was found.
LEMMA StoreInPlaceKeepsInv ==
  ASSUME BucketCapacity \in Nat, TableInv, NEW key \in Keys, NEW value \in Values, StoreInPlace(key, value)
  PROVE  TableInv'
<1> DEFINE slot == First(Matches(key))
<1>1. slot \in 1..len /\ slots[slot].key = key
  BY FirstMatch DEF StoreInPlace
<1>2. /\ len' = len /\ len \in 0..BucketCapacity
      /\ slots' = [slots EXCEPT ![slot] = [key |-> key, value |-> value]]
      /\ slots \in [Slots -> Entry \cup {Free}]
      /\ \A s \in Slots : slots[s] \in Entry <=> s <= len
  BY DEF StoreInPlace, WriteSlot, TableInv, TableTypeOK
<1>3. [key |-> key, value |-> value] \in Entry
  BY DEF Entry
<1>4. slot \in Slots
  BY <1>1, <1>2 DEF Slots
<1> HIDE DEF slot
<1>5. TableTypeOK'
  BY <1>1, <1>2, <1>3, <1>4 DEF TableTypeOK, Slots
<1>6. \A s \in 1..len : slots'[s].key = slots[s].key
  BY <1>1, <1>2 DEF Slots
<1>7. OneBucketPerKey'
  BY <1>2, <1>6 DEF OneBucketPerKey, TableInv
<1> QED
  BY <1>5, <1>7 DEF TableInv

\* Storing a new key behind the occupied prefix.
LEMMA InsertKeepsInv ==
  ASSUME BucketCapacity \in Nat, TableInv, NEW key \in Keys, NEW value \in Values, Insert(key, value)
  PROVE  TableInv'
<1>1. /\ len' = len + 1 /\ len \in 0..BucketCapacity /\ len # BucketCapacity
      /\ slots' = [slots EXCEPT ![len + 1] = [key |-> key, value |-> value]]
      /\ slots \in [Slots -> Entry \cup {Free}]
      /\ \A s \in Slots : slots[s] \in Entry <=> s <= len
  BY DEF Insert, IsFull, WriteSlot, TableInv, TableTypeOK
<1>2. [key |-> key, value |-> value] \in Entry
  BY DEF Entry
<1>3. len + 1 \in Slots /\ len' \in 0..BucketCapacity
  BY <1>1 DEF Slots
<1>4. TableTypeOK'
  BY <1>1, <1>2, <1>3 DEF TableTypeOK, Slots
<1>5. slots'[len + 1].key = key
  BY <1>1, <1>3
<1>6. \A s \in 1..len : slots'[s].key = slots[s].key /\ slots[s].key # key
  BY <1>1, <1>3 DEF Insert, Matches, Slots
<1>7. \A s \in 1..len' : s \in 1..len \/ s = len + 1
  BY <1>1
<1>8. OneBucketPerKey'
  BY <1>5, <1>6, <1>7 DEF OneBucketPerKey, TableInv
<1> QED
  BY <1>4, <1>8 DEF TableInv

LEMMA RestartKeepsInv ==
  ASSUME BucketCapacity \in Nat, TableRestart PROVE TableInv'
<1>1. TableTypeOK'
  BY FreeIsNoEntry DEF TableRestart, TableTypeOK, Slots
<1>2. OneBucketPerKey'
  BY DEF TableRestart, OneBucketPerKey
<1> QED
  BY <1>1, <1>2 DEF TableInv

LEMMA InvNext == BucketCapacity \in Nat /\ TableInv /\ [TableNext]_tableVars => TableInv'
<1> SUFFICES ASSUME BucketCapacity \in Nat, TableInv, [TableNext]_tableVars PROVE TableInv'
  OBVIOUS
<1>1. CASE UNCHANGED <<slots, len>>
  BY <1>1 DEF TableInv, TableTypeOK, OneBucketPerKey
<1>2. CASE \E key \in Keys, value \in Values : StoreInPlace(key, value)
  BY <1>2, StoreInPlaceKeepsInv
<1>3. CASE \E key \in Keys, value \in Values : Insert(key, value)
  BY <1>3, InsertKeepsInv
<1>4. CASE TableRestart
  BY <1>4, RestartKeepsInv
<1> QED
  BY <1>1, <1>2, <1>3, <1>4
  DEF TableNext, tableVars, AdjustExisting, Exhausted, Absent, CallbackFails

\* The prefix and its length agree, and no (policy, scope) has two buckets,
\* after any number of statements, failures and restarts.
THEOREM OneBucketPerKeyHolds ==
  ASSUME BucketCapacity \in Nat PROVE TableSpec => [](TableTypeOK /\ OneBucketPerKey)
<1>1. TableSpec => []TableInv
  BY InvInit, InvNext, PTL DEF TableSpec
<1>2. TableInv => TableTypeOK /\ OneBucketPerKey
  BY DEF TableInv
<1> QED
  BY <1>1, <1>2, PTL

-----------------------------------------------------------------------------
(* The refinement. *)

KeysUnique(table, n) ==
  \A s, t \in 1..n : table[s].key = table[t].key => s = t

\* Every bucket of a prefix without repeated keys is the bucket of its key.
LEMMA BucketOfSlot ==
  ASSUME NEW table, NEW n, KeysUnique(table, n), NEW slot \in 1..n
  PROVE  BucketsOf(table, n)[table[slot].key] = table[slot].value
<1>1. table[slot].key \in {table[s].key : s \in 1..n}
  OBVIOUS
<1>2. (CHOOSE s \in 1..n : table[s].key = table[slot].key) = slot
  BY DEF KeysUnique
<1> QED
  BY <1>1, <1>2 DEF BucketsOf

\* The map has as many keys as the prefix has slots, so the array is full when
\* the map is.
LEMMA KeysCounted ==
  ASSUME BucketCapacity \in Nat, TableInv
  PROVE  Cardinality(DOMAIN Buckets) = len
<1> DEFINE T == DOMAIN Buckets
           f == [slot \in 1..len |-> slots[slot].key]
<1>1. T = {slots[slot].key : slot \in 1..len}
  BY DEF Buckets, BucketsOf
<1>2. f \in Bijection(1..len, T)
  BY <1>1 DEF Bijection, Injection, Surjection, IsInjective, TableInv, OneBucketPerKey
<1>3. ExistsBijection(1..len, T)
  BY <1>2 DEF ExistsBijection
<1>4. len \in Nat
  BY DEF TableInv, TableTypeOK
<1>5. IsFiniteSet(1..len) /\ Cardinality(1..len) = len
  BY <1>4, FS_Interval
<1> HIDE DEF T
<1>6. Cardinality(T) = len
  BY <1>3, <1>5, FS_Bijection
<1> QED
  BY <1>6 DEF T

\* The map counts with its own instance of FiniteSets.
LEMMA SameCardinality ==
  ASSUME NEW S
  PROVE  Map!Cardinality(S) = Cardinality(S)
  BY DEF Map!Cardinality, Cardinality

LEMMA MatchesAreKeys ==
  ASSUME NEW key
  PROVE  Matches(key) # {} <=> key \in DOMAIN Buckets
  BY DEF Matches, Buckets, BucketsOf

\* From `table' to `table2', `value' is written for `key' in one slot and the
\* other slots of the prefix are kept.
Wrote(table, n, table2, n2, key, value, slot) ==
  /\ KeysUnique(table, n) /\ KeysUnique(table2, n2)
  /\ slot \in 1..n2 /\ table2[slot].key = key /\ table2[slot].value = value
  /\ \A s \in 1..n : s \in 1..n2
  /\ \A s \in 1..n2 : s # slot => s \in 1..n /\ table2[s] = table[s]
  /\ slot \in 1..n => table[slot].key = key

\* The map after a Put.
WithKey(map, key, value) ==
  [k \in DOMAIN map \cup {key} |-> IF k = key THEN value ELSE map[k]]

\* Such a write is a Put of the map.
LEMMA WriteIsPut ==
  ASSUME NEW table, NEW n, NEW table2, NEW n2, NEW key, NEW value, NEW slot,
         Wrote(table, n, table2, n2, key, value, slot)
  PROVE  BucketsOf(table2, n2) = WithKey(BucketsOf(table, n), key, value)
<1> USE DEF Wrote
<1> DEFINE old == BucketsOf(table, n)
           new == BucketsOf(table2, n2)
<1>1. DOMAIN new = {table2[s].key : s \in 1..n2}
  BY DEF BucketsOf
<1>2. DOMAIN old = {table[s].key : s \in 1..n}
  BY DEF BucketsOf
<1>3. DOMAIN new = DOMAIN old \cup {key}
  BY <1>1, <1>2
<1>4. new[key] = value
  BY BucketOfSlot
<1>5. ASSUME NEW k \in DOMAIN old, k # key
      PROVE  new[k] = old[k]
  <2>1. PICK s \in 1..n : table[s].key = k
    BY <1>2
  <2>2. s # slot /\ s \in 1..n2 /\ table2[s] = table[s]
    BY <2>1, <1>5
  <2>3. old[k] = table[s].value
    BY <2>1, BucketOfSlot
  <2>4. new[k] = table2[s].value
    BY <2>1, <2>2, BucketOfSlot
  <2> QED
    BY <2>2, <2>3, <2>4
<1>6. new = [k \in DOMAIN new |-> new[k]]
  BY DEF BucketsOf
<1> HIDE DEF old, new
<1>7. new = [k \in DOMAIN old \cup {key} |-> IF k = key THEN value ELSE old[k]]
  BY <1>3, <1>4, <1>5, <1>6
<1> QED
  BY <1>7 DEF old, new, WithKey

LEMMA PrefixUnique == TableInv => KeysUnique(slots, len)
  BY DEF TableInv, OneBucketPerKey, KeysUnique

LEMMA PrefixStaysUnique == TableInv' => KeysUnique(slots', len')
  BY DEF TableInv, OneBucketPerKey, KeysUnique

LEMMA StoreInPlaceRefines ==
  ASSUME BucketCapacity \in Nat, TableInv, TableInv', NEW key \in Keys, NEW value \in Values,
         StoreInPlace(key, value)
  PROVE  Map!StoreAgain(key, value)
<1> DEFINE slot == First(Matches(key))
<1>1. slot \in 1..len /\ slots[slot].key = key
  BY FirstMatch DEF StoreInPlace
<1>2. /\ len' = len /\ len \in 0..BucketCapacity
      /\ slots' = [slots EXCEPT ![slot] = [key |-> key, value |-> value]]
      /\ slots \in [Slots -> Entry \cup {Free}]
      /\ outcome' = "stored"
  BY DEF StoreInPlace, WriteSlot, TableInv, TableTypeOK
<1> HIDE DEF slot
<1>3. slot \in Slots /\ slot \in 1..len'
  BY <1>1, <1>2 DEF Slots
<1>4. slots'[slot].key = key /\ slots'[slot].value = value
  BY <1>2, <1>3
<1>5. \A s \in 1..len' : s # slot => s \in 1..len /\ slots'[s] = slots[s]
  BY <1>2 DEF Slots
<1>6. \A s \in 1..len : s \in 1..len'
  BY <1>2
<1>7. Buckets' = WithKey(Buckets, key, value)
  <2>1. KeysUnique(slots, len) /\ KeysUnique(slots', len')
    BY PrefixUnique, PrefixStaysUnique
  <2>2. Wrote(slots, len, slots', len', key, value, slot)
    BY <2>1, <1>1, <1>3, <1>4, <1>5, <1>6 DEF Wrote
  <2> QED
    BY <2>2, WriteIsPut DEF Buckets
<1>8. key \in DOMAIN Buckets
  BY MatchesAreKeys DEF StoreInPlace
<1> QED
  BY <1>2, <1>7, <1>8 DEF Map!StoreAgain, Map!Put, WithKey

LEMMA InsertRefines ==
  ASSUME BucketCapacity \in Nat, TableInv, TableInv', NEW key \in Keys, NEW value \in Values,
         Insert(key, value)
  PROVE  Map!StoreNew(key, value)
<1> DEFINE slot == len + 1
<1>1. /\ len' = slot /\ len \in 0..BucketCapacity /\ len # BucketCapacity
      /\ slots' = [slots EXCEPT ![slot] = [key |-> key, value |-> value]]
      /\ slots \in [Slots -> Entry \cup {Free}]
      /\ outcome' = "stored"
  BY DEF Insert, IsFull, WriteSlot, TableInv, TableTypeOK
<1>2. slot \in Slots /\ slot \in 1..len' /\ len' \in Nat
  BY <1>1 DEF Slots
<1>3. slots'[slot].key = key /\ slots'[slot].value = value
  BY <1>1, <1>2
<1>4. \A s \in 1..len : s \in 1..len'
  BY <1>1
<1>5. \A s \in 1..len' : s # slot => s \in 1..len /\ slots'[s] = slots[s]
  BY <1>1 DEF Slots
<1>6. slot \in 1..len => slots[slot].key = key
  BY <1>1
<1> HIDE DEF slot
<1>7. Buckets' = WithKey(Buckets, key, value)
  <2>1. KeysUnique(slots, len) /\ KeysUnique(slots', len')
    BY PrefixUnique, PrefixStaysUnique
  <2>2. Wrote(slots, len, slots', len', key, value, slot)
    BY <2>1, <1>2, <1>3, <1>4, <1>5, <1>6 DEF Wrote
  <2> QED
    BY <2>2, WriteIsPut DEF Buckets
<1>8. key \notin DOMAIN Buckets
  BY MatchesAreKeys DEF Insert
<1>9. Cardinality(DOMAIN Buckets) < BucketCapacity
  BY <1>1, KeysCounted
<1> QED
  BY <1>1, <1>7, <1>8, <1>9, SameCardinality DEF Map!StoreNew, Map!Put, WithKey

LEMMA StepRefines ==
  ASSUME BucketCapacity \in Nat, TableInv, TableInv', [TableNext]_tableVars
  PROVE  [Map!Next]_<<Buckets, outcome>>
<1>1. CASE UNCHANGED tableVars
  BY <1>1 DEF tableVars, Buckets
<1>2. ASSUME NEW key \in Keys, NEW value \in Values,
             StoreInPlace(key, value) \/ AdjustExisting(key, value)
      PROVE  Map!Next
  BY <1>2, StoreInPlaceRefines DEF AdjustExisting, Map!Next
<1>3. ASSUME NEW key \in Keys, NEW value \in Values, Insert(key, value)
      PROVE  Map!Next
  BY <1>3, InsertRefines DEF Map!Next
<1>4. ASSUME NEW key \in Keys, Exhausted(key)
      PROVE  Map!Next
  <2>1. key \notin DOMAIN Buckets /\ Cardinality(DOMAIN Buckets) = BucketCapacity
    BY <1>4, MatchesAreKeys, KeysCounted DEF Exhausted, IsFull
  <2>2. outcome' = "exhausted" /\ Buckets' = Buckets
    BY <1>4 DEF Exhausted, Buckets
  <2> QED
    BY <2>1, <2>2, SameCardinality DEF Map!TurnAway, Map!Next
<1>5. ASSUME NEW key \in Keys, Absent(key)
      PROVE  Map!Next
  <2>1. key \notin DOMAIN Buckets
    BY <1>5, MatchesAreKeys DEF Absent
  <2>2. outcome' = "missing" /\ Buckets' = Buckets
    BY <1>5 DEF Absent, Buckets
  <2> QED
    BY <2>1, <2>2 DEF Map!FindNothing, Map!Next
<1>6. ASSUME NEW key \in Keys, CallbackFails(key)
      PROVE  Map!Next
  BY <1>6 DEF CallbackFails, Buckets, Map!Fail, Map!Next
<1>7. CASE TableRestart
  BY <1>7 DEF TableRestart, Buckets, BucketsOf, Map!Stop, Map!Next
<1> QED
  BY <1>1, <1>2, <1>3, <1>4, <1>5, <1>6, <1>7 DEF TableNext

\* The array implements the map that BudgetAdmission works on.
THEOREM TableImplementsMap ==
  ASSUME BucketCapacity \in Nat PROVE TableSpec => ImplementsBudgetBucketMap
<1>1. TableInit => Map!Init
  BY DEF TableInit, Buckets, BucketsOf, Map!Init
<1>2. TableInv /\ TableInv' /\ [TableNext]_tableVars => [Map!Next]_<<Buckets, outcome>>
  BY StepRefines
<1> QED
  BY <1>1, <1>2, InvInit, InvNext, PTL
  DEF TableSpec, ImplementsBudgetBucketMap, Map!Spec
=============================================================================
