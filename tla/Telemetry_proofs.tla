-------------------------- MODULE Telemetry_proofs --------------------------
(***************************************************************************)
(* Proofs about Telemetry for every set of backends, scopes and sizes, and *)
(* every capacity of the ring and the registry, none included.             *)
(***************************************************************************)
EXTENDS Telemetry, FiniteFolds, SequenceTheorems

LEMMA Bounds ==
  /\ RingCapacity \in Nat /\ NameCapacity \in Nat /\ MaxU64 \in Nat /\ MaxU64 # 0
  /\ MaxRecords \in Nat /\ IsFiniteSet(Backends)
<1>1. MaxU64 \in Nat \ {0} /\ RingCapacity \in Nat /\ NameCapacity \in Nat
  BY Zenon, RingAssumption
<1>2. MaxRecords \in Nat /\ IsFiniteSet(Backends)
  BY Zenon, TelemetryAssumption
<1> QED
  BY <1>1, <1>2

-----------------------------------------------------------------------------
(* Remainders.                                                             *)

LEMMA Remainder ==
  ASSUME NEW n \in Nat, NEW d \in Nat \ {0}
  PROVE  /\ n % d \in 0..(d - 1)
         /\ n < d => n % d = n
  BY Z3

\* The numbers of a span no longer than the divisor have different remainders.
LEMMA RemaindersDiffer ==
  ASSUME NEW d \in Nat \ {0}, NEW m \in Nat, NEW n \in Nat, m < n, n - m < d
  PROVE  m % d # n % d
<1> SUFFICES ASSUME m % d = n % d PROVE FALSE
  OBVIOUS
<1> DEFINE p == m \div d
           q == n \div d
           r == m % d
<1>1. p \in Nat /\ q \in Nat /\ r \in Nat
      /\ m = d * p + r /\ n = d * q + r
  BY Z3
<1> HIDE DEF p, q, r
<1>2. n - m = d * (q - p)
  BY <1>1, Z3
<1>3. CASE q <= p
  <2>1. d * (q - p) <= 0
    BY <1>1, <1>3, Z3
  <2> QED
    BY <1>2, <2>1
<1>4. CASE q >= p + 1
  <2>1. d * (q - p) >= d
    BY <1>1, <1>4, Z3
  <2> QED
    BY <1>2, <2>1
<1> QED
  BY <1>1, <1>3, <1>4

-----------------------------------------------------------------------------
(* Sequences given as functions.                                           *)

LEMMA FunctionIsSequence ==
  ASSUME NEW S, NEW n \in Nat, NEW f \in [1..n -> S]
  PROVE  f \in Seq(S) /\ Len(f) = n /\ DOMAIN f = 1..n
<1>1. f \in Seq(S)
  BY SeqDef
<1>2. DOMAIN f = 1..Len(f) /\ DOMAIN f = 1..n /\ Len(f) \in Nat
  BY <1>1, LenProperties
<1>3. Len(f) = n
  BY <1>2
<1> QED
  BY <1>1, <1>2, <1>3

LEMMA AppendIs ==
  ASSUME NEW S, NEW n \in Nat, NEW f \in [1..n -> S], NEW x \in S
  PROVE  /\ Append(f, x) \in [1..(n + 1) -> S]
         /\ \A i \in 1..n : Append(f, x)[i] = f[i]
         /\ Append(f, x)[n + 1] = x
<1> DEFINE g == Append(f, x)
<1>1. f \in Seq(S) /\ Len(f) = n /\ DOMAIN f = 1..n
  BY FunctionIsSequence
<1>2. g \in Seq(S) /\ Len(g) = n + 1
  BY <1>1, LenProperties
<1>3. \A i \in 1..n : g[i] = f[i]
  BY <1>1
<1>4. g[n + 1] = x
  BY <1>1
<1>5. g \in [1..(n + 1) -> S]
  <2>1. g \in [1..Len(g) -> S]
    BY <1>2, LenProperties, ElementOfSeq
  <2> QED
    BY <1>2, <2>1
<1> QED
  BY <1>3, <1>4, <1>5

LEMMA ShiftIs ==
  ASSUME NEW S, NEW n \in Nat, NEW f \in [1..n -> S], NEW x \in S
  PROVE  /\ Tail(Append(f, x)) \in [1..n -> S]
         /\ \A i \in 1..n : Tail(Append(f, x))[i] = Append(f, x)[i + 1]
<1> DEFINE g == Append(f, x)
<1>1. g \in [1..(n + 1) -> S]
  BY AppendIs
<1> HIDE DEF g
<1>2. g \in Seq(S) /\ Len(g) = n + 1
  BY <1>1, FunctionIsSequence
<1>3. g # <<>>
  BY <1>2
<1>4. Tail(g) \in Seq(S) /\ Len(Tail(g)) = n
  BY <1>2, <1>3, HeadTailProperties
<1>5. \A i \in 1..n : Tail(g)[i] = g[i + 1]
  BY <1>2, <1>3, <1>4, HeadTailProperties
<1>6. Tail(g) \in [1..n -> S]
  <2>1. Tail(g) \in [1..Len(Tail(g)) -> S]
    BY <1>4, LenProperties, ElementOfSeq
  <2> QED
    BY <1>4, <2>1
<1> QED
  BY <1>5, <1>6 DEF g

-----------------------------------------------------------------------------
(* The ring.                                                               *)

\* The slots in use are the first ones until the ring wraps, and all of them
\* from then on.
RingOK(r) ==
  /\ r = [head |-> r.head, count |-> r.count, slots |-> r.slots]
  /\ r.head \in 0..MaxU64
  /\ r.count = Least(r.head, RingCapacity)
  /\ RingCapacity = 0 => r.head = 0
  /\ r.slots = [slot \in RingSlots |-> r.slots[slot]]
  /\ \A slot \in RingSlots : r.slots[slot] # Blank <=> slot < r.count

LogOf(r) == Reverse(SnapshotRecentDecisions(r, RingCapacity))

\* The i-th oldest record.
At(r, i) == r.slots[RingSlot(r.head - r.count + i - 1)]

LEMMA RingNumbers ==
  ASSUME NEW r, RingOK(r)
  PROVE  /\ r.head \in Nat /\ r.head <= MaxU64
         /\ r.count \in Nat /\ r.count <= RingCapacity /\ r.count <= r.head
         /\ r.count < RingCapacity => r.count = r.head
  BY Bounds DEF RingOK, Least

LEMMA SlotInRing ==
  ASSUME RingCapacity # 0, NEW n \in Nat
  PROVE  RingSlot(n) \in RingSlots /\ (n < RingCapacity => RingSlot(n) = n)
  BY Bounds, Remainder DEF RingSlot, RingSlots

LEMMA SlotsDiffer ==
  ASSUME RingCapacity # 0, NEW m \in Nat, NEW n \in Nat, m < n, n - m < RingCapacity
  PROVE  RingSlot(m) # RingSlot(n)
<1>1. RingCapacity \in Nat \ {0}
  BY Bounds
<1> QED
  BY <1>1, RemaindersDiffer DEF RingSlot

LEMMA EmptyRingOK ==
  /\ RingOK(EmptyRing)
  /\ EmptyRing.head = 0 /\ EmptyRing.count = 0
<1>1. EmptyRing.head = 0 /\ EmptyRing.count = 0
      /\ EmptyRing.slots = [slot \in RingSlots |-> Blank]
  BY DEF EmptyRing
<1>2. EmptyRing = [head |-> EmptyRing.head, count |-> EmptyRing.count,
                   slots |-> EmptyRing.slots]
  BY DEF EmptyRing
<1>3. Least(0, RingCapacity) = 0 /\ 0 \in 0..MaxU64
  BY Bounds DEF Least
<1>4. \A slot \in RingSlots : ~(slot < 0)
  BY Bounds DEF RingSlots
<1> QED
  BY <1>1, <1>2, <1>3, <1>4 DEF RingOK

LEMMA LogOfRing ==
  ASSUME NEW r, RingOK(r), NEW S, \A i \in 1..r.count : At(r, i) \in S
  PROVE  /\ LogOf(r) = [i \in 1..r.count |-> At(r, i)]
         /\ LogOf(r) \in [1..r.count -> S]
         /\ DOMAIN LogOf(r) = 1..r.count
<1> DEFINE snapshot == SnapshotRecentDecisions(r, RingCapacity)
<1>1. r.count \in Nat /\ r.head \in Nat /\ r.count <= r.head
  BY RingNumbers
<1>2. Least(RingCapacity, r.count) = r.count
  BY RingNumbers, Bounds DEF Least
<1>3. snapshot = [i \in 1..r.count |-> r.slots[RingSlot(r.head - i)]]
  BY <1>2 DEF SnapshotRecentDecisions
<1>4. ASSUME NEW i \in 1..r.count
      PROVE  r.count - i + 1 \in 1..r.count /\ snapshot[r.count - i + 1] = At(r, i)
  <2>1. r.count - i + 1 \in 1..r.count
    BY <1>1
  <2>2. r.head - (r.count - i + 1) = r.head - r.count + i - 1
    BY <1>1
  <2> HIDE DEF snapshot
  <2> QED
    BY <1>3, <2>1, <2>2 DEF At
<1>5. snapshot \in [1..r.count -> S]
  <2>1. ASSUME NEW i \in 1..r.count PROVE snapshot[i] \in S
    <3>1. r.count - i + 1 \in 1..r.count /\ r.count - (r.count - i + 1) + 1 = i
      BY <1>1
    <3>2. snapshot[i] = At(r, r.count - i + 1)
      BY <1>4, <3>1
    <3> QED
      BY <3>1, <3>2
  <2>2. DOMAIN snapshot = 1..r.count /\ snapshot = [i \in 1..r.count |-> snapshot[i]]
    BY <1>3
  <2> HIDE DEF snapshot
  <2> QED
    BY <2>1, <2>2
<1>6. Len(snapshot) = r.count
  <2> HIDE DEF snapshot
  <2> QED
    BY <1>1, <1>5, FunctionIsSequence
<1>7. LogOf(r) = [i \in 1..r.count |-> snapshot[r.count - i + 1]]
  BY <1>6 DEF LogOf, Reverse
<1> HIDE DEF snapshot
<1>8. LogOf(r) = [i \in 1..r.count |-> At(r, i)]
  BY <1>4, <1>7
<1> QED
  BY <1>8

\* A record is stored in a ring whose numbers are not used up.
Stored(r, record) ==
  [head |-> Saturated(r.head + 1),
   count |-> Least(r.count + 1, RingCapacity),
   slots |-> [r.slots EXCEPT ![RingSlot(r.head)] = record]]

LEMMA StoredIsLast ==
  ASSUME NEW r, RingOK(r), RingCapacity # 0, r.head < MaxU64,
         NEW record, record # Blank
  PROVE  LET new == Stored(r, record) IN
         /\ RingOK(new) /\ new.head = r.head + 1
         /\ r.count < RingCapacity =>
              /\ new.count = r.count + 1
              /\ \A i \in 1..r.count : At(new, i) = At(r, i)
         /\ r.count = RingCapacity =>
              /\ new.count = r.count
              /\ \A i \in 1..(r.count - 1) : At(new, i) = At(r, i + 1)
         /\ new.count # 0 /\ At(new, new.count) = record
<1> DEFINE new == Stored(r, record)
<1>1. /\ r.head \in Nat /\ r.count \in Nat /\ r.count <= RingCapacity /\ r.count <= r.head
      /\ r.count < RingCapacity => r.count = r.head
      /\ RingCapacity \in Nat /\ MaxU64 \in Nat
  BY RingNumbers, Bounds
<1>2. Saturated(r.head + 1) = r.head + 1
  BY <1>1 DEF Saturated, Least
<1>3. /\ new.head = r.head + 1
      /\ new.count = IF r.count < RingCapacity THEN r.count + 1 ELSE r.count
      /\ new.slots = [r.slots EXCEPT ![RingSlot(r.head)] = record]
  BY <1>1, <1>2 DEF Stored, Least
<1>4. RingSlot(r.head) \in RingSlots
  BY <1>1, SlotInRing
<1>5. /\ new.slots = [slot \in RingSlots |-> new.slots[slot]]
      /\ new.slots[RingSlot(r.head)] = record
      /\ \A slot \in RingSlots : slot # RingSlot(r.head) => new.slots[slot] = r.slots[slot]
  <2> HIDE DEF new
  <2> QED
    BY <1>3, <1>4 DEF RingOK
<1>6. new = [head |-> new.head, count |-> new.count, slots |-> new.slots]
  BY DEF Stored
<1> HIDE DEF new
<1>7. \A slot \in RingSlots : new.slots[slot] # Blank <=> slot < new.count
  <2> TAKE slot \in RingSlots
  <2>1. r.slots[slot] # Blank <=> slot < r.count
    BY DEF RingOK
  <2>2. slot \in Nat /\ slot < RingCapacity
    BY <1>1 DEF RingSlots
  <2>3. CASE r.count < RingCapacity
    <3>1. RingSlot(r.head) = r.count
      BY <1>1, <2>3, SlotInRing
    <3> QED
      BY <1>1, <1>3, <1>5, <2>1, <2>2, <2>3, <3>1
  <2>4. CASE r.count = RingCapacity
    BY <1>1, <1>3, <1>5, <2>1, <2>2, <2>4
  <2> QED
    BY <1>1, <2>3, <2>4
<1>8. RingOK(new)
  <2>1. new.count = Least(new.head, RingCapacity)
    BY <1>1, <1>3 DEF Least
  <2>2. new.head \in 0..MaxU64
    BY <1>1, <1>3
  <2> QED
    BY <1>5, <1>6, <1>7, <2>1, <2>2 DEF RingOK
<1>9. new.count # 0 /\ At(new, new.count) = record
  <2>1. new.head - new.count + new.count - 1 = r.head
    BY <1>1, <1>3
  <2>2. new.count # 0
    BY <1>1, <1>3
  <2> QED
    BY <1>5, <2>1, <2>2 DEF At
<1>10. ASSUME r.count < RingCapacity, NEW i \in 1..r.count PROVE At(new, i) = At(r, i)
  <2>1. new.head - new.count + i - 1 = i - 1 /\ r.head - r.count + i - 1 = i - 1
    BY <1>1, <1>3, <1>10
  <2>2. i - 1 \in Nat /\ i - 1 < r.head /\ r.head - (i - 1) < RingCapacity
    BY <1>1, <1>10
  <2>3. RingSlot(i - 1) # RingSlot(r.head) /\ RingSlot(i - 1) \in RingSlots
    BY <1>1, <2>2, SlotsDiffer, SlotInRing
  <2> QED
    BY <1>5, <2>1, <2>3 DEF At
<1>11. ASSUME r.count = RingCapacity, NEW i \in 1..(r.count - 1)
       PROVE  At(new, i) = At(r, i + 1)
  <2> DEFINE n == r.head - r.count + i
  <2>1. new.head - new.count + i - 1 = n /\ r.head - r.count + (i + 1) - 1 = n
    BY <1>1, <1>3, <1>11
  <2>2. n \in Nat /\ n < r.head /\ r.head - n < RingCapacity
    BY <1>1, <1>11
  <2> HIDE DEF n
  <2>3. RingSlot(n) # RingSlot(r.head) /\ RingSlot(n) \in RingSlots
    BY <1>1, <2>2, SlotsDiffer, SlotInRing
  <2> QED
    BY <1>5, <2>1, <2>3 DEF At
<1>12. /\ r.count < RingCapacity => new.count = r.count + 1
       /\ r.count = RingCapacity => new.count = r.count
  BY <1>1, <1>3
<1> QED
  BY <1>3, <1>8, <1>9, <1>10, <1>11, <1>12 DEF new

\* The record that the oldest one makes room for is dropped, and all of them
\* are when the numbers are used up.
LEMMA LogRecords ==
  ASSUME NEW r, RingOK(r), RingCapacity # 0, NEW S, \A i \in 1..r.count : At(r, i) \in S,
         NEW record \in S, record # Blank
  PROVE  LET new == RecordRecentDecision(r, record)
             log == LogOf(r)
         IN  /\ RingOK(new)
             /\ \A i \in 1..new.count : At(new, i) \in S
             /\ r.head = MaxU64 => new.head = 1 /\ new.count = 1 /\ LogOf(new) = <<record>>
             /\ r.head # MaxU64 =>
                  /\ new.head = r.head + 1
                  /\ r.count < RingCapacity => new.count = r.count + 1
                                               /\ LogOf(new) = Append(log, record)
                  /\ r.count = RingCapacity => new.count = r.count
                                               /\ LogOf(new) = Tail(Append(log, record))
<1> DEFINE new == RecordRecentDecision(r, record)
           log == LogOf(r)
<1>1. /\ r.head \in Nat /\ r.count \in Nat /\ r.count <= RingCapacity /\ r.head <= MaxU64
      /\ RingCapacity \in Nat /\ MaxU64 \in Nat /\ MaxU64 # 0
  BY RingNumbers, Bounds
<1>2. log = [i \in 1..r.count |-> At(r, i)] /\ log \in [1..r.count -> S]
  BY LogOfRing
<1> HIDE DEF log
<1>3. CASE r.head = MaxU64
  <2>1. new = Stored(EmptyRing, record)
    BY <1>3 DEF RecordRecentDecision, Numbered, Stored
  <2> HIDE DEF new
  <2>2. RingOK(EmptyRing) /\ EmptyRing.head < MaxU64 /\ EmptyRing.head = 0
        /\ EmptyRing.count = 0 /\ EmptyRing.count < RingCapacity
    BY <1>1, EmptyRingOK
  <2>3. RingOK(new) /\ new.head = 1 /\ new.count = 1 /\ At(new, 1) = record
    <3>1. /\ RingOK(new) /\ new.head = EmptyRing.head + 1
          /\ new.count = EmptyRing.count + 1 /\ At(new, new.count) = record
      BY <2>1, <2>2, StoredIsLast
    <3> QED
      BY <2>2, <3>1
  <2>4. \A i \in 1..new.count : At(new, i) \in S
    BY <2>3
  <2>5. LogOf(new) = [i \in 1..new.count |-> At(new, i)]
    BY <2>3, <2>4, LogOfRing
  <2>6. LogOf(new) = <<record>>
    BY <2>3, <2>5
  <2> QED
    BY <1>3, <2>3, <2>4, <2>6 DEF new
<1>4. CASE r.head # MaxU64
  <2>1. new = Stored(r, record)
    BY <1>4 DEF RecordRecentDecision, Numbered, Stored
  <2> HIDE DEF new
  <2>2. r.head < MaxU64
    BY <1>1, <1>4
  <2>3. /\ RingOK(new) /\ new.head = r.head + 1
        /\ r.count < RingCapacity =>
             /\ new.count = r.count + 1
             /\ \A i \in 1..r.count : At(new, i) = At(r, i)
        /\ r.count = RingCapacity =>
             /\ new.count = r.count
             /\ \A i \in 1..(r.count - 1) : At(new, i) = At(r, i + 1)
        /\ At(new, new.count) = record
    BY <2>1, <2>2, StoredIsLast
  <2>4. /\ Append(log, record) \in [1..(r.count + 1) -> S]
        /\ \A i \in 1..r.count : Append(log, record)[i] = log[i]
        /\ Append(log, record)[r.count + 1] = record
    <3> DEFINE n == r.count
    <3>1. n \in Nat /\ log \in [1..n -> S]
      BY <1>1, <1>2
    <3> HIDE DEF n
    <3>2. Append(log, record) \in [1..(n + 1) -> S]
      BY <3>1, AppendIs
    <3>3. \A i \in 1..n : Append(log, record)[i] = log[i]
      BY <3>1, AppendIs
    <3>4. Append(log, record)[n + 1] = record
      BY <3>1, AppendIs
    <3> QED
      BY <3>2, <3>3, <3>4 DEF n
  <2>5. CASE r.count < RingCapacity
    <3>1. \A i \in 1..new.count : At(new, i) \in S
      BY <1>1, <2>3, <2>5
    <3>2. LogOf(new) = [i \in 1..new.count |-> At(new, i)]
      BY <2>3, <3>1, LogOfRing
    <3>3. \A i \in 1..(r.count + 1) : At(new, i) = Append(log, record)[i]
      <4> TAKE i \in 1..(r.count + 1)
      <4>1. CASE i = r.count + 1
        BY <2>3, <2>4, <2>5, <4>1
      <4>2. CASE i # r.count + 1
        <5>1. i \in 1..r.count
          BY <1>1, <4>2
        <5> QED
          BY <1>2, <2>3, <2>4, <2>5, <5>1
      <4> QED
        BY <4>1, <4>2
    <3>4. LogOf(new) = Append(log, record)
      BY <2>3, <2>4, <2>5, <3>2, <3>3
    <3> QED
      BY <1>1, <1>4, <2>3, <2>5, <3>1, <3>4 DEF new, log
  <2>6. CASE r.count = RingCapacity
    <3>1. \A i \in 1..new.count : At(new, i) \in S
      <4> TAKE i \in 1..new.count
      <4>1. CASE i = new.count
        BY <2>3, <4>1
      <4>2. CASE i # new.count
        <5>1. i \in 1..(r.count - 1) /\ i + 1 \in 1..r.count
          BY <1>1, <2>3, <2>6, <4>2
        <5> QED
          BY <2>3, <2>6, <5>1
      <4> QED
        BY <4>1, <4>2
    <3>2. LogOf(new) = [i \in 1..new.count |-> At(new, i)]
      BY <2>3, <3>1, LogOfRing
    <3>3. /\ Tail(Append(log, record)) \in [1..r.count -> S]
          /\ \A i \in 1..r.count :
               Tail(Append(log, record))[i] = Append(log, record)[i + 1]
      <4> DEFINE n == r.count
      <4>1. n \in Nat /\ log \in [1..n -> S]
        BY <1>1, <1>2
      <4> HIDE DEF n
      <4>2. Tail(Append(log, record)) \in [1..n -> S]
        BY <4>1, ShiftIs
      <4>3. \A i \in 1..n : Tail(Append(log, record))[i] = Append(log, record)[i + 1]
        BY <4>1, ShiftIs
      <4> QED
        BY <4>2, <4>3 DEF n
    <3>4. \A i \in 1..r.count : At(new, i) = Append(log, record)[i + 1]
      <4> TAKE i \in 1..r.count
      <4>1. i + 1 \in 1..(r.count + 1)
        BY <1>1
      <4>2. CASE i = r.count
        <5>1. Append(log, record)[i + 1] = record
          BY <1>1, <2>4, <4>1, <4>2
        <5> QED
          BY <2>3, <2>6, <4>2, <5>1
      <4>3. CASE i # r.count
        <5>1. i \in 1..(r.count - 1) /\ i + 1 \in 1..r.count /\ i + 1 <= r.count
          BY <1>1, <4>3
        <5>2. Append(log, record)[i + 1] = log[i + 1]
          BY <2>4, <4>1, <5>1
        <5>3. log[i + 1] = At(r, i + 1)
          BY <1>2, <5>1
        <5> QED
          BY <2>3, <2>6, <5>1, <5>2, <5>3
      <4> QED
        BY <4>2, <4>3
    <3>5. LogOf(new) = Tail(Append(log, record))
      <4> DEFINE tail == Tail(Append(log, record))
      <4>1. tail \in [1..r.count -> S] /\ \A i \in 1..r.count : tail[i] = At(new, i)
        BY <3>3, <3>4
      <4>2. LogOf(new) = [i \in 1..r.count |-> At(new, i)]
        BY <2>3, <2>6, <3>2
      <4> HIDE DEF tail
      <4>3. LogOf(new) = tail
        BY <4>1, <4>2
      <4> QED
        BY <4>3 DEF tail
    <3> QED
      BY <1>1, <1>4, <2>3, <2>6, <3>1, <3>5 DEF new, log
  <2> QED
    BY <1>1, <2>5, <2>6
<1> QED
  BY <1>3, <1>4

-----------------------------------------------------------------------------
(* The counters.                                                           *)

RecordSet ==
  [kind : Kinds \cup {"fail open"}, scope : ScopeKeys \cup {UnknownScope},
   predicted : Sizes \cup {0}, actual : {<<>>} \cup {<<n>> : n \in Sizes}]

StatementSet ==
  [kind : Kinds \cup {"fail open"}, scope : ScopeKeys \cup {UnknownScope},
   predicted : Sizes \cup {0}, charged : Sizes \cup {0}, actual : Sizes \cup {0}]

LEMMA StatementFields ==
  ASSUME NEW s \in StatementSet
  PROVE  /\ s.predicted \in Nat /\ s.charged \in Nat /\ s.actual \in Nat
         /\ s.kind \in Kinds \cup {"fail open"}
         /\ s.scope \in ScopeKeys \cup {UnknownScope}
         /\ s.predicted \in Sizes \cup {0}
<1>1. Sizes \subseteq Nat
  BY Zenon, TelemetryAssumption
<1>2. s.predicted \in Sizes \cup {0} /\ s.charged \in Sizes \cup {0}
      /\ s.actual \in Sizes \cup {0}
  BY DEF StatementSet
<1>3. s.kind \in Kinds \cup {"fail open"} /\ s.scope \in ScopeKeys \cup {UnknownScope}
  BY DEF StatementSet
<1>4. Sizes \cup {0} \subseteq Nat
  BY <1>1
<1>5. s.predicted \in Nat /\ s.charged \in Nat /\ s.actual \in Nat
  BY <1>2, <1>4, Zenon
<1> QED
  BY <1>2, <1>3, <1>5, Zenon

LEMMA SaturatedType ==
  ASSUME NEW n \in Nat
  PROVE  /\ Saturated(n) \in 0..MaxU64
         /\ n <= MaxU64 => Saturated(n) = n
         /\ \A m \in Nat : Saturated(Saturated(n) + m) = Saturated(n + m)
  BY Bounds DEF Saturated, Least

Deltas == [CounterNames -> Nat]

LEMMA NoDeltaType ==
  NoDelta \in Deltas /\ \A name \in CounterNames : NoDelta[name] = 0
  BY DEF NoDelta, Deltas

LEMMA AddCountersType ==
  ASSUME counters \in [CounterNames -> 0..MaxU64], NEW delta \in Deltas
  PROVE  /\ AddCounters(delta) \in [CounterNames -> 0..MaxU64]
         /\ \A name \in CounterNames :
              AddCounters(delta)[name] = Saturated(counters[name] + delta[name])
<1>1. ASSUME NEW name \in CounterNames
      PROVE  Saturated(counters[name] + delta[name]) \in 0..MaxU64
  <2>1. counters[name] + delta[name] \in Nat
    BY Bounds DEF Deltas
  <2> QED
    BY <2>1, SaturatedType
<1> QED
  BY <1>1 DEF AddCounters

LEMMA DecisionDelta ==
  ASSUME NEW s \in StatementSet
  PROVE  LET d == DeltaForDecision(s) IN
         /\ d \in Deltas
         /\ d["accepted"] = IF s.kind = "rejected" THEN 0 ELSE 1
         /\ d["rejected"] = IF s.kind = "rejected" THEN 1 ELSE 0
         /\ d["actual"] = 0 /\ d["dropped"] = 0
<1>1. s.predicted \in Nat
  BY StatementFields
<1> QED
  BY <1>1, NoDeltaType DEF DeltaForDecision, Deltas, CounterNames

LEMMA DroppingDelta ==
  ASSUME NEW delta \in Deltas, NEW n \in Nat
  PROVE  LET d == [delta EXCEPT !["dropped"] = n] IN
         /\ d \in Deltas /\ d["dropped"] = n
         /\ \A name \in CounterNames : name # "dropped" => d[name] = delta[name]
  BY DEF Deltas, CounterNames

LEMMA ResultDelta ==
  ASSUME NEW s \in StatementSet
  PROVE  LET d == DeltaForResult(s) IN
         /\ d \in Deltas
         /\ d["actual"] = s.actual
         /\ d["accepted"] = 0 /\ d["rejected"] = 0 /\ d["dropped"] = 0
<1>1. s.predicted \in Nat /\ s.charged \in Nat /\ s.actual \in Nat
  BY StatementFields
<1>2. /\ Beyond(s.actual, s.predicted) + Beyond(s.predicted, s.actual) \in Nat
      /\ (IF s.charged = 0 THEN 0 ELSE Beyond(s.actual, s.charged)) \in Nat
  BY <1>1 DEF Beyond
<1> QED
  BY <1>1, <1>2, NoDeltaType DEF DeltaForResult, Deltas, CounterNames

LEMMA OneDelta ==
  ASSUME NEW name \in CounterNames
  PROVE  /\ One(name) \in Deltas
         /\ \A other \in CounterNames : other # name => One(name)[other] = 0
  BY NoDeltaType DEF One, Deltas

-----------------------------------------------------------------------------
(* The types.                                                              *)

Labels ==
  {"idle", "running", "append failure", "append result", "observe", "settle",
   "count abort"}

\* What a backend that is as far as `label' knows of its statement.
Fits(label, s) ==
  IF label = "idle" THEN s = NoStatement
  ELSE /\ s \in StatementSet /\ s.kind # "rejected"
       /\ label = "append failure" => s.kind = "fail open"
       /\ label = "append result" => s.actual \in Sizes

StatementsOK ==
  /\ pc \in [Backends -> Labels]
  /\ statement = [b \in Backends |-> statement[b]]
  /\ \A b \in Backends : Fits(pc[b], statement[b])

RingTyped(r) == RingOK(r) /\ \A i \in 1..r.count : At(r, i) \in RecordSet

\* A slot without a name has counted nothing, and no two have the same name.
NamesTyped(ns) ==
  /\ ns = [slot \in NameSlots |-> ns[slot]]
  /\ \A slot \in NameSlots :
       /\ ns[slot] = [scope |-> ns[slot].scope, seen |-> ns[slot].seen]
       /\ ns[slot].scope \in {<<>>} \cup ScopeKeys
       /\ ns[slot].seen \in 0..MaxU64
       /\ ns[slot].scope = <<>> => ns[slot].seen = 0
  /\ \A slot, other \in NameSlots :
       ns[slot].scope = ns[other].scope /\ ns[slot].scope # <<>> => slot = other

\* The backends that have counted and not yet appended.
Flying == {b \in Backends : Counted(b)}

FlightOK ==
  /\ torn \in [Backends -> BOOLEAN] /\ \A b \in Backends : torn[b] => Counted(b)
  /\ records \in Nat /\ ring.head + Cardinality(Flying) <= records

TInv ==
  /\ counters \in [CounterNames -> 0..MaxU64]
  /\ RingTyped(ring) /\ NamesTyped(names)
  /\ StatementsOK /\ FlightOK

LEMMA KindNames ==
  "blank" \notin Kinds \cup {"fail open"} /\ "none" \notin Kinds \cup {"fail open"}
<1>1. Kinds \subseteq {"allowed", "no matching policy", "would reject", "rejected"}
  BY Zenon, TelemetryAssumption
<1> QED
  BY <1>1

LEMMA NoStatementIsNone == NoStatement \notin StatementSet
<1>1. NoStatement.kind = "none"
  BY DEF NoStatement
<1> QED
  BY <1>1, KindNames DEF StatementSet

LEMMA RecordType ==
  ASSUME NEW s \in StatementSet
  PROVE  /\ Record(s, <<>>) \in RecordSet
         /\ s.actual \in Sizes => Record(s, <<s.actual>>) \in RecordSet
         /\ \A actual : /\ Record(s, actual).kind = s.kind
                        /\ Record(s, actual).actual = actual
<1>1. s.kind \in Kinds \cup {"fail open"} /\ s.scope \in ScopeKeys \cup {UnknownScope}
      /\ s.predicted \in Sizes \cup {0}
  BY StatementFields
<1> QED
  BY <1>1 DEF Record, RecordSet

LEMMA BlankIsNoRecord == Blank \notin RecordSet
<1>1. Blank.kind = "blank"
  BY DEF Blank
<1> QED
  BY <1>1, KindNames DEF RecordSet

\* A record is appended, if there is a ring at all.
LEMMA AppendType ==
  ASSUME NEW r, RingTyped(r), NEW record \in RecordSet
  PROVE  LET new == RecordRecentDecision(r, record) IN
         /\ RingTyped(new)
         /\ new.head \in Nat /\ new.head <= r.head + 1
<1>1. CASE RingCapacity = 0
  <2>1. RecordRecentDecision(r, record) = r
    BY <1>1 DEF RecordRecentDecision
  <2> QED
    BY <2>1, RingNumbers DEF RingTyped
<1>2. CASE RingCapacity # 0
  <2> DEFINE new == RecordRecentDecision(r, record)
  <2>1. record # Blank
    BY BlankIsNoRecord
  <2>2. /\ RingOK(new) /\ \A i \in 1..new.count : At(new, i) \in RecordSet
        /\ r.head = MaxU64 => new.head = 1
        /\ r.head # MaxU64 => new.head = r.head + 1
    BY <1>2, <2>1, LogRecords DEF RingTyped
  <2> HIDE DEF new
  <2>3. new.head \in Nat /\ new.head <= r.head + 1
    BY <2>2, RingNumbers DEF RingTyped
  <2> QED
    BY <2>2, <2>3 DEF RingTyped, new
<1> QED
  BY <1>1, <1>2

LEMMA EmptyRingTyped == RingTyped(EmptyRing) /\ EmptyRing.head = 0
<1>1. \A i \in 1..EmptyRing.count : FALSE
  BY EmptyRingOK
<1> QED
  BY <1>1, EmptyRingOK DEF RingTyped

LEMMA LeastSlot ==
  ASSUME NEW slots, slots \subseteq NameSlots, slots # {}
  PROVE  FirstSlot(slots) \in slots
<1>1. slots \subseteq Nat
  BY Bounds DEF NameSlots
<1>2. PICK n \in slots : \A m \in slots : ~(<<m, n>> \in OpToRel(<, Nat))
  BY <1>1, NatLessThanWellFounded, WFMin
<1>3. ASSUME NEW a \in Nat, NEW b \in Nat, a < b
      PROVE  <<a, b>> \in OpToRel(<, Nat)
  BY <1>3 DEF OpToRel
<1>4. ASSUME NEW m \in slots PROVE n <= m
  <2>1. ~(m < n)
    BY <1>1, <1>2, <1>3
  <2> QED
    BY <1>1, <2>1
<1> QED
  BY <1>4 DEF FirstSlot

\* A scope takes its own slot, or else a free one.
LEMMA RecordedName ==
  ASSUME NEW ns, NamesTyped(ns), NEW scope \in ScopeKeys, ~Dropped(ns, scope)
  PROVE  \E slot \in NameSlots :
           /\ RecordScopeName(ns, scope) =
                [ns EXCEPT ![slot] = [scope |-> scope,
                                      seen |-> Saturated(ns[slot].seen + 1)]]
           /\ \/ ns[slot].scope = scope
              \/ ns[slot].scope = <<>> /\ \A other \in NameSlots : ns[other].scope # scope
<1> DEFINE slots == NameSlot(ns, scope)
           slot == FirstSlot(slots)
<1>1. slots # {} /\ slots \subseteq NameSlots
  BY DEF Dropped, NameSlot, SlotsOf
<1>2. slot \in slots
  <2> HIDE DEF slots
  <2> QED
    BY <1>1, LeastSlot
<1>3. \/ ns[slot].scope = scope
      \/ ns[slot].scope = <<>> /\ \A other \in NameSlots : ns[other].scope # scope
  BY <1>2 DEF NameSlot, SlotsOf
<1> HIDE DEF slot
<1>4. slot \in NameSlots
  BY <1>1, <1>2
<1>5. RecordScopeName(ns, scope) =
        [ns EXCEPT ![slot] = [scope |-> scope, seen |-> Saturated(@.seen + 1)]]
  BY DEF RecordScopeName, slot
<1> QED
  BY <1>3, <1>4, <1>5

LEMMA NamesType ==
  ASSUME NEW ns, NamesTyped(ns), NEW scope \in ScopeKeys
  PROVE  NamesTyped(RecordScopeName(ns, scope))
<1>1. CASE Dropped(ns, scope)
  BY <1>1 DEF RecordScopeName
<1>2. CASE ~Dropped(ns, scope)
  <2> DEFINE new == RecordScopeName(ns, scope)
  <2>1. PICK slot \in NameSlots :
          /\ new = [ns EXCEPT ![slot] = [scope |-> scope,
                                         seen |-> Saturated(ns[slot].seen + 1)]]
          /\ \/ ns[slot].scope = scope
             \/ ns[slot].scope = <<>> /\ \A other \in NameSlots : ns[other].scope # scope
    BY <1>2, RecordedName
  <2> HIDE DEF new
  <2>2. scope # <<>>
    BY Zenon, TelemetryAssumption
  <2>3. Saturated(ns[slot].seen + 1) \in 0..MaxU64
    <3>1. ns[slot].seen + 1 \in Nat
      BY Bounds DEF NamesTyped
    <3> QED
      BY <3>1, SaturatedType
  <2>4. /\ new = [other \in NameSlots |-> new[other]]
        /\ new[slot] = [scope |-> scope, seen |-> Saturated(ns[slot].seen + 1)]
        /\ \A other \in NameSlots : other # slot => new[other] = ns[other]
    BY <2>1 DEF NamesTyped
  <2>5. new[slot].scope = scope /\ new[slot].seen = Saturated(ns[slot].seen + 1)
    BY <2>4
  <2>6. ASSUME NEW other \in NameSlots
        PROVE  /\ new[other] = [scope |-> new[other].scope, seen |-> new[other].seen]
               /\ new[other].scope \in {<<>>} \cup ScopeKeys
               /\ new[other].seen \in 0..MaxU64
               /\ new[other].scope = <<>> => new[other].seen = 0
    <3>1. CASE other # slot
      BY <2>4, <3>1 DEF NamesTyped
    <3>2. CASE other = slot
      BY <2>2, <2>3, <2>4, <2>5, <3>2
    <3> QED
      BY <3>1, <3>2
  <2>7. ASSUME NEW x \in NameSlots, NEW y \in NameSlots,
               new[x].scope = new[y].scope, new[x].scope # <<>>, x # y
        PROVE  FALSE
    <3>1. CASE x # slot /\ y # slot
      BY <2>4, <2>7, <3>1 DEF NamesTyped
    <3>2. CASE x = slot \/ y = slot
      <4>1. PICK other \in NameSlots : other # slot /\ ns[other].scope = scope
        BY <2>4, <2>5, <2>7, <3>2
      <4>2. ns[slot].scope = scope
        BY <2>1, <4>1
      <4> QED
        BY <2>2, <4>1, <4>2 DEF NamesTyped
    <3> QED
      BY <3>1, <3>2
  <2>8. NamesTyped(new)
    BY <2>4, <2>6, <2>7 DEF NamesTyped
  <2> QED
    BY <2>8 DEF new
<1> QED
  BY <1>1, <1>2

LEMMA NoNamesType == NamesTyped(NoNames)
<1>1. NoName = [scope |-> <<>>, seen |-> 0] /\ NoName.scope = <<>> /\ NoName.seen = 0
  BY DEF NoName
<1>2. NoNames = [slot \in NameSlots |-> NoName]
  BY DEF NoNames
<1> QED
  BY <1>1, <1>2, Bounds DEF NamesTyped

-----------------------------------------------------------------------------
(* Every step preserves the types.                                         *)

Counting == {"append failure", "append result"}

LEMMA FlyingIsFinite == IsFiniteSet(Flying) /\ Cardinality(Flying) \in Nat
<1>1. Flying \in SUBSET Backends
  BY DEF Flying
<1>2. IsFiniteSet(Flying)
  BY <1>1, Bounds, FS_Subset
<1> QED
  BY <1>2, FS_CardinalityType

LEMMA FlyingAfter ==
  ASSUME StatementsOK, NEW b \in Backends, NEW label \in Labels,
         pc' = [pc EXCEPT ![b] = label]
  PROVE  /\ Cardinality(Flying') \in Nat
         /\ ~Counted(b) /\ label \in Counting =>
              Cardinality(Flying') = Cardinality(Flying) + 1
         /\ Counted(b) /\ label \notin Counting =>
              Cardinality(Flying') = Cardinality(Flying) - 1
         /\ (Counted(b) <=> label \in Counting) =>
              Cardinality(Flying') = Cardinality(Flying)
<1> DEFINE fly == Flying
<1>1. Flying' = {x \in Backends : pc'[x] \in Counting}
  BY DEF Flying, Counted, Counting
<1>2. pc'[b] = label /\ \A x \in Backends : x # b => pc'[x] = pc[x]
  BY DEF StatementsOK
<1>3. \A x \in Backends : x \in fly <=> pc[x] \in Counting
  BY DEF Flying, Counted, Counting
<1>4. Counted(b) <=> b \in fly
  BY DEF Flying
<1>5. IsFiniteSet(fly) /\ Cardinality(fly) \in Nat /\ fly \subseteq Backends
  BY FlyingIsFinite DEF Flying
<1> HIDE DEF fly
<1>6. Flying' = IF label \in Counting THEN fly \cup {b} ELSE fly \ {b}
  <2>1. CASE label \in Counting
    BY <1>1, <1>2, <1>3, <1>5, <2>1
  <2>2. CASE label \notin Counting
    BY <1>1, <1>2, <1>3, <1>5, <2>2
  <2> QED
    BY <2>1, <2>2
<1>7. /\ Cardinality(fly \cup {b}) = IF b \in fly THEN Cardinality(fly) ELSE Cardinality(fly) + 1
      /\ Cardinality(fly \ {b}) = IF b \in fly THEN Cardinality(fly) - 1 ELSE Cardinality(fly)
      /\ Cardinality(fly \ {b}) \in Nat
  <2>1. /\ Cardinality(fly \cup {b}) = IF b \in fly THEN Cardinality(fly) ELSE Cardinality(fly) + 1
        /\ Cardinality(fly \ {b}) = IF b \in fly THEN Cardinality(fly) - 1 ELSE Cardinality(fly)
        /\ IsFiniteSet(fly \ {b})
    BY <1>5, FS_AddElement, FS_RemoveElement
  <2> QED
    BY <2>1, FS_CardinalityType
<1>8. Cardinality(Flying') = IF label \in Counting THEN Cardinality(fly \cup {b})
                                                   ELSE Cardinality(fly \ {b})
  BY <1>6
<1>9. Cardinality(fly) = Cardinality(Flying)
  BY DEF fly
<1> QED
  BY <1>4, <1>5, <1>7, <1>8, <1>9

LEMMA GotoFits ==
  ASSUME StatementsOK, NEW b \in Backends, NEW label \in Labels, NEW s, Fits(label, s),
         Goto(b, label, s)
  PROVE  StatementsOK' /\ pc' = [pc EXCEPT ![b] = label]
<1>1. pc' = [pc EXCEPT ![b] = label] /\ statement' = [statement EXCEPT ![b] = s]
  BY DEF Goto
<1>2. pc' \in [Backends -> Labels] /\ statement' = [x \in Backends |-> statement'[x]]
  BY <1>1 DEF StatementsOK
<1>3. \A x \in Backends : Fits(pc'[x], statement'[x])
  <2> TAKE x \in Backends
  <2>1. CASE x = b
    BY <1>1, <2>1 DEF StatementsOK
  <2>2. CASE x # b
    <3>1. pc'[x] = pc[x] /\ statement'[x] = statement[x] /\ Fits(pc[x], statement[x])
      BY <1>1, <2>2 DEF StatementsOK
    <3> QED
      BY <3>1
  <2> QED
    BY <2>1, <2>2
<1> QED
  BY <1>1, <1>2, <1>3 DEF StatementsOK

\* The parts of the types, from the change of each variable.
LEMMA TypesAfter ==
  ASSUME TInv, NEW b \in Backends, NEW label \in Labels, NEW s, Fits(label, s),
         Goto(b, label, s),
         counters' \in [CounterNames -> 0..MaxU64], RingTyped(ring'), NamesTyped(names'),
         torn' \in [Backends -> BOOLEAN], \A x \in Backends : torn'[x] => torn[x] /\ x # b,
         records' \in Nat,
         ring'.head - ring.head \in Int,
         \/ /\ ~Counted(b) /\ label \in Counting
            /\ records' = records + 1 /\ ring'.head = ring.head
         \/ /\ Counted(b) /\ label \notin Counting
            /\ records' = records /\ ring'.head <= ring.head + 1
         \/ /\ ~Counted(b) /\ label \notin Counting
            /\ ring'.head - ring.head <= records' - records
  PROVE  TInv'
<1>1. StatementsOK' /\ pc' = [pc EXCEPT ![b] = label]
  BY GotoFits DEF TInv
<1>2. FlightOK'
  <2>1. \A x \in Backends : torn'[x] => pc'[x] \in Counting
    BY <1>1 DEF TInv, FlightOK, StatementsOK, Counted, Counting
  <2>2. ring.head \in Nat /\ ring'.head \in Nat /\ records \in Nat
    BY RingNumbers DEF TInv, FlightOK, RingTyped
  <2>3. Cardinality(Flying) \in Nat /\ ring.head + Cardinality(Flying) <= records
    BY FlyingIsFinite DEF TInv, FlightOK
  <2>4. ring'.head + Cardinality(Flying') <= records'
    <3>1. StatementsOK
      BY DEF TInv
    <3>2. /\ Cardinality(Flying') \in Nat
          /\ ~Counted(b) /\ label \in Counting =>
               Cardinality(Flying') = Cardinality(Flying) + 1
          /\ Counted(b) /\ label \notin Counting =>
               Cardinality(Flying') = Cardinality(Flying) - 1
          /\ (Counted(b) <=> label \in Counting) =>
               Cardinality(Flying') = Cardinality(Flying)
      BY <1>1, <3>1, FlyingAfter
    <3>3. CASE ~Counted(b) /\ label \in Counting
               /\ records' = records + 1 /\ ring'.head = ring.head
      BY <2>2, <2>3, <3>2, <3>3
    <3>4. CASE Counted(b) /\ label \notin Counting
               /\ records' = records /\ ring'.head <= ring.head + 1
      BY <2>2, <2>3, <3>2, <3>4
    <3>5. CASE ~Counted(b) /\ label \notin Counting
               /\ ring'.head - ring.head <= records' - records
      BY <2>2, <2>3, <3>2, <3>5
    <3> QED
      BY <3>3, <3>4, <3>5
  <2> QED
    BY <2>1, <2>4 DEF FlightOK, Counted, Counting
<1> QED
  BY <1>1, <1>2 DEF TInv

LEMMA TornClears ==
  ASSUME TInv, NEW b \in Backends, torn' = [torn EXCEPT ![b] = FALSE]
  PROVE  torn' \in [Backends -> BOOLEAN] /\ \A x \in Backends : torn'[x] => torn[x] /\ x # b
  BY DEF TInv, FlightOK

\* A backend that has counted nothing is not torn.
LEMMA TornStays ==
  ASSUME TInv, NEW b \in Backends, ~Counted(b), torn' = torn
  PROVE  torn' \in [Backends -> BOOLEAN] /\ \A x \in Backends : torn'[x] => torn[x] /\ x # b
  BY DEF TInv, FlightOK

LEMMA StatementOf ==
  ASSUME TInv, NEW b \in Backends, pc[b] # "idle"
  PROVE  /\ statement[b] \in StatementSet /\ statement[b].kind # "rejected"
         /\ pc[b] = "append failure" => statement[b].kind = "fail open"
         /\ pc[b] = "append result" => statement[b].actual \in Sizes
  BY DEF TInv, StatementsOK, Fits

LEMMA StatementType ==
  ASSUME NEW kind \in Kinds \cup {"fail open"}, NEW scope \in ScopeKeys \cup {UnknownScope},
         NEW predicted \in Sizes \cup {0}, NEW charged \in Sizes \cup {0}
  PROVE  /\ Statement(kind, scope, predicted, charged) \in StatementSet
         /\ Statement(kind, scope, predicted, charged).kind = kind
         /\ Statement(kind, scope, predicted, charged).scope = scope
  BY DEF Statement, StatementSet

LEMMA AdmissionType ==
  ASSUME NEW s \in Admissions
  PROVE  s \in StatementSet /\ s.kind \in Kinds /\ s.scope \in ScopeKeys
<1>1. PICK kind \in Kinds, scope \in ScopeKeys, predicted \in Sizes, charged \in Sizes \cup {0} :
        s = Statement(kind, scope, predicted, charged)
  BY DEF Admissions
<1>2. s.kind = kind /\ s.scope = scope
  BY <1>1 DEF Statement
<1>3. s \in StatementSet
  BY <1>1 DEF Statement, StatementSet
<1> QED
  BY <1>2, <1>3

LEMMA FailureType ==
  ASSUME NEW s \in Failures
  PROVE  s \in StatementSet /\ s.kind = "fail open"
<1>1. PICK scope \in ScopeKeys \cup {UnknownScope}, predicted \in Sizes \cup {0} :
        s = FailOpen(scope, predicted)
  BY DEF Failures
<1>2. s = [kind |-> "fail open", scope |-> scope, predicted |-> predicted,
           charged |-> 0, actual |-> 0]
  BY <1>1 DEF FailOpen, Statement
<1>3. "fail open" \in Kinds \cup {"fail open"} /\ 0 \in Sizes \cup {0}
  OBVIOUS
<1>4. s \in StatementSet
  BY <1>2, <1>3 DEF StatementSet
<1>5. s.kind = "fail open"
  BY <1>2
<1> QED
  BY <1>4, <1>5

LEMMA FailOpenIsNoKind == "fail open" \notin Kinds
<1>1. Kinds \subseteq {"allowed", "no matching policy", "would reject", "rejected"}
  BY Zenon, TelemetryAssumption
<1> QED
  BY <1>1

LEMMA HeadType ==
  ASSUME TInv
  PROVE  ring.head \in Nat /\ ring.head <= MaxU64 /\ records \in Nat /\ ring.head <= records
<1>1. ring.head \in Nat /\ ring.head <= MaxU64
  BY RingNumbers DEF TInv, RingTyped
<1>2. Cardinality(Flying) \in Nat
  BY FlyingIsFinite
<1> QED
  BY <1>1, <1>2 DEF TInv, FlightOK

\* What a decision adds to the counters.
LEMMA DecisionCounts ==
  ASSUME counters \in [CounterNames -> 0..MaxU64], NEW s \in StatementSet
  PROVE  LET new == CountersAfterDecision(s) IN
         /\ new \in [CounterNames -> 0..MaxU64]
         /\ new["accepted"] = Saturated(counters["accepted"]
                                        + (IF s.kind = "rejected" THEN 0 ELSE 1))
         /\ new["rejected"] = Saturated(counters["rejected"]
                                        + (IF s.kind = "rejected" THEN 1 ELSE 0))
         /\ new["actual"] = counters["actual"]
         /\ new["dropped"] = Saturated(counters["dropped"]
                                       + (IF Dropped(names, s.scope) THEN 1 ELSE 0))
<1> DEFINE n == IF Dropped(names, s.scope) THEN 1 ELSE 0
           decision == DeltaForDecision(s)
           delta == [decision EXCEPT !["dropped"] = n]
<1>1. n \in Nat
  OBVIOUS
<1>2. /\ decision \in Deltas
      /\ decision["accepted"] = IF s.kind = "rejected" THEN 0 ELSE 1
      /\ decision["rejected"] = IF s.kind = "rejected" THEN 1 ELSE 0
      /\ decision["actual"] = 0
  BY DecisionDelta
<1> HIDE DEF n, decision
<1>3. /\ delta \in Deltas /\ delta["dropped"] = n
      /\ \A name \in CounterNames : name # "dropped" => delta[name] = decision[name]
  BY <1>1, <1>2, DroppingDelta
<1>4. delta["accepted"] = decision["accepted"] /\ delta["rejected"] = decision["rejected"]
      /\ delta["actual"] = decision["actual"]
  BY <1>3 DEF CounterNames
<1> HIDE DEF delta
<1>5. CountersAfterDecision(s) = AddCounters(delta)
  BY DEF CountersAfterDecision, delta, decision, n
<1>6. /\ AddCounters(delta) \in [CounterNames -> 0..MaxU64]
      /\ \A name \in CounterNames :
           AddCounters(delta)[name] = Saturated(counters[name] + delta[name])
  BY <1>3, AddCountersType
<1>7. {"accepted", "rejected", "actual", "dropped"} \subseteq CounterNames
  BY DEF CounterNames
<1>8. Saturated(counters["actual"] + 0) = counters["actual"]
  BY <1>7, SaturatedType, Bounds
<1> QED
  BY <1>2, <1>3, <1>4, <1>5, <1>6, <1>7, <1>8 DEF n

LEMMA DecideTypes ==
  ASSUME TInv, NEW b \in Backends, NEW s \in Admissions, Decide(b, s)
  PROVE  TInv'
<1>1. s \in StatementSet /\ s.kind \in Kinds /\ s.scope \in ScopeKeys
  BY AdmissionType
<1>2. /\ pc[b] = "idle" /\ records' = records + 1 /\ torn' = torn
      /\ ring' = RecordRecentDecision(ring, Record(s, <<>>))
      /\ names' = RecordScopeName(names, s.scope)
      /\ counters' = CountersAfterDecision(s)
      /\ IF s.kind = "rejected" THEN Goto(b, "idle", NoStatement) ELSE Goto(b, "running", s)
  BY DEF Decide, End, history
<1>3. counters' \in [CounterNames -> 0..MaxU64]
  BY <1>1, <1>2, DecisionCounts DEF TInv
<1>4. RingTyped(ring') /\ ring'.head \in Nat /\ ring'.head <= ring.head + 1
  BY <1>1, <1>2, RecordType, AppendType DEF TInv
<1>5. NamesTyped(names')
  BY <1>1, <1>2, NamesType DEF TInv
<1>6. ~Counted(b)
  BY <1>2 DEF Counted
<1>7. torn' \in [Backends -> BOOLEAN] /\ \A x \in Backends : torn'[x] => torn[x] /\ x # b
  BY <1>2, <1>6, TornStays
<1>8. /\ records' \in Nat /\ ring'.head - ring.head \in Int
      /\ ring'.head - ring.head <= records' - records
  BY <1>2, <1>4, HeadType
<1>9. "idle" \in Labels /\ "running" \in Labels /\ {"idle", "running"} \cap Counting = {}
  BY DEF Labels, Counting
<1>10. CASE s.kind = "rejected"
  <2>1. Goto(b, "idle", NoStatement) /\ Fits("idle", NoStatement)
    BY <1>2, <1>10 DEF Fits
  <2> QED
    BY <1>3, <1>4, <1>5, <1>6, <1>7, <1>8, <1>9, <2>1, TypesAfter
<1>11. CASE s.kind # "rejected"
  <2>1. Goto(b, "running", s) /\ Fits("running", s)
    BY <1>1, <1>2, <1>11 DEF Fits
  <2> QED
    BY <1>3, <1>4, <1>5, <1>6, <1>7, <1>8, <1>9, <2>1, TypesAfter
<1> QED
  BY <1>10, <1>11

LEMMA CountFailOpenTypes ==
  ASSUME TInv, NEW b \in Backends, NEW s \in Failures, CountFailOpen(b, s)
  PROVE  TInv'
<1>1. s \in StatementSet /\ s.kind = "fail open"
  BY FailureType
<1>2. /\ pc[b] = "idle" /\ records' = records + 1 /\ torn' = torn
      /\ ring' = ring /\ names' = names
      /\ counters' = AddCounters(DeltaForDecision(s))
      /\ Goto(b, "append failure", s)
  BY DEF CountFailOpen, history
<1>3. counters' \in [CounterNames -> 0..MaxU64]
  <2>1. DeltaForDecision(s) \in Deltas
    BY <1>1, DecisionDelta
  <2> QED
    BY <1>2, <2>1, AddCountersType DEF TInv
<1>4. ~Counted(b)
  BY <1>2 DEF Counted
<1>5. torn' \in [Backends -> BOOLEAN] /\ \A x \in Backends : torn'[x] => torn[x] /\ x # b
  BY <1>2, <1>4, TornStays
<1>6. "append failure" \in Labels /\ "append failure" \in Counting
      /\ Fits("append failure", s)
  BY <1>1 DEF Labels, Counting, Fits
<1>7. records' \in Nat /\ ring'.head - ring.head \in Int /\ ring'.head = ring.head
  <2>1. ring.head \in Nat /\ records \in Nat
    BY HeadType
  <2>2. records' = records + 1
    BY <1>2
  <2>3. ring'.head = ring.head
    BY <1>2
  <2> QED
    BY <2>1, <2>2, <2>3
<1>8. RingTyped(ring') /\ NamesTyped(names')
  BY <1>2 DEF TInv
<1> QED
  BY <1>2, <1>3, <1>4, <1>5, <1>6, <1>7, <1>8, TypesAfter

\* A counted record is appended.
LEMMA AppendTypes ==
  ASSUME TInv, NEW b \in Backends, Counted(b), NEW record \in RecordSet,
         AppendRecord(b, record), NEW label \in Labels, label \notin Counting, NEW s,
         Fits(label, s), Goto(b, label, s), UNCHANGED <<counters, names, records>>
  PROVE  TInv'
<1>1. ring' = RecordRecentDecision(ring, record) /\ torn' = [torn EXCEPT ![b] = FALSE]
  BY DEF AppendRecord
<1>2. RingTyped(ring') /\ ring'.head \in Nat /\ ring'.head <= ring.head + 1
  BY <1>1, AppendType DEF TInv
<1>3. torn' \in [Backends -> BOOLEAN] /\ \A x \in Backends : torn'[x] => torn[x] /\ x # b
  BY <1>1, TornClears
<1>4. records' \in Nat /\ records' = records /\ ring'.head - ring.head \in Int
  BY <1>2, HeadType
<1>5. counters' \in [CounterNames -> 0..MaxU64] /\ NamesTyped(names')
  BY DEF TInv
<1> QED
  BY <1>2, <1>3, <1>4, <1>5, TypesAfter

LEMMA AppendFailOpenTypes ==
  ASSUME TInv, NEW b \in Backends, AppendFailOpen(b)
  PROVE  TInv'
<1>1. pc[b] = "append failure" /\ AppendRecord(b, Record(statement[b], <<>>))
      /\ Goto(b, "idle", NoStatement) /\ UNCHANGED <<counters, names, records>>
  BY DEF AppendFailOpen, End
<1>2. Record(statement[b], <<>>) \in RecordSet
  BY <1>1, StatementOf, RecordType
<1>3. Counted(b) /\ "idle" \in Labels /\ "idle" \notin Counting /\ Fits("idle", NoStatement)
  BY <1>1 DEF Counted, Labels, Counting, Fits
<1> QED
  BY <1>1, <1>2, <1>3, AppendTypes

LEMMA CountResultTypes ==
  ASSUME TInv, NEW b \in Backends, NEW actual \in Sizes, CountResult(b, actual)
  PROVE  TInv'
<1> DEFINE s == [statement[b] EXCEPT !.actual = actual]
<1>1. /\ pc[b] = "running" /\ records' = records + 1 /\ torn' = torn
      /\ ring' = ring /\ names' = names
      /\ counters' = AddCounters(DeltaForResult(s))
      /\ Goto(b, "append result", s)
  BY DEF CountResult, history
<1>2. s \in StatementSet /\ s.actual = actual /\ s.kind # "rejected"
  BY <1>1, StatementOf DEF StatementSet
<1> HIDE DEF s
<1>3. counters' \in [CounterNames -> 0..MaxU64]
  <2>1. DeltaForResult(s) \in Deltas
    BY <1>2, ResultDelta
  <2> QED
    BY <1>1, <2>1, AddCountersType DEF TInv
<1>4. ~Counted(b)
  BY <1>1 DEF Counted
<1>5. torn' \in [Backends -> BOOLEAN] /\ \A x \in Backends : torn'[x] => torn[x] /\ x # b
  BY <1>1, <1>4, TornStays
<1>6. "append result" \in Labels /\ "append result" \in Counting /\ Fits("append result", s)
  BY <1>2 DEF Labels, Counting, Fits
<1>7. records' \in Nat /\ ring'.head - ring.head \in Int /\ ring'.head = ring.head
  <2>1. ring.head \in Nat /\ records \in Nat
    BY HeadType
  <2>2. records' = records + 1
    BY <1>1
  <2>3. ring'.head = ring.head
    BY <1>1
  <2> QED
    BY <2>1, <2>2, <2>3
<1>8. RingTyped(ring') /\ NamesTyped(names')
  BY <1>1 DEF TInv
<1> QED
  BY <1>1, <1>3, <1>4, <1>5, <1>6, <1>7, <1>8, TypesAfter

LEMMA AppendResultTypes ==
  ASSUME TInv, NEW b \in Backends, AppendResult(b)
  PROVE  TInv'
<1>1. pc[b] = "append result"
      /\ AppendRecord(b, Record(statement[b], <<statement[b].actual>>))
      /\ Goto(b, "observe", statement[b]) /\ UNCHANGED <<counters, names, records>>
  BY DEF AppendResult
<1>2. statement[b] \in StatementSet /\ statement[b].kind # "rejected"
      /\ statement[b].actual \in Sizes
  BY <1>1, StatementOf
<1>3. Record(statement[b], <<statement[b].actual>>) \in RecordSet
  BY <1>2, RecordType
<1>4. Counted(b) /\ "observe" \in Labels /\ "observe" \notin Counting
      /\ Fits("observe", statement[b])
  BY <1>1, <1>2 DEF Counted, Labels, Counting, Fits
<1> QED
  BY <1>1, <1>3, <1>4, AppendTypes

\* A step that appends nothing and counts no record.
Aside(b) ==
  /\ \/ counters' = counters
     \/ \E name \in CounterNames \ {"accepted", "rejected", "actual", "dropped"} :
          counters' = AddCounters(One(name))
  /\ UNCHANGED <<ring, names, torn, uncounted, records>>
  /\ ~Counted(b)
  /\ \E label \in Labels \ Counting :
       /\ pc' = [pc EXCEPT ![b] = label]
       /\ \/ statement' = [statement EXCEPT ![b] = statement[b]] /\ label # "idle"
          \/ statement' = [statement EXCEPT ![b] = NoStatement] /\ label = "idle"
  /\ pc[b] # "idle"

LEMMA AsideTypes ==
  ASSUME TInv, NEW b \in Backends, Aside(b)
  PROVE  TInv'
<1>1. PICK label \in Labels \ Counting :
        \/ Goto(b, label, statement[b]) /\ label # "idle"
        \/ Goto(b, label, NoStatement) /\ label = "idle"
  BY DEF Aside, Goto
<1>2. PICK s : Goto(b, label, s) /\ Fits(label, s)
  <2>1. statement[b] \in StatementSet /\ statement[b].kind # "rejected"
    BY StatementOf DEF Aside
  <2>2. label # "append failure" /\ label # "append result"
    BY DEF Counting
  <2> QED
    BY <1>1, <2>1, <2>2 DEF Fits
<1>3. counters' \in [CounterNames -> 0..MaxU64]
  <2>1. CASE counters' = counters
    BY <2>1 DEF TInv
  <2>2. CASE counters' # counters
    <3>1. PICK name \in CounterNames : counters' = AddCounters(One(name))
      BY <2>2 DEF Aside
    <3>2. One(name) \in Deltas
      BY OneDelta
    <3> QED
      BY <3>1, <3>2, AddCountersType DEF TInv
  <2> QED
    BY <2>1, <2>2
<1>4. ~Counted(b) /\ UNCHANGED <<ring, names, torn, records>>
  BY DEF Aside
<1>5. torn' \in [Backends -> BOOLEAN] /\ \A x \in Backends : torn'[x] => torn[x] /\ x # b
  BY <1>4, TornStays
<1>6. records' \in Nat /\ ring'.head - ring.head \in Int
      /\ ring'.head - ring.head <= records' - records
  BY <1>4, HeadType
<1>7. RingTyped(ring') /\ NamesTyped(names')
  BY <1>4 DEF TInv
<1> QED
  BY <1>1, <1>2, <1>3, <1>4, <1>5, <1>6, <1>7, TypesAfter

LEMMA AsideSteps ==
  ASSUME NEW b \in Backends,
         \/ Observe(b) \/ ObservationFails(b) \/ ObservationRaises(b) \/ Settle(b)
         \/ EndUnmeasured(b) \/ RefundAborted(b) \/ CountAborted(b)
  PROVE  Aside(b)
<1>1. /\ {"fail open", "missing", "aborted"}
           \subseteq CounterNames \ {"accepted", "rejected", "actual", "dropped"}
      /\ {"idle", "settle", "count abort"} \subseteq Labels \ Counting
  BY DEF CounterNames, Labels, Counting
<1>2. CASE Observe(b)
  BY <1>1, <1>2 DEF Observe, Aside, Goto, shared, history, Counted
<1>3. CASE ObservationFails(b)
  BY <1>1, <1>3 DEF ObservationFails, Aside, Goto, history, Counted
<1>4. CASE ObservationRaises(b)
  BY <1>1, <1>4 DEF ObservationRaises, Aside, Goto, End, shared, history, Counted
<1>5. CASE Settle(b)
  BY <1>1, <1>5 DEF Settle, Aside, Goto, End, shared, history, Counted
<1>6. CASE EndUnmeasured(b)
  BY <1>1, <1>6 DEF EndUnmeasured, Aside, Goto, End, history, Counted
<1>7. CASE RefundAborted(b)
  BY <1>1, <1>7 DEF RefundAborted, Aside, Goto, End, shared, history, Counted
<1>8. CASE CountAborted(b)
  BY <1>1, <1>8 DEF CountAborted, Aside, Goto, End, history, Counted
<1> QED
  BY <1>2, <1>3, <1>4, <1>5, <1>6, <1>7, <1>8

LEMMA ResetTypes ==
  ASSUME TInv, ResetStats
  PROVE  TInv'
<1>1. /\ counters' = NoDelta /\ ring' = EmptyRing /\ names' = NoNames
      /\ torn' = [b \in Backends |-> Counted(b)]
      /\ UNCHANGED <<pc, statement, records>>
  BY DEF ResetStats, RingAfterReset, NamesAfterReset
<1>2. counters' \in [CounterNames -> 0..MaxU64]
  BY <1>1, Bounds DEF NoDelta
<1>3. RingTyped(ring') /\ NamesTyped(names')
  BY <1>1, EmptyRingTyped, NoNamesType
<1>4. StatementsOK'
  BY <1>1 DEF TInv, StatementsOK
<1>5. FlightOK'
  <2>1. torn' \in [Backends -> BOOLEAN] /\ \A b \in Backends : torn'[b] => Counted(b)'
    <3>1. \A b \in Backends : (pc[b] \in Counting) \in BOOLEAN
      OBVIOUS
    <3>2. torn' = [b \in Backends |-> pc[b] \in Counting] /\ pc' = pc
      BY <1>1 DEF Counted, Counting
    <3>3. torn' \in [Backends -> BOOLEAN]
      BY <3>1, <3>2, Zenon
    <3>4. \A b \in Backends : torn'[b] => pc'[b] \in Counting
      BY <3>2
    <3> QED
      BY <3>3, <3>4 DEF Counted, Counting
  <2>2. Flying' = Flying
    BY <1>1 DEF Flying, Counted
  <2>3. ring.head \in Nat /\ Cardinality(Flying) \in Nat
        /\ ring.head + Cardinality(Flying) <= records /\ records \in Nat
    BY HeadType, FlyingIsFinite DEF TInv, FlightOK
  <2>4. ring'.head + Cardinality(Flying') <= records'
    BY <1>1, <2>2, <2>3, EmptyRingTyped
  <2> QED
    BY <1>1, <2>1, <2>3, <2>4 DEF FlightOK
<1> QED
  BY <1>2, <1>3, <1>4, <1>5 DEF TInv

LEMMA InitTypes ==
  ASSUME Init PROVE TInv
<1>1. counters \in [CounterNames -> 0..MaxU64]
  BY Bounds DEF Init, NoDelta
<1>2. RingTyped(ring) /\ NamesTyped(names) /\ ring.head = 0
  BY EmptyRingTyped, NoNamesType DEF Init
<1>3. StatementsOK
  BY DEF Init, StatementsOK, Fits, Labels
<1>4. FlightOK
  <2>1. Flying = {}
    BY DEF Init, Flying, Counted
  <2> QED
    BY <1>2, <2>1, FS_EmptySet DEF Init, FlightOK
<1> QED
  BY <1>1, <1>2, <1>3, <1>4 DEF TInv

LEMMA NextTypes ==
  ASSUME TInv, [Next]_vars
  PROVE  TInv'
<1>1. ASSUME NEW b \in Backends,
             \/ Observe(b) \/ ObservationFails(b) \/ ObservationRaises(b) \/ Settle(b)
             \/ EndUnmeasured(b) \/ RefundAborted(b) \/ CountAborted(b)
      PROVE  TInv'
  BY <1>1, AsideSteps, AsideTypes
<1>2. CASE UNCHANGED vars
  <2>1. UNCHANGED <<counters, ring, names, pc, statement, torn, records>>
    BY <1>2 DEF vars, shared, history
  <2> QED
    BY <2>1 DEF TInv, StatementsOK, FlightOK, Flying, Counted
<1> QED
  BY <1>1, <1>2, DecideTypes, CountFailOpenTypes, AppendFailOpenTypes, CountResultTypes,
     AppendResultTypes, ResetTypes DEF Next

LEMMA Typed == Spec => []TInv
<1>1. Init => TInv
  BY InitTypes
<1>2. TInv /\ [Next]_vars => TInv'
  BY NextTypes
<1> QED
  BY <1>1, <1>2, PTL DEF Spec

\* The counters saturate, the ring's slots in use are the first ones, and a
\* backend has a statement exactly while it records one, also when the ring
\* wraps and its numbers are used up (saturating_add_delta,
\* record_recent_decision_locked).
THEOREM TypeCorrect == Spec => []TypeOK
<1>1. ASSUME TInv PROVE TypeOK
  <2>1. ring.head \in 0..MaxU64 /\ ring.count \in 0..RingCapacity /\ ring.count <= ring.head
    BY <1>1, RingNumbers, Bounds DEF TInv, RingTyped
  <2>2. \A slot \in RingSlots : ring.slots[slot] # Blank <=> slot < ring.count
    BY <1>1 DEF TInv, RingTyped, RingOK
  <2>3. \A b \in Backends : pc[b] = "idle" <=> statement[b] = NoStatement
    BY <1>1, NoStatementIsNone DEF TInv, StatementsOK, Fits
  <2> QED
    BY <1>1, <2>1, <2>2, <2>3 DEF TInv, TypeOK
<1> QED
  BY <1>1, Typed, PTL

-----------------------------------------------------------------------------
(* What the ring has while it has not wrapped.                             *)

LEMMA LogType ==
  ASSUME TInv
  PROVE  /\ ring.count \in Nat /\ Log \in [1..ring.count -> RecordSet]
         /\ DOMAIN Log = 1..ring.count
<1>1. RingOK(ring) /\ \A i \in 1..ring.count : At(ring, i) \in RecordSet
  BY DEF TInv, RingTyped
<1>2. Log = LogOf(ring)
  BY DEF Log, LogOf
<1> QED
  BY <1>1, <1>2, LogOfRing, RingNumbers

\* A record of a ring whose numbers are not used up.
LEMMA RingGrows ==
  ASSUME NEW r, RingTyped(r), RingCapacity # 0, NEW record \in RecordSet, r.head # MaxU64
  PROVE  LET new == RecordRecentDecision(r, record) IN
         /\ new.head = r.head + 1
         /\ r.count < RingCapacity =>
              new.count = r.count + 1 /\ LogOf(new) = Append(LogOf(r), record)
         /\ r.count = RingCapacity =>
              new.count = r.count /\ LogOf(new) = Tail(Append(LogOf(r), record))
<1>1. RingOK(r) /\ \A i \in 1..r.count : At(r, i) \in RecordSet
  BY DEF RingTyped
<1>2. record # Blank
  BY BlankIsNoRecord
<1> QED
  BY <1>1, <1>2, LogRecords

\* A ring that has not wrapped when a record has been appended had not wrapped
\* before, and the record is now its last.
LEMMA LogGrows ==
  ASSUME TInv, NEW record \in RecordSet, ring' = RecordRecentDecision(ring, record),
         records' \in Nat, records <= records', ring.head < records', Unwrapped'
  PROVE  /\ Unwrapped /\ ring.count < MaxU64 /\ ring.head = ring.count
         /\ ring'.count = ring.count + 1
         /\ DOMAIN Log' = 1..(ring.count + 1)
         /\ \A i \in 1..ring.count : Log'[i] = Log[i]
         /\ Log'[ring.count + 1] = record
<1>1. /\ RingOK(ring) /\ \A i \in 1..ring.count : At(ring, i) \in RecordSet
      /\ record # Blank
  BY BlankIsNoRecord DEF TInv, RingTyped
<1>2. RingCapacity # 0 /\ ring'.head = ring'.count /\ records' <= MaxU64
  BY DEF Unwrapped
<1>3. /\ ring.head \in Nat /\ ring.head <= MaxU64 /\ ring.count \in Nat
      /\ ring.count <= RingCapacity /\ ring.count <= ring.head
      /\ RingCapacity \in Nat /\ MaxU64 \in Nat /\ records \in Nat
  BY <1>1, RingNumbers, Bounds, HeadType
<1>4. ring.head # MaxU64
  BY <1>2, <1>3
<1>5. /\ ring'.head = ring.head + 1
      /\ ring.count < RingCapacity => ring'.count = ring.count + 1
                                      /\ LogOf(ring') = Append(LogOf(ring), record)
      /\ ring.count = RingCapacity => ring'.count = ring.count
  <2> DEFINE new == RecordRecentDecision(ring, record)
  <2>1. /\ new.head = ring.head + 1
        /\ ring.count < RingCapacity => new.count = ring.count + 1
                                        /\ LogOf(new) = Append(LogOf(ring), record)
        /\ ring.count = RingCapacity => new.count = ring.count
    <3>1. RingTyped(ring)
      BY DEF TInv
    <3> QED
      BY <1>2, <1>4, <3>1, RingGrows
  <2>2. ring' = new
    OBVIOUS
  <2> HIDE DEF new
  <2> QED
    BY <2>1, <2>2
<1>6. ring.count < RingCapacity
  BY <1>2, <1>3, <1>5
<1>7. ring'.count = ring.count + 1 /\ Log' = Append(Log, record)
  BY <1>5, <1>6 DEF Log, LogOf
<1>8. ring.head = ring.count
  BY <1>2, <1>3, <1>5, <1>7
<1>9. Unwrapped
  BY <1>2, <1>3, <1>8 DEF Unwrapped
<1> DEFINE n == ring.count
           log == Log
<1>10. n \in Nat /\ log \in [1..n -> RecordSet]
  BY LogType
<1> HIDE DEF n, log
<1>11. /\ Append(log, record) \in [1..(n + 1) -> RecordSet]
       /\ \A i \in 1..n : Append(log, record)[i] = log[i]
       /\ Append(log, record)[n + 1] = record
  <2>1. Append(log, record) \in [1..(n + 1) -> RecordSet]
    BY <1>10, AppendIs
  <2>2. \A i \in 1..n : Append(log, record)[i] = log[i]
    BY <1>10, AppendIs
  <2>3. Append(log, record)[n + 1] = record
    BY <1>10, AppendIs
  <2> QED
    BY <2>1, <2>2, <2>3
<1>12. /\ DOMAIN Append(log, record) = 1..(n + 1)
       /\ \A i \in 1..n : Append(log, record)[i] = log[i]
       /\ Append(log, record)[n + 1] = record
  BY <1>11
<1>13. Log' = Append(log, record) /\ n = ring.count /\ log = Log
  BY <1>7 DEF n, log
<1>14. ring.count < MaxU64
  BY <1>3, <1>4, <1>8
<1> QED
  BY <1>7, <1>8, <1>9, <1>12, <1>13, <1>14

LEMMA EmptyLog ==
  ASSUME ring' = EmptyRing
  PROVE  DOMAIN Log' = {}
<1>1. RingOK(ring') /\ ring'.count = 0
  BY EmptyRingOK
<1>2. \A i \in 1..ring'.count : At(ring', i) \in {}
  BY <1>1
<1>3. DOMAIN LogOf(ring') = 1..ring'.count
  BY <1>1, <1>2, LogOfRing
<1>4. Log' = LogOf(ring')
  BY DEF Log, LogOf
<1> QED
  BY <1>1, <1>3, <1>4

-----------------------------------------------------------------------------
(* Names.                                                                  *)

Seen(ns) == SumFunction([slot \in NameSlots |-> ns[slot].seen])
Named == {i \in DOMAIN Log : Log[i].actual = <<>> /\ Log[i].kind # "fail open"}

LEMMA NamesAccountedIs ==
  NamesAccounted <=> (Unwrapped => Seen(names) + counters["dropped"] = Cardinality(Named))
  BY DEF NamesAccounted, Seen, Named

LEMMA NamedIsFinite ==
  ASSUME TInv
  PROVE  /\ IsFiniteSet(Named) /\ Cardinality(Named) \in Nat
         /\ Cardinality(Named) <= ring.count
<1>1. ring.count \in Nat /\ Named \subseteq 1..ring.count
  BY LogType DEF Named
<1>2. IsFiniteSet(1..ring.count) /\ Cardinality(1..ring.count) = ring.count
  <2> DEFINE n == ring.count
  <2>1. n \in Nat
    BY <1>1
  <2> HIDE DEF n
  <2>2. IsFiniteSet(1..n) /\ Cardinality(1..n) = IF 1 <= n THEN n - 1 + 1 ELSE 0
    BY <2>1, FS_Interval
  <2>3. Cardinality(1..n) = n
    BY <2>1, <2>2
  <2> QED
    BY <2>2, <2>3 DEF n
<1>3. IsFiniteSet(Named) /\ Cardinality(Named) <= Cardinality(1..ring.count)
  BY <1>1, <1>2, FS_Subset
<1> QED
  BY <1>2, <1>3, FS_CardinalityType

LEMMA SeenIsNatural ==
  ASSUME NEW ns, NamesTyped(ns)
  PROVE  /\ Seen(ns) \in Nat
         /\ \A slot \in NameSlots : ns[slot].seen \in Nat /\ ns[slot].seen <= Seen(ns)
<1> DEFINE f == [slot \in NameSlots |-> ns[slot].seen]
<1>1. IsFiniteSet(NameSlots)
  BY Bounds, FS_Interval DEF NameSlots
<1>2. DOMAIN f = NameSlots /\ Seen(ns) = SumFunctionOnSet(f, NameSlots)
  BY DEF Seen, SumFunction
<1>3. \A slot \in NameSlots : f[slot] = ns[slot].seen /\ ns[slot].seen \in Nat
  BY Bounds DEF NamesTyped
<1> HIDE DEF f
<1>4. \A slot \in NameSlots : f[slot] \in Nat
  BY <1>3
<1>5. SumFunctionOnSet(f, NameSlots) \in Nat
  BY <1>1, <1>4, SumIsNatural
<1>6. \A slot \in NameSlots : f[slot] <= SumFunctionOnSet(f, NameSlots)
  BY <1>1, <1>4, SumBoundsTerms
<1> QED
  BY <1>2, <1>3, <1>5, <1>6

\* A name that is not dropped is counted.
LEMMA SeenGrows ==
  ASSUME NEW ns, NamesTyped(ns), NEW scope \in ScopeKeys, Seen(ns) < MaxU64
  PROVE  Seen(RecordScopeName(ns, scope)) = Seen(ns) + (IF Dropped(ns, scope) THEN 0 ELSE 1)
<1>1. CASE Dropped(ns, scope)
  <2>1. Seen(ns) \in Nat
    BY SeenIsNatural
  <2>2. RecordScopeName(ns, scope) = ns
    BY <1>1 DEF RecordScopeName
  <2> QED
    BY <1>1, <2>1, <2>2
<1>2. CASE ~Dropped(ns, scope)
  <2> DEFINE new == RecordScopeName(ns, scope)
             f == [slot \in NameSlots |-> ns[slot].seen]
             g == [slot \in NameSlots |-> new[slot].seen]
  <2>1. PICK slot \in NameSlots :
          new = [ns EXCEPT ![slot] = [scope |-> scope,
                                      seen |-> Saturated(ns[slot].seen + 1)]]
    BY <1>2, RecordedName
  <2> HIDE DEF new
  <2>2. /\ new[slot] = [scope |-> scope, seen |-> Saturated(ns[slot].seen + 1)]
        /\ \A other \in NameSlots : other # slot => new[other] = ns[other]
    BY <2>1 DEF NamesTyped
  <2>3. new[slot].seen = Saturated(ns[slot].seen + 1)
    BY <2>2
  <2>4. Seen(ns) \in Nat /\ \A x \in NameSlots : ns[x].seen \in Nat /\ ns[x].seen <= Seen(ns)
    BY SeenIsNatural
  <2>5. new[slot].seen = ns[slot].seen + 1
    <3>1. ns[slot].seen + 1 \in Nat /\ ns[slot].seen + 1 <= MaxU64
      BY <2>4, Bounds
    <3> QED
      BY <2>3, <3>1, SaturatedType
  <2>6. /\ Seen(ns) = SumFunctionOnSet(f, NameSlots)
        /\ Seen(new) = SumFunctionOnSet(g, NameSlots)
    BY DEF Seen, SumFunction
  <2>7. /\ \A x \in NameSlots : f[x] \in Int
        /\ f[slot] = ns[slot].seen /\ g[slot] = ns[slot].seen + 1 /\ g[slot] \in Int
        /\ \A x \in NameSlots \ {slot} : g[x] = f[x]
    BY <2>2, <2>4, <2>5
  <2>8. IsFiniteSet(NameSlots)
    BY Bounds, FS_Interval DEF NameSlots
  <2> HIDE DEF f, g
  <2>9. SumFunctionOnSet(g, NameSlots) = SumFunctionOnSet(f, NameSlots) - f[slot] + g[slot]
    BY <2>7, <2>8, SumAfter
  <2>10. Seen(new) = Seen(ns) + 1
    BY <2>4, <2>6, <2>7, <2>9
  <2> QED
    BY <1>2, <2>10 DEF new
<1> QED
  BY <1>1, <1>2

\* An appended record of a decision is one more that is named.
LEMMA NamedGrows ==
  ASSUME TInv, NEW record \in RecordSet, ring' = RecordRecentDecision(ring, record),
         records' \in Nat, records <= records', ring.head < records', Unwrapped'
  PROVE  IF record.actual = <<>> /\ record.kind # "fail open"
         THEN Cardinality(Named') = Cardinality(Named) + 1
         ELSE Cardinality(Named') = Cardinality(Named)
<1> DEFINE n == ring.count
           log == Log
           named(i) == log[i].actual = <<>> /\ log[i].kind # "fail open"
           named2(i) == Log'[i].actual = <<>> /\ Log'[i].kind # "fail open"
           counts == record.actual = <<>> /\ record.kind # "fail open"
<1>1. n \in Nat
  BY LogType
<1>2. Named = {i \in 1..n : named(i)}
  BY LogType DEF Named
<1>3. Named' = {i \in 1..(n + 1) : named2(i)}
  BY LogGrows DEF Named
<1>4. \A i \in 1..n : named2(i) <=> named(i)
  BY LogGrows
<1>5. named2(n + 1) <=> counts
  BY LogGrows
<1>6. IsFiniteSet(Named) /\ Cardinality(Named) \in Nat
  BY NamedIsFinite
<1> DEFINE before == Named
           after == Named'
<1> HIDE DEF n, named, named2, before, after, counts
<1>7. n + 1 \notin before
  BY <1>1, <1>2 DEF before
<1>8. after = IF counts THEN before \cup {n + 1} ELSE before
  BY <1>1, <1>2, <1>3, <1>4, <1>5 DEF before, after
<1>9. CASE counts
  <2>1. Cardinality(after) = Cardinality(before) + 1
    BY <1>6, <1>7, <1>8, <1>9, FS_AddElement DEF before
  <2> QED
    BY <1>9, <2>1 DEF before, after, counts
<1>10. CASE ~counts
  <2>1. Cardinality(after) = Cardinality(before)
    BY <1>8, <1>10
  <2> QED
    BY <1>10, <2>1 DEF before, after, counts
<1> QED
  BY <1>9, <1>10

\* A step that appends nothing and drops no name.
LEMMA NamesKept ==
  ASSUME TInv, NamesAccounted, UNCHANGED <<ring, names>>,
         counters'["dropped"] = counters["dropped"], records' \in Nat, records <= records'
  PROVE  NamesAccounted'
<1>1. Unwrapped' => Unwrapped
  BY HeadType, Bounds DEF Unwrapped
<1>2. Named' = Named
  BY DEF Named, Log
<1>3. Seen(names') = Seen(names)
  OBVIOUS
<1>4. NamesAccounted' <=>
        (Unwrapped' => Seen(names') + counters'["dropped"] = Cardinality(Named'))
  BY DEF NamesAccounted, Seen, Named
<1> QED
  BY <1>1, <1>2, <1>3, <1>4, NamesAccountedIs

LEMMA ZeroDelta ==
  ASSUME TInv, NEW delta \in Deltas, NEW name \in CounterNames, delta[name] = 0
  PROVE  AddCounters(delta)[name] = counters[name]
<1>1. counters \in [CounterNames -> 0..MaxU64] /\ counters[name] \in Nat
      /\ counters[name] <= MaxU64
  BY Bounds DEF TInv
<1>2. AddCounters(delta)[name] = Saturated(counters[name] + 0)
  BY <1>1, AddCountersType
<1>3. Saturated(counters[name]) = counters[name] /\ counters[name] + 0 = counters[name]
  BY <1>1, SaturatedType
<1> QED
  BY <1>2, <1>3

Tallied == {"accepted", "rejected", "actual", "dropped"}

LEMMA TalliedNames == Tallied \subseteq CounterNames
  BY DEF Tallied, CounterNames

LEMMA TalliesType ==
  ASSUME TInv
  PROVE  \A name \in Tallied : counters[name] \in Nat /\ counters[name] <= MaxU64
<1>1. \A name \in CounterNames : counters[name] \in 0..MaxU64
  BY DEF TInv
<1> QED
  BY <1>1, TalliedNames, Bounds

LEMMA OneIsNotNone ==
  ASSUME NEW x
  PROVE  <<x>> # <<>>
<1>1. Len(<<x>>) = 1 /\ Len(<<>>) = 0
  OBVIOUS
<1> QED
  BY <1>1

LEMMA AsideCounts ==
  ASSUME TInv, NEW b \in Backends, Aside(b)
  PROVE  \A name \in Tallied : counters'[name] = counters[name]
<1>1. CASE counters' = counters
  BY <1>1
<1>2. CASE counters' # counters
  <2>1. PICK other \in CounterNames \ Tallied : counters' = AddCounters(One(other))
    BY <1>2 DEF Aside, Tallied
  <2>2. One(other) \in Deltas /\ \A name \in Tallied : One(other)[name] = 0
    BY <2>1, OneDelta, TalliedNames
  <2> QED
    BY <2>1, <2>2, ZeroDelta, TalliedNames
<1> QED
  BY <1>1, <1>2

\* A backend that has counted a record has not appended it.
LEMMA BeforeAppend ==
  ASSUME TInv, NEW b \in Backends, Counted(b), records' = records
  PROVE  records' \in Nat /\ records <= records' /\ ring.head < records'
<1>1. IsFiniteSet(Flying) /\ Cardinality(Flying) \in Nat /\ b \in Flying
  BY FlyingIsFinite DEF Flying
<1>2. Cardinality(Flying) # 0
  BY <1>1, FS_EmptySet
<1>3. ring.head + Cardinality(Flying) <= records
  BY DEF TInv, FlightOK
<1>4. ring.head \in Nat /\ records \in Nat
  BY HeadType
<1> QED
  BY <1>1, <1>2, <1>3, <1>4

LEMMA SeenOfNone == Seen(NoNames) = 0
<1> DEFINE f == [slot \in NameSlots |-> NoNames[slot].seen]
<1>1. \A slot \in NameSlots : f[slot] = 0
  BY DEF NoNames, NoName
<1>2. Seen(NoNames) = SumFunctionOnSet(f, NameSlots)
  BY DEF Seen, SumFunction
<1>3. IsFiniteSet(NameSlots)
  BY Bounds, FS_Interval DEF NameSlots
<1> HIDE DEF f
<1> QED
  BY <1>1, <1>2, <1>3, SumOfZeros

LEMMA DecideNames ==
  ASSUME TInv, NamesAccounted, NEW b \in Backends, NEW s \in Admissions, Decide(b, s)
  PROVE  NamesAccounted'
<1>1. s \in StatementSet /\ s.kind \in Kinds /\ s.scope \in ScopeKeys
  BY AdmissionType
<1>2. /\ records' = records + 1
      /\ ring' = RecordRecentDecision(ring, Record(s, <<>>))
      /\ names' = RecordScopeName(names, s.scope)
      /\ counters' = CountersAfterDecision(s)
  BY DEF Decide
<1> SUFFICES ASSUME Unwrapped'
             PROVE  Seen(names') + counters'["dropped"] = Cardinality(Named')
  BY DEF NamesAccounted, Seen, Named
<1>3. Record(s, <<>>) \in RecordSet /\ Record(s, <<>>).kind = s.kind
      /\ Record(s, <<>>).actual = <<>>
  BY <1>1, RecordType
<1>4. records' \in Nat /\ records <= records' /\ ring.head < records'
  <2>1. records \in Nat /\ ring.head \in Nat /\ ring.head <= records
    BY HeadType
  <2>2. records' = records + 1
    BY <1>2
  <2> QED
    BY <2>1, <2>2
<1>5. Unwrapped /\ ring.count < MaxU64 /\ ring.head = ring.count
  BY <1>2, <1>3, <1>4, LogGrows
<1>6. Cardinality(Named') = Cardinality(Named) + 1
  <2>1. s.kind # "fail open"
    BY <1>1, FailOpenIsNoKind
  <2>2. IF Record(s, <<>>).actual = <<>> /\ Record(s, <<>>).kind # "fail open"
        THEN Cardinality(Named') = Cardinality(Named) + 1
        ELSE Cardinality(Named') = Cardinality(Named)
    BY <1>2, <1>3, <1>4, NamedGrows
  <2> QED
    BY <1>3, <2>1, <2>2
<1>7. Seen(names) + counters["dropped"] = Cardinality(Named)
  BY <1>5, NamesAccountedIs
<1>8. /\ Cardinality(Named) \in Nat /\ Cardinality(Named) <= ring.count
      /\ Seen(names) \in Nat /\ counters["dropped"] \in Nat
      /\ ring.count \in Nat /\ MaxU64 \in Nat
  <2>1. Cardinality(Named) \in Nat /\ Cardinality(Named) <= ring.count /\ Seen(names) \in Nat
    BY NamedIsFinite, SeenIsNatural DEF TInv
  <2>2. counters["dropped"] \in Nat
    BY TalliesType DEF Tallied
  <2> QED
    BY <2>1, <2>2, LogType, Bounds
<1>9. Seen(names) < MaxU64 /\ counters["dropped"] + 1 <= MaxU64
  BY <1>5, <1>7, <1>8
<1>10. Seen(names') = Seen(names) + (IF Dropped(names, s.scope) THEN 0 ELSE 1)
  <2>1. Seen(RecordScopeName(names, s.scope)) =
          Seen(names) + (IF Dropped(names, s.scope) THEN 0 ELSE 1)
    BY <1>1, <1>9, SeenGrows DEF TInv
  <2> QED
    BY <1>2, <2>1
<1>11. counters'["dropped"] =
         counters["dropped"] + (IF Dropped(names, s.scope) THEN 1 ELSE 0)
  <2>1. CountersAfterDecision(s)["dropped"] =
          Saturated(counters["dropped"] + (IF Dropped(names, s.scope) THEN 1 ELSE 0))
    BY <1>1, DecisionCounts DEF TInv
  <2>2. \A n \in {0, 1} : Saturated(counters["dropped"] + n) = counters["dropped"] + n
    <3>1. \A n \in {0, 1} : counters["dropped"] + n \in Nat
                             /\ counters["dropped"] + n <= MaxU64
      BY <1>8, <1>9
    <3> QED
      BY <3>1, SaturatedType
  <2> QED
    BY <1>2, <2>1, <2>2
<1> QED
  <2>1. CASE Dropped(names, s.scope)
    <3>1. Seen(names') = Seen(names) + 0 /\ counters'["dropped"] = counters["dropped"] + 1
      BY <1>10, <1>11, <2>1
    <3> QED
      BY <1>6, <1>7, <1>8, <3>1
  <2>2. CASE ~Dropped(names, s.scope)
    <3>1. Seen(names') = Seen(names) + 1 /\ counters'["dropped"] = counters["dropped"] + 0
      BY <1>10, <1>11, <2>2
    <3> QED
      BY <1>6, <1>7, <1>8, <3>1
  <2> QED
    BY <2>1, <2>2

LEMMA AppendNames ==
  ASSUME TInv, NamesAccounted, NEW b \in Backends, Counted(b), NEW record \in RecordSet,
         record.actual # <<>> \/ record.kind = "fail open",
         AppendRecord(b, record), UNCHANGED <<counters, names, records>>
  PROVE  NamesAccounted'
<1>1. ring' = RecordRecentDecision(ring, record)
  BY DEF AppendRecord
<1> SUFFICES ASSUME Unwrapped'
             PROVE  Seen(names') + counters'["dropped"] = Cardinality(Named')
  BY DEF NamesAccounted, Seen, Named
<1>2. records' \in Nat /\ records <= records' /\ ring.head < records'
  BY BeforeAppend
<1>3. Unwrapped
  BY <1>1, <1>2, LogGrows
<1>4. Cardinality(Named') = Cardinality(Named)
  BY <1>1, <1>2, NamedGrows
<1>5. Seen(names) + counters["dropped"] = Cardinality(Named)
  BY <1>3, NamesAccountedIs
<1>6. Seen(names') = Seen(names) /\ counters'["dropped"] = counters["dropped"]
  OBVIOUS
<1> QED
  BY <1>4, <1>5, <1>6

LEMMA NextNames ==
  ASSUME TInv, NamesAccounted, [Next]_vars
  PROVE  NamesAccounted'
<1>1. ASSUME NEW b \in Backends, Aside(b) PROVE NamesAccounted'
  <2>1. UNCHANGED <<ring, names, records>>
    BY <1>1 DEF Aside
  <2>2. counters'["dropped"] = counters["dropped"]
    BY <1>1, AsideCounts DEF Tallied
  <2>3. records' \in Nat /\ records <= records'
    BY <2>1, HeadType
  <2> QED
    BY <2>1, <2>2, <2>3, NamesKept
<1>2. ASSUME NEW b \in Backends, NEW s \in Failures, CountFailOpen(b, s)
      PROVE  NamesAccounted'
  <2>1. /\ UNCHANGED <<ring, names>> /\ records' = records + 1
        /\ counters' = AddCounters(DeltaForDecision(s))
    BY <1>2 DEF CountFailOpen
  <2>2. DeltaForDecision(s) \in Deltas /\ DeltaForDecision(s)["dropped"] = 0
    BY FailureType, DecisionDelta
  <2>3. counters'["dropped"] = counters["dropped"]
    BY <2>1, <2>2, ZeroDelta, TalliedNames DEF Tallied
  <2>4. records' \in Nat /\ records <= records'
    <3>1. records \in Nat
      BY HeadType
    <3>2. records' = records + 1
      BY <2>1
    <3> QED
      BY <3>1, <3>2
  <2> QED
    BY <2>1, <2>3, <2>4, NamesKept
<1>3. ASSUME NEW b \in Backends, NEW actual \in Sizes, CountResult(b, actual)
      PROVE  NamesAccounted'
  <2> DEFINE s == [statement[b] EXCEPT !.actual = actual]
  <2>1. /\ UNCHANGED <<ring, names>> /\ records' = records + 1 /\ pc[b] = "running"
        /\ counters' = AddCounters(DeltaForResult(s))
    BY <1>3 DEF CountResult
  <2>2. s \in StatementSet
    BY <2>1, StatementOf DEF StatementSet
  <2> HIDE DEF s
  <2>3. DeltaForResult(s) \in Deltas /\ DeltaForResult(s)["dropped"] = 0
    BY <2>2, ResultDelta
  <2>4. counters'["dropped"] = counters["dropped"]
    BY <2>1, <2>3, ZeroDelta, TalliedNames DEF Tallied
  <2>5. records' \in Nat /\ records <= records'
    <3>1. records \in Nat
      BY HeadType
    <3>2. records' = records + 1
      BY <2>1
    <3> QED
      BY <3>1, <3>2
  <2> QED
    BY <2>1, <2>4, <2>5, NamesKept
<1>4. ASSUME NEW b \in Backends, AppendFailOpen(b) PROVE NamesAccounted'
  <2>1. /\ pc[b] = "append failure" /\ AppendRecord(b, Record(statement[b], <<>>))
        /\ UNCHANGED <<counters, names, records>>
    BY <1>4 DEF AppendFailOpen
  <2>2. Record(statement[b], <<>>) \in RecordSet /\ Record(statement[b], <<>>).kind = "fail open"
    BY <2>1, StatementOf, RecordType
  <2>3. Counted(b)
    BY <2>1 DEF Counted
  <2> QED
    BY <2>1, <2>2, <2>3, AppendNames
<1>5. ASSUME NEW b \in Backends, AppendResult(b) PROVE NamesAccounted'
  <2> DEFINE record == Record(statement[b], <<statement[b].actual>>)
  <2>1. /\ pc[b] = "append result" /\ AppendRecord(b, record)
        /\ UNCHANGED <<counters, names, records>>
    BY <1>5 DEF AppendResult
  <2>2. record \in RecordSet /\ record.actual = <<statement[b].actual>>
    BY <2>1, StatementOf, RecordType
  <2>3. record.actual # <<>>
    BY <2>2, OneIsNotNone
  <2>4. Counted(b)
    BY <2>1 DEF Counted
  <2> HIDE DEF record
  <2> QED
    BY <2>1, <2>2, <2>3, <2>4, AppendNames
<1>6. CASE ResetStats
  <2>1. counters' = NoDelta /\ ring' = EmptyRing /\ names' = NoNames
    BY <1>6 DEF ResetStats, RingAfterReset, NamesAfterReset
  <2>2. Cardinality(Named') = 0
    <3>1. Named' = {}
      BY <2>1, EmptyLog DEF Named
    <3> QED
      BY <3>1, FS_EmptySet
  <2>3. counters'["dropped"] = 0
    BY <2>1, NoDeltaType, TalliedNames DEF Tallied
  <2>4. Seen(names') = 0
    BY <2>1, SeenOfNone
  <2>5. Seen(names') + counters'["dropped"] = Cardinality(Named')
    BY <2>2, <2>3, <2>4
  <2> QED
    BY <2>5 DEF NamesAccounted, Seen, Named
<1>7. CASE UNCHANGED vars
  <2>1. UNCHANGED <<counters, ring, names, records>>
    BY <1>7 DEF vars, shared
  <2>2. records' \in Nat /\ records <= records'
    BY <2>1, HeadType
  <2> QED
    BY <2>1, <2>2, NamesKept
<1> QED
  BY <1>1, <1>2, <1>3, <1>4, <1>5, <1>6, <1>7, AsideSteps, DecideNames DEF Next

LEMMA InitNames ==
  ASSUME Init PROVE NamesAccounted
<1>1. counters = NoDelta /\ ring = EmptyRing /\ names = NoNames
  BY DEF Init
<1>2. counters["dropped"] = 0
  BY <1>1, NoDeltaType, TalliedNames DEF Tallied
<1>3. Seen(names) = 0
  BY <1>1, SeenOfNone
<1>4. Cardinality(Named) = 0
  <2>1. TInv
    BY InitTypes
  <2>2. Cardinality(Named) \in Nat /\ Cardinality(Named) <= ring.count
    BY <2>1, NamedIsFinite
  <2>3. ring.count = 0
    BY <1>1, EmptyRingOK
  <2> QED
    BY <2>2, <2>3
<1> QED
  BY <1>2, <1>3, <1>4, NamesAccountedIs

\* Every statement that a decision was recorded for is counted in the registry
\* or among the dropped names, as long as the ring still has all records since
\* the last reset: names, count and record are written, and reset, under one
\* hold of the lock (record_admission_telemetry, scope_names.rs:17).
THEOREM NamesAreAccounted == Spec => []NamesAccounted
<1>1. Init => NamesAccounted
  BY InitNames
<1>2. TInv /\ NamesAccounted /\ [Next]_vars => NamesAccounted'
  BY NextNames
<1> QED
  BY <1>1, <1>2, Typed, PTL DEF Spec

-----------------------------------------------------------------------------
(* The counters and the records.                                           *)

\* The records that are marked as counted before a reset are in the ring.
MarksOK == Unwrapped => \A i \in uncounted : i \in Nat /\ i < ring.head

Accepted == Cardinality(AcceptedRecords)
Rejected == Cardinality(RejectedRecords)
Ended == SumFunction([i \in EndedRecords |-> Log[i].actual[1]])
Failing == Cardinality(InFlight("append failure"))
Ending == SumFunction([b \in InFlight("append result") |-> statement[b].actual])

LEMMA CountersMatchIs ==
  CountersMatchRecords <=>
    (Unwrapped => /\ counters["accepted"] = Saturated(Accepted + Failing)
                  /\ counters["rejected"] = Saturated(Rejected)
                  /\ counters["actual"] = Saturated(Ended + Ending))
  BY DEF CountersMatchRecords, Accepted, Rejected, Ended, Failing, Ending

LEMMA CountersMatchAfter ==
  CountersMatchRecords' <=>
    (Unwrapped' => /\ counters'["accepted"] = Saturated(Accepted' + Failing')
                   /\ counters'["rejected"] = Saturated(Rejected')
                   /\ counters'["actual"] = Saturated(Ended' + Ending'))
  BY DEF CountersMatchRecords, Accepted, Rejected, Ended, Failing, Ending

LEMMA PartOfInterval ==
  ASSUME NEW n \in Nat, NEW A, A \subseteq 1..n
  PROVE  IsFiniteSet(A) /\ Cardinality(A) \in Nat /\ n + 1 \notin A
<1>1. IsFiniteSet(1..n)
  BY FS_Interval
<1>2. IsFiniteSet(A)
  BY <1>1, FS_Subset
<1> QED
  BY <1>2, FS_CardinalityType

LEMMA OneMore ==
  ASSUME NEW n \in Nat, NEW A, A \subseteq 1..n
  PROVE  Cardinality(A \cup {n + 1}) = Cardinality(A) + 1
<1>1. IsFiniteSet(A) /\ n + 1 \notin A
  BY PartOfInterval
<1> QED
  BY <1>1, FS_AddElement

LEMMA ActualOfRecord ==
  ASSUME NEW record \in RecordSet, record.actual # <<>>
  PROVE  record.actual[1] \in Nat
<1>1. Sizes \subseteq Nat
  BY Zenon, TelemetryAssumption
<1>2. PICK n \in Sizes : record.actual = <<n>>
  BY DEF RecordSet
<1> QED
  BY <1>1, <1>2

LEMMA RecordsType ==
  ASSUME TInv
  PROVE  /\ AcceptedRecords \subseteq 1..ring.count /\ RejectedRecords \subseteq 1..ring.count
         /\ EndedRecords \subseteq 1..ring.count
         /\ \A i \in EndedRecords : Log[i].actual[1] \in Nat
         /\ Accepted \in Nat /\ Rejected \in Nat /\ Ended \in Nat
<1>1. ring.count \in Nat /\ CountedRecords \subseteq 1..ring.count
  BY LogType DEF CountedRecords
<1>2. /\ AcceptedRecords \subseteq CountedRecords /\ RejectedRecords \subseteq CountedRecords
      /\ EndedRecords \subseteq CountedRecords
  BY DEF AcceptedRecords, RejectedRecords, EndedRecords
<1>3. \A i \in 1..ring.count : Log[i] \in RecordSet
  BY LogType
<1>4. \A i \in EndedRecords : Log[i].actual # <<>>
  BY DEF EndedRecords
<1>5. \A i \in EndedRecords : Log[i].actual[1] \in Nat
  BY <1>1, <1>2, <1>3, <1>4, ActualOfRecord
<1>6. Accepted \in Nat /\ Rejected \in Nat /\ IsFiniteSet(EndedRecords)
  BY <1>1, <1>2, PartOfInterval DEF Accepted, Rejected
<1>7. Ended \in Nat
  <2> DEFINE f == [i \in EndedRecords |-> Log[i].actual[1]]
  <2>1. Ended = SumFunctionOnSet(f, EndedRecords)
    BY DEF Ended, SumFunction
  <2>2. \A i \in EndedRecords : f[i] \in Nat
    BY <1>5
  <2> HIDE DEF f
  <2> QED
    BY <1>6, <2>1, <2>2, SumIsNatural
<1> QED
  BY <1>1, <1>2, <1>5, <1>6, <1>7

\* What a record adds, if it was counted since the last reset.
LEMMA TalliesGrow ==
  ASSUME TInv, MarksOK, NEW record \in RecordSet,
         ring' = RecordRecentDecision(ring, record),
         records' \in Nat, records <= records', ring.head < records', Unwrapped',
         NEW fresh \in BOOLEAN,
         uncounted' = IF fresh THEN uncounted ELSE uncounted \cup {ring.head}
  PROVE  /\ IF fresh /\ record.actual = <<>> /\ record.kind # "rejected"
            THEN Accepted' = Accepted + 1 ELSE Accepted' = Accepted
         /\ IF fresh /\ record.kind = "rejected"
            THEN Rejected' = Rejected + 1 ELSE Rejected' = Rejected
         /\ IF fresh /\ record.actual # <<>>
            THEN Ended' = Ended + record.actual[1] ELSE Ended' = Ended
<1> DEFINE n == ring.count
           log == Log
           after == Log'
           counted(i) == i - 1 \notin uncounted
           counted2(i) == i - 1 \notin uncounted'
<1>1. n \in Nat /\ ring.head = n
  BY LogType, LogGrows
<1>2. /\ DOMAIN after = 1..(n + 1) /\ DOMAIN log = 1..n
      /\ \A i \in 1..n : after[i] = log[i]
      /\ after[n + 1] = record
  BY LogGrows, LogType
<1>3. \A i \in uncounted : i \in Nat /\ i < n
  BY LogGrows DEF MarksOK
<1>4. /\ \A i \in 1..n : counted2(i) <=> counted(i)
      /\ counted2(n + 1) <=> fresh
  <2>1. n \notin uncounted /\ n + 1 - 1 = n
    BY <1>1, <1>3
  <2>2. \A i \in 1..n : i - 1 # n
    BY <1>1
  <2>3. uncounted' = IF fresh THEN uncounted ELSE uncounted \cup {n}
    BY <1>1
  <2> HIDE DEF n
  <2> QED
    <3>1. \A i \in 1..n : counted2(i) <=> counted(i)
      BY <2>2, <2>3 DEF counted, counted2
    <3>2. n \in uncounted' <=> ~fresh
      BY <2>1, <2>3
    <3>3. counted2(n + 1) <=> n \notin uncounted'
      BY <1>1, <2>1 DEF counted2
    <3> QED
      BY <3>1, <3>2, <3>3
<1>5. /\ AcceptedRecords = {i \in 1..n : counted(i) /\ log[i].actual = <<>>
                                         /\ log[i].kind # "rejected"}
      /\ RejectedRecords = {i \in 1..n : counted(i) /\ log[i].kind = "rejected"}
      /\ EndedRecords = {i \in 1..n : counted(i) /\ log[i].actual # <<>>}
  BY <1>2 DEF AcceptedRecords, RejectedRecords, EndedRecords, CountedRecords
<1>6. /\ AcceptedRecords' = {i \in 1..(n + 1) : counted2(i) /\ after[i].actual = <<>>
                                                /\ after[i].kind # "rejected"}
      /\ RejectedRecords' = {i \in 1..(n + 1) : counted2(i) /\ after[i].kind = "rejected"}
      /\ EndedRecords' = {i \in 1..(n + 1) : counted2(i) /\ after[i].actual # <<>>}
  BY <1>2 DEF AcceptedRecords, RejectedRecords, EndedRecords, CountedRecords
<1> DEFINE A == AcceptedRecords
           B == AcceptedRecords'
           C == RejectedRecords
           D == RejectedRecords'
           S == EndedRecords
           T == EndedRecords'
           accepts == fresh /\ record.actual = <<>> /\ record.kind # "rejected"
           rejects == fresh /\ record.kind = "rejected"
           ends == fresh /\ record.actual # <<>>
<1>7. /\ A = {i \in 1..n : counted(i) /\ log[i].actual = <<>> /\ log[i].kind # "rejected"}
      /\ C = {i \in 1..n : counted(i) /\ log[i].kind = "rejected"}
      /\ S = {i \in 1..n : counted(i) /\ log[i].actual # <<>>}
      /\ B = {i \in 1..(n + 1) : counted2(i) /\ after[i].actual = <<>>
                                 /\ after[i].kind # "rejected"}
      /\ D = {i \in 1..(n + 1) : counted2(i) /\ after[i].kind = "rejected"}
      /\ T = {i \in 1..(n + 1) : counted2(i) /\ after[i].actual # <<>>}
  BY <1>5, <1>6
<1> HIDE DEF n, log, after, counted, counted2, A, B, C, D, S, T
<1>8. \A i \in 1..(n + 1) : i \in 1..n \/ i = n + 1
  BY <1>1
<1>9. 1..n \subseteq 1..(n + 1) /\ n + 1 \in 1..(n + 1) /\ n + 1 \notin 1..n
  BY <1>1
<1>10. B = IF accepts THEN A \cup {n + 1} ELSE A
  BY <1>2, <1>4, <1>7, <1>8, <1>9
<1>11. D = IF rejects THEN C \cup {n + 1} ELSE C
  BY <1>2, <1>4, <1>7, <1>8, <1>9
<1>12. T = IF ends THEN S \cup {n + 1} ELSE S
  BY <1>2, <1>4, <1>7, <1>8, <1>9
<1> HIDE DEF accepts, rejects, ends
<1>13. IF accepts THEN Accepted' = Accepted + 1 ELSE Accepted' = Accepted
  <2>1. A \subseteq 1..n
    BY <1>7
  <2>2. Cardinality(A \cup {n + 1}) = Cardinality(A) + 1
    BY <1>1, <2>1, OneMore
  <2>3. Accepted' = Cardinality(B) /\ Accepted = Cardinality(A)
    BY DEF B, A, Accepted
  <2> QED
    BY <1>10, <2>2, <2>3
<1>14. IF rejects THEN Rejected' = Rejected + 1 ELSE Rejected' = Rejected
  <2>1. C \subseteq 1..n
    BY <1>7
  <2>2. Cardinality(C \cup {n + 1}) = Cardinality(C) + 1
    BY <1>1, <2>1, OneMore
  <2>3. Rejected' = Cardinality(D) /\ Rejected = Cardinality(C)
    BY DEF D, C, Rejected
  <2> QED
    BY <1>11, <2>2, <2>3
<1>15. IF ends THEN Ended' = Ended + record.actual[1] ELSE Ended' = Ended
  <2> DEFINE f == [i \in S |-> log[i].actual[1]]
             g == [i \in T |-> after[i].actual[1]]
  <2>1. Ended = SumFunctionOnSet(f, S) /\ Ended' = SumFunctionOnSet(g, T)
    BY DEF Ended, SumFunction, S, T, log, after
  <2>2. IsFiniteSet(S) /\ n + 1 \notin S
    BY <1>1, <1>7, PartOfInterval
  <2>3. \A i \in S : f[i] \in Int
    <3>1. \A i \in S : log[i].actual[1] \in Nat
      BY RecordsType DEF S, log
    <3> QED
      BY <3>1
  <2>4. S \subseteq T /\ \A i \in S : g[i] = f[i]
    BY <1>2, <1>7, <1>12
  <2>5. CASE ends
    <3>1. g[n + 1] = record.actual[1] /\ T = S \cup {n + 1}
      BY <1>2, <1>12, <2>5
    <3>2. record.actual[1] \in Nat
      BY <2>5, ActualOfRecord DEF ends
    <3> HIDE DEF f, g
    <3>3. SumFunctionOnSet(g, S \cup {n + 1}) = SumFunctionOnSet(f, S) + g[n + 1]
      BY <2>2, <2>3, <2>4, <3>1, <3>2, SumOfMore
    <3> QED
      BY <2>1, <2>5, <3>1, <3>3
  <2>6. CASE ~ends
    <3>1. T = S
      BY <1>12, <2>6
    <3> HIDE DEF f, g
    <3>2. SumFunctionOnSet(f, S) = SumFunctionOnSet(g, S)
      BY <2>2, <2>4, SumOfEqual
    <3> QED
      BY <2>1, <2>6, <3>1, <3>2
  <2> QED
    BY <2>5, <2>6
<1> QED
  BY <1>13, <1>14, <1>15 DEF accepts, rejects, ends

\* One term of a sum, if it has that term, and the rest.
LEMMA SumSplits ==
  ASSUME NEW A, IsFiniteSet(A), NEW f, \A x \in A : f[x] \in Nat, NEW b
  PROVE  LET rest == SumFunctionOnSet(f, A \ {b}) IN
         /\ rest \in Nat
         /\ IF b \in A THEN SumFunctionOnSet(f, A) = rest + f[b]
                       ELSE SumFunctionOnSet(f, A) = rest
<1> DEFINE rest == SumFunctionOnSet(f, A \ {b})
<1>1. IsFiniteSet(A \ {b}) /\ \A x \in A \ {b} : f[x] \in Nat
  BY FS_Subset
<1>2. rest \in Nat
  BY <1>1, SumIsNatural
<1>3. CASE b \in A
  <2>1. SumFunctionOnSet(f, A) = f[b] + rest
    BY <1>3, SumWithout
  <2>2. f[b] \in Nat
    BY <1>3
  <2> HIDE DEF rest
  <2>3. SumFunctionOnSet(f, A) = rest + f[b]
    BY <1>2, <2>1, <2>2
  <2> QED
    BY <1>2, <1>3, <2>3 DEF rest
<1>4. CASE b \notin A
  <2>1. A \ {b} = A
    BY <1>4
  <2> QED
    BY <1>2, <1>4, <2>1
<1> QED
  BY <1>3, <1>4

\* Sets that differ in one element have a common rest.
LEMMA SizesMeet ==
  ASSUME NEW A, IsFiniteSet(A), NEW B, IsFiniteSet(B), NEW b, A \ {b} = B \ {b}
  PROVE  \E rest \in Nat :
           /\ IF b \in A THEN Cardinality(A) = rest + 1 ELSE Cardinality(A) = rest
           /\ IF b \in B THEN Cardinality(B) = rest + 1 ELSE Cardinality(B) = rest
<1> DEFINE rest == Cardinality(A \ {b})
<1>1. Cardinality(A) \in Nat /\ Cardinality(B) \in Nat /\ rest \in Nat
  BY FS_CardinalityType, FS_Subset
<1>2. rest = IF b \in A THEN Cardinality(A) - 1 ELSE Cardinality(A)
  BY FS_RemoveElement
<1>3. rest = IF b \in B THEN Cardinality(B) - 1 ELSE Cardinality(B)
  BY FS_RemoveElement
<1> HIDE DEF rest
<1> QED
  BY <1>1, <1>2, <1>3

LEMMA FlightType ==
  ASSUME TInv
  PROVE  /\ Failing \in Nat /\ Ending \in Nat
         /\ \A label : IsFiniteSet(InFlight(label))
         /\ \A b \in InFlight("append result") : statement[b].actual \in Nat
<1>1. \A label : InFlight(label) \subseteq Backends
  BY DEF InFlight
<1>2. \A label : IsFiniteSet(InFlight(label))
  BY <1>1, Bounds, FS_Subset
<1>3. \A b \in InFlight("append result") : statement[b].actual \in Nat
  <2> TAKE b \in InFlight("append result")
  <2>1. b \in Backends /\ pc[b] = "append result"
    BY DEF InFlight
  <2>2. statement[b] \in StatementSet
    BY <2>1, StatementOf
  <2> QED
    BY <2>2, StatementFields
<1>4. Failing \in Nat
  BY <1>2, FS_CardinalityType DEF Failing
<1>5. Ending \in Nat
  <2> DEFINE f == [b \in InFlight("append result") |-> statement[b].actual]
  <2>1. Ending = SumFunctionOnSet(f, InFlight("append result"))
    BY DEF Ending, SumFunction
  <2>2. \A b \in InFlight("append result") : f[b] \in Nat
    BY <1>3
  <2> HIDE DEF f
  <2> QED
    BY <1>2, <2>1, <2>2, SumIsNatural
<1> QED
  BY <1>2, <1>3, <1>4, <1>5

\* What is counted and not yet appended changes by the step's own backend.
LEMMA FlightMoves ==
  ASSUME TInv, NEW b \in Backends, NEW label \in Labels, NEW s, Goto(b, label, s),
         torn' \in [Backends -> BOOLEAN], \A x \in Backends \ {b} : torn'[x] = torn[x],
         label = "append result" => s.actual \in Nat
  PROVE  /\ \E rest \in Nat :
              /\ IF pc[b] = "append failure" /\ ~torn[b]
                 THEN Failing = rest + 1 ELSE Failing = rest
              /\ IF label = "append failure" /\ ~torn'[b]
                 THEN Failing' = rest + 1 ELSE Failing' = rest
         /\ \E rest \in Nat :
              /\ IF pc[b] = "append result" /\ ~torn[b]
                 THEN Ending = rest + statement[b].actual ELSE Ending = rest
              /\ IF label = "append result" /\ ~torn'[b]
                 THEN Ending' = rest + s.actual ELSE Ending' = rest
<1>1. /\ pc'[b] = label /\ statement'[b] = s
      /\ \A x \in Backends \ {b} : pc'[x] = pc[x] /\ statement'[x] = statement[x]
  BY DEF Goto, TInv, StatementsOK
<1>2. /\ \A x : InFlight(x)' = {c \in Backends : pc'[c] = x /\ ~torn'[c]}
      /\ \A x : InFlight(x) = {c \in Backends : pc[c] = x /\ ~torn[c]}
  BY DEF InFlight
<1> DEFINE A == InFlight("append failure")
           B == InFlight("append failure")'
           C == InFlight("append result")
           D == InFlight("append result")'
<1>3. /\ A = {c \in Backends : pc[c] = "append failure" /\ ~torn[c]}
      /\ B = {c \in Backends : pc'[c] = "append failure" /\ ~torn'[c]}
      /\ C = {c \in Backends : pc[c] = "append result" /\ ~torn[c]}
      /\ D = {c \in Backends : pc'[c] = "append result" /\ ~torn'[c]}
  BY DEF InFlight
<1>4. /\ Failing = Cardinality(A) /\ Failing' = Cardinality(B)
      /\ Ending = SumFunction([c \in C |-> statement[c].actual])
      /\ Ending' = SumFunction([c \in D |-> statement'[c].actual])
  BY DEF Failing, Ending
<1>5. IsFiniteSet(A) /\ IsFiniteSet(C) /\ \A c \in C : statement[c].actual \in Nat
  BY FlightType
<1> HIDE DEF A, B, C, D
<1>6. IsFiniteSet(B) /\ IsFiniteSet(D)
  <2>1. B \subseteq Backends /\ D \subseteq Backends
    BY <1>3
  <2> QED
    BY <2>1, Bounds, FS_Subset
<1>7. /\ A \ {b} = B \ {b} /\ C \ {b} = D \ {b}
      /\ b \in A <=> pc[b] = "append failure" /\ ~torn[b]
      /\ b \in B <=> label = "append failure" /\ ~torn'[b]
      /\ b \in C <=> pc[b] = "append result" /\ ~torn[b]
      /\ b \in D <=> label = "append result" /\ ~torn'[b]
  BY <1>1, <1>3
<1>8. PICK others \in Nat :
        /\ IF b \in A THEN Cardinality(A) = others + 1 ELSE Cardinality(A) = others
        /\ IF b \in B THEN Cardinality(B) = others + 1 ELSE Cardinality(B) = others
  BY <1>5, <1>6, <1>7, SizesMeet
<1> DEFINE f == [c \in C |-> statement[c].actual]
           g == [c \in D |-> statement'[c].actual]
<1>9. Ending = SumFunctionOnSet(f, C) /\ Ending' = SumFunctionOnSet(g, D)
  BY <1>4 DEF SumFunction
<1>10. /\ \A c \in C : f[c] = statement[c].actual
       /\ \A c \in D : g[c] = statement'[c].actual
  OBVIOUS
<1> HIDE DEF f, g
<1>11. /\ \A c \in C : f[c] \in Nat
       /\ \A c \in C \ {b} : g[c] = f[c]
       /\ b \in D => g[b] = s.actual /\ g[b] \in Nat
       /\ b \in C => f[b] = statement[b].actual
  <2>1. \A c \in C : f[c] \in Nat
    BY <1>5, <1>10
  <2>2. \A c \in C \ {b} : g[c] = f[c]
    <3>1. \A c \in C \ {b} : c \in D /\ c \in Backends \ {b}
      BY <1>3, <1>7
    <3> QED
      BY <1>1, <1>10, <3>1
  <2>3. ASSUME b \in D PROVE g[b] = s.actual /\ g[b] \in Nat
    <3>1. g[b] = s.actual
      BY <1>1, <1>10, <2>3
    <3>2. s.actual \in Nat
      BY <1>7, <2>3
    <3> QED
      BY <3>1, <3>2
  <2>4. b \in C => f[b] = statement[b].actual
    BY <1>10
  <2> QED
    BY <2>1, <2>2, <2>3, <2>4
<1>12. \E rest \in Nat :
         /\ IF b \in C THEN SumFunctionOnSet(f, C) = rest + f[b]
                       ELSE SumFunctionOnSet(f, C) = rest
         /\ IF b \in D THEN SumFunctionOnSet(g, D) = rest + g[b]
                       ELSE SumFunctionOnSet(g, D) = rest
  <2> DEFINE rest == SumFunctionOnSet(f, C \ {b})
             same == SumFunctionOnSet(g, D \ {b})
  <2>1. \A c \in D : g[c] \in Nat
    <3> TAKE c \in D
    <3>1. CASE c = b
      BY <1>11, <3>1
    <3>2. CASE c # b
      <4>1. c \in C \ {b}
        BY <1>7, <3>2
      <4> QED
        BY <1>11, <4>1
    <3> QED
      BY <3>1, <3>2
  <2>2. /\ rest \in Nat
        /\ IF b \in C THEN SumFunctionOnSet(f, C) = rest + f[b]
                      ELSE SumFunctionOnSet(f, C) = rest
    BY <1>5, <1>11, SumSplits
  <2>3. IF b \in D THEN SumFunctionOnSet(g, D) = same + g[b]
                   ELSE SumFunctionOnSet(g, D) = same
    BY <1>6, <2>1, SumSplits
  <2>4. rest = same
    <3>1. IsFiniteSet(C \ {b}) /\ \A c \in C \ {b} : f[c] = g[c]
      BY <1>5, <1>11, FS_Subset
    <3>2. SumFunctionOnSet(f, C \ {b}) = SumFunctionOnSet(g, C \ {b})
      BY <3>1, SumOfEqual
    <3> QED
      BY <1>7, <3>2
  <2> HIDE DEF rest, same
  <2> QED
    BY <2>2, <2>3, <2>4
<1>13. \E r \in Nat :
         /\ IF pc[b] = "append failure" /\ ~torn[b] THEN Failing = r + 1 ELSE Failing = r
         /\ IF label = "append failure" /\ ~torn'[b] THEN Failing' = r + 1 ELSE Failing' = r
  BY <1>4, <1>7, <1>8
<1>14. \E r \in Nat :
         /\ IF pc[b] = "append result" /\ ~torn[b]
            THEN Ending = r + statement[b].actual ELSE Ending = r
         /\ IF label = "append result" /\ ~torn'[b]
            THEN Ending' = r + s.actual ELSE Ending' = r
  BY <1>7, <1>9, <1>11, <1>12
<1> QED
  BY <1>13, <1>14

\* The counters and the records keep telling the same story when both grow by
\* the same.
LEMMA TalliesFollow ==
  ASSUME TInv, CountersMatchRecords, Unwrapped' => Unwrapped, NEW delta \in Deltas,
         \A name \in {"accepted", "rejected", "actual"} :
           counters'[name] = Saturated(counters[name] + delta[name]),
         Unwrapped' =>
           /\ Accepted' + Failing' = Accepted + Failing + delta["accepted"]
           /\ Rejected' = Rejected + delta["rejected"]
           /\ Ended' + Ending' = Ended + Ending + delta["actual"]
  PROVE  CountersMatchRecords'
<1> SUFFICES ASSUME Unwrapped'
             PROVE  /\ counters'["accepted"] = Saturated(Accepted' + Failing')
                    /\ counters'["rejected"] = Saturated(Rejected')
                    /\ counters'["actual"] = Saturated(Ended' + Ending')
  BY CountersMatchAfter
<1>1. /\ counters["accepted"] = Saturated(Accepted + Failing)
      /\ counters["rejected"] = Saturated(Rejected)
      /\ counters["actual"] = Saturated(Ended + Ending)
  BY CountersMatchIs
<1>2. /\ Accepted + Failing \in Nat /\ Rejected \in Nat /\ Ended + Ending \in Nat
      /\ delta["accepted"] \in Nat /\ delta["rejected"] \in Nat /\ delta["actual"] \in Nat
  <2>1. /\ Accepted \in Nat /\ Failing \in Nat /\ Rejected \in Nat
        /\ Ended \in Nat /\ Ending \in Nat
    BY RecordsType, FlightType
  <2>2. delta["accepted"] \in Nat /\ delta["rejected"] \in Nat /\ delta["actual"] \in Nat
    BY TalliedNames DEF Deltas, Tallied
  <2> QED
    BY <2>1, <2>2
<1>3. /\ counters'["accepted"] = Saturated(counters["accepted"] + delta["accepted"])
      /\ counters'["rejected"] = Saturated(counters["rejected"] + delta["rejected"])
      /\ counters'["actual"] = Saturated(counters["actual"] + delta["actual"])
  OBVIOUS
<1>4. counters'["accepted"] = Saturated(Accepted' + Failing')
  <2> DEFINE n == Accepted + Failing
             m == Accepted' + Failing'
             a == delta["accepted"]
  <2>1. n \in Nat /\ a \in Nat /\ m = n + a
    BY <1>2
  <2>2. counters["accepted"] = Saturated(n)
        /\ counters'["accepted"] = Saturated(counters["accepted"] + a)
    BY <1>1, <1>3
  <2> HIDE DEF n, m, a
  <2>3. Saturated(Saturated(n) + a) = Saturated(n + a)
    BY <2>1, SaturatedType
  <2>4. counters'["accepted"] = Saturated(m)
    BY <2>1, <2>2, <2>3
  <2> QED
    BY <2>4 DEF m
<1>5. counters'["rejected"] = Saturated(Rejected')
  <2> DEFINE n == Rejected
             m == Rejected'
             a == delta["rejected"]
  <2>1. n \in Nat /\ a \in Nat /\ m = n + a
    BY <1>2
  <2>2. counters["rejected"] = Saturated(n)
        /\ counters'["rejected"] = Saturated(counters["rejected"] + a)
    BY <1>1, <1>3
  <2> HIDE DEF n, m, a
  <2>3. Saturated(Saturated(n) + a) = Saturated(n + a)
    BY <2>1, SaturatedType
  <2>4. counters'["rejected"] = Saturated(m)
    BY <2>1, <2>2, <2>3
  <2> QED
    BY <2>4 DEF m
<1>6. counters'["actual"] = Saturated(Ended' + Ending')
  <2> DEFINE n == Ended + Ending
             m == Ended' + Ending'
             a == delta["actual"]
  <2>1. n \in Nat /\ a \in Nat /\ m = n + a
    BY <1>2
  <2>2. counters["actual"] = Saturated(n)
        /\ counters'["actual"] = Saturated(counters["actual"] + a)
    BY <1>1, <1>3
  <2> HIDE DEF n, m, a
  <2>3. Saturated(Saturated(n) + a) = Saturated(n + a)
    BY <2>1, SaturatedType
  <2>4. counters'["actual"] = Saturated(m)
    BY <2>1, <2>2, <2>3
  <2> QED
    BY <2>4 DEF m
<1> QED
  BY <1>4, <1>5, <1>6

\* The tallied counters as they are.
LEMMA UncountedTallies ==
  ASSUME TInv, \A name \in Tallied : counters'[name] = counters[name]
  PROVE  /\ NoDelta \in Deltas
         /\ \A name \in {"accepted", "rejected", "actual"} :
              NoDelta[name] = 0 /\ counters'[name] = Saturated(counters[name] + NoDelta[name])
<1>1. {"accepted", "rejected", "actual"} \subseteq Tallied
  BY DEF Tallied
<1>2. NoDelta \in Deltas /\ \A name \in CounterNames : NoDelta[name] = 0
  BY NoDeltaType
<1>3. \A name \in Tallied : AddCounters(NoDelta)[name] = counters[name]
  BY <1>2, ZeroDelta, TalliedNames
<1>4. \A name \in Tallied :
        AddCounters(NoDelta)[name] = Saturated(counters[name] + NoDelta[name])
  <2>1. counters \in [CounterNames -> 0..MaxU64]
    BY DEF TInv
  <2> QED
    BY <1>2, <2>1, AddCountersType, TalliedNames
<1> QED
  BY <1>1, <1>2, <1>3, <1>4, TalliedNames

\* The tallies of the records do not change when neither the ring does nor the
\* marks.
LEMMA RecordsKept ==
  ASSUME UNCHANGED <<ring, uncounted>>
  PROVE  Accepted' = Accepted /\ Rejected' = Rejected /\ Ended' = Ended
<1>1. Log' = Log
  BY DEF Log
<1>2. CountedRecords' = CountedRecords
  BY <1>1 DEF CountedRecords
<1>3. AcceptedRecords' = AcceptedRecords /\ RejectedRecords' = RejectedRecords
      /\ EndedRecords' = EndedRecords
  BY <1>1, <1>2 DEF AcceptedRecords, RejectedRecords, EndedRecords
<1> QED
  BY <1>1, <1>3 DEF Accepted, Rejected, Ended

LEMMA WindowStays ==
  ASSUME TInv, ring' = ring, records' \in Nat, records <= records'
  PROVE  Unwrapped' => Unwrapped
  BY HeadType, Bounds DEF Unwrapped

\* A backend that neither was counting nor is: what is in flight stays.
LEMMA FlightStays ==
  ASSUME TInv, NEW b \in Backends, NEW label \in Labels, NEW s, Goto(b, label, s),
         torn' = torn, pc[b] \notin Counting, label \notin Counting
  PROVE  Failing' = Failing /\ Ending' = Ending
<1>1. torn' \in [Backends -> BOOLEAN] /\ \A x \in Backends \ {b} : torn'[x] = torn[x]
  BY DEF TInv, FlightOK
<1>2. /\ pc[b] # "append failure" /\ pc[b] # "append result"
      /\ label # "append failure" /\ label # "append result"
  BY DEF Counting
<1>3. (\E rest \in Nat : Failing = rest /\ Failing' = rest)
      /\ \E rest \in Nat : Ending = rest /\ Ending' = rest
  BY <1>1, <1>2, FlightMoves
<1> QED
  BY <1>3

\* A step that leaves the ring alone adds to the counters what it puts in
\* flight.
LEMMA QuietCounters ==
  ASSUME TInv, MarksOK, CountersMatchRecords, UNCHANGED <<ring, uncounted>>,
         records' \in Nat, records <= records', NEW delta \in Deltas,
         \A name \in {"accepted", "rejected", "actual"} :
           counters'[name] = Saturated(counters[name] + delta[name]),
         delta["rejected"] = 0,
         Failing' = Failing + delta["accepted"], Ending' = Ending + delta["actual"]
  PROVE  MarksOK' /\ CountersMatchRecords'
<1>1. Unwrapped' => Unwrapped
  BY WindowStays
<1>2. MarksOK'
  BY <1>1 DEF MarksOK
<1>3. Accepted' = Accepted /\ Rejected' = Rejected /\ Ended' = Ended
  BY RecordsKept
<1>4. /\ Accepted \in Nat /\ Rejected \in Nat /\ Ended \in Nat
      /\ Failing \in Nat /\ Ending \in Nat
  BY RecordsType, FlightType
<1>5. delta["accepted"] \in Nat /\ delta["actual"] \in Nat
  BY TalliedNames DEF Deltas, Tallied
<1>6. /\ Accepted' + Failing' = Accepted + Failing + delta["accepted"]
      /\ Rejected' = Rejected + delta["rejected"]
      /\ Ended' + Ending' = Ended + Ending + delta["actual"]
  BY <1>3, <1>4, <1>5
<1>7. CountersMatchRecords'
  BY <1>1, <1>6, TalliesFollow
<1> QED
  BY <1>2, <1>7

LEMMA AsideCounters ==
  ASSUME TInv, MarksOK, CountersMatchRecords, NEW b \in Backends, Aside(b)
  PROVE  MarksOK' /\ CountersMatchRecords'
<1>1. PICK label \in Labels \ Counting : \E s : Goto(b, label, s)
  BY DEF Aside, Goto
<1>2. Failing' = Failing /\ Ending' = Ending
  <2>1. pc[b] \notin Counting /\ torn' = torn
    BY DEF Aside, Counted, Counting
  <2> QED
    BY <1>1, <2>1, FlightStays
<1>3. /\ NoDelta \in Deltas
      /\ \A name \in {"accepted", "rejected", "actual"} :
           NoDelta[name] = 0 /\ counters'[name] = Saturated(counters[name] + NoDelta[name])
  BY AsideCounts, UncountedTallies
<1>4. UNCHANGED <<ring, uncounted, records>>
  BY DEF Aside
<1>5. records' \in Nat /\ records <= records'
  BY <1>4, HeadType
<1>6. Failing' = Failing + NoDelta["accepted"] /\ Ending' = Ending + NoDelta["actual"]
  <2>1. Failing \in Nat /\ Ending \in Nat
    BY FlightType
  <2>2. NoDelta["accepted"] = 0 /\ NoDelta["actual"] = 0
    BY <1>3
  <2> QED
    BY <1>2, <2>1, <2>2
<1> QED
  BY <1>3, <1>4, <1>5, <1>6, QuietCounters

LEMMA CountFailOpenCounters ==
  ASSUME TInv, MarksOK, CountersMatchRecords, NEW b \in Backends, NEW s \in Failures,
         CountFailOpen(b, s)
  PROVE  MarksOK' /\ CountersMatchRecords'
<1> DEFINE delta == DeltaForDecision(s)
<1>1. s \in StatementSet /\ s.kind = "fail open"
  BY FailureType
<1>2. /\ pc[b] = "idle" /\ records' = records + 1
      /\ UNCHANGED <<ring, torn, uncounted>>
      /\ counters' = AddCounters(delta)
      /\ Goto(b, "append failure", s)
  BY DEF CountFailOpen, history
<1>3. delta \in Deltas /\ delta["accepted"] = 1 /\ delta["rejected"] = 0 /\ delta["actual"] = 0
  BY <1>1, DecisionDelta
<1> HIDE DEF delta
<1>4. \A name \in {"accepted", "rejected", "actual"} :
        counters'[name] = Saturated(counters[name] + delta[name])
  <2>1. counters \in [CounterNames -> 0..MaxU64]
    BY DEF TInv
  <2>2. {"accepted", "rejected", "actual"} \subseteq CounterNames
    BY TalliedNames DEF Tallied
  <2> QED
    BY <1>2, <1>3, <2>1, <2>2, AddCountersType
<1>5. ~torn[b] /\ torn' \in [Backends -> BOOLEAN]
      /\ \A x \in Backends \ {b} : torn'[x] = torn[x]
  <2>1. ~Counted(b)
    BY <1>2 DEF Counted
  <2> QED
    BY <1>2, <2>1 DEF TInv, FlightOK
<1>6. (\E rest \in Nat : Failing = rest /\ Failing' = rest + 1)
      /\ \E rest \in Nat : Ending = rest /\ Ending' = rest
  <2>1. "append failure" \in Labels
    BY DEF Labels
  <2>2. torn'[b] = torn[b]
    BY <1>2
  <2> QED
    BY <1>2, <1>5, <2>1, <2>2, FlightMoves
<1>7. Failing' = Failing + delta["accepted"] /\ Ending' = Ending + delta["actual"]
  BY <1>3, <1>6
<1>8. records' \in Nat /\ records <= records'
  <2>1. records \in Nat
    BY HeadType
  <2>2. records' = records + 1
    BY <1>2
  <2> QED
    BY <2>1, <2>2
<1> QED
  BY <1>2, <1>3, <1>4, <1>7, <1>8, QuietCounters

LEMMA CountResultCounters ==
  ASSUME TInv, MarksOK, CountersMatchRecords, NEW b \in Backends, NEW actual \in Sizes,
         CountResult(b, actual)
  PROVE  MarksOK' /\ CountersMatchRecords'
<1> DEFINE s == [statement[b] EXCEPT !.actual = actual]
           delta == DeltaForResult(s)
<1>1. /\ pc[b] = "running" /\ records' = records + 1
      /\ UNCHANGED <<ring, torn, uncounted>>
      /\ counters' = AddCounters(delta)
      /\ Goto(b, "append result", s)
  BY DEF CountResult, history
<1>2. s \in StatementSet
  BY <1>1, StatementOf DEF StatementSet
<1> HIDE DEF s
<1>3. delta \in Deltas /\ delta["accepted"] = 0 /\ delta["rejected"] = 0
      /\ delta["actual"] = s.actual /\ s.actual \in Nat
  BY <1>2, ResultDelta, StatementFields
<1> HIDE DEF delta
<1>4. \A name \in {"accepted", "rejected", "actual"} :
        counters'[name] = Saturated(counters[name] + delta[name])
  <2>1. counters \in [CounterNames -> 0..MaxU64]
    BY DEF TInv
  <2>2. {"accepted", "rejected", "actual"} \subseteq CounterNames
    BY TalliedNames DEF Tallied
  <2> QED
    BY <1>1, <1>3, <2>1, <2>2, AddCountersType
<1>5. ~torn[b] /\ torn' \in [Backends -> BOOLEAN]
      /\ \A x \in Backends \ {b} : torn'[x] = torn[x]
  <2>1. ~Counted(b)
    BY <1>1 DEF Counted
  <2> QED
    BY <1>1, <2>1 DEF TInv, FlightOK
<1>6. (\E rest \in Nat : Failing = rest /\ Failing' = rest)
      /\ \E rest \in Nat : Ending = rest /\ Ending' = rest + s.actual
  <2>1. "append result" \in Labels
    BY DEF Labels
  <2>2. torn'[b] = torn[b]
    BY <1>1
  <2> QED
    BY <1>1, <1>3, <1>5, <2>1, <2>2, FlightMoves
<1>7. Failing' = Failing + delta["accepted"] /\ Ending' = Ending + delta["actual"]
  BY <1>3, <1>6
<1>8. records' \in Nat /\ records <= records'
  <2>1. records \in Nat
    BY HeadType
  <2>2. records' = records + 1
    BY <1>1
  <2> QED
    BY <2>1, <2>2
<1> QED
  BY <1>1, <1>3, <1>4, <1>7, <1>8, QuietCounters

LEMMA MarksGrow ==
  ASSUME TInv, MarksOK, NEW record \in RecordSet,
         ring' = RecordRecentDecision(ring, record),
         records' \in Nat, records <= records', ring.head < records',
         uncounted' \subseteq uncounted \cup {ring.head}
  PROVE  MarksOK' /\ (Unwrapped' => Unwrapped)
<1>1. Unwrapped' => Unwrapped
  BY LogGrows
<1>2. ASSUME Unwrapped' PROVE \A i \in uncounted' : i \in Nat /\ i < ring'.head
  <2>1. ring'.head = ring.head + 1 /\ ring.head \in Nat
    <3>1. ring'.head = ring'.count /\ ring'.count = ring.count + 1 /\ ring.head = ring.count
      BY <1>2, LogGrows DEF Unwrapped
    <3>2. ring.head \in Nat
      BY HeadType
    <3> QED
      BY <3>1, <3>2
  <2>2. \A i \in uncounted : i \in Nat /\ i < ring.head
    BY <1>1, <1>2 DEF MarksOK
  <2> QED
    BY <2>1, <2>2
<1> QED
  BY <1>1, <1>2 DEF MarksOK

LEMMA DecideCounters ==
  ASSUME TInv, MarksOK, CountersMatchRecords, NEW b \in Backends, NEW s \in Admissions,
         Decide(b, s)
  PROVE  MarksOK' /\ CountersMatchRecords'
<1> DEFINE delta == DeltaForDecision(s)
           record == Record(s, <<>>)
<1>1. s \in StatementSet
  BY AdmissionType
<1>2. /\ pc[b] = "idle" /\ records' = records + 1
      /\ UNCHANGED <<torn, uncounted>>
      /\ ring' = RecordRecentDecision(ring, record)
      /\ counters' = CountersAfterDecision(s)
      /\ \E label \in {"idle", "running"} : \E t : Goto(b, label, t)
  BY DEF Decide, End, history
<1>3. delta \in Deltas /\ delta["accepted"] = (IF s.kind = "rejected" THEN 0 ELSE 1)
      /\ delta["rejected"] = (IF s.kind = "rejected" THEN 1 ELSE 0) /\ delta["actual"] = 0
  BY <1>1, DecisionDelta
<1>4. record \in RecordSet /\ record.kind = s.kind /\ record.actual = <<>>
  BY <1>1, RecordType
<1> HIDE DEF delta, record
<1>5. \A name \in {"accepted", "rejected", "actual"} :
        counters'[name] = Saturated(counters[name] + delta[name])
  <2>1. counters \in [CounterNames -> 0..MaxU64]
    BY DEF TInv
  <2>2. /\ counters'["accepted"] = Saturated(counters["accepted"] + delta["accepted"])
        /\ counters'["rejected"] = Saturated(counters["rejected"] + delta["rejected"])
        /\ counters'["actual"] = counters["actual"]
    <3>1. LET new == CountersAfterDecision(s) IN
          /\ new["accepted"] = Saturated(counters["accepted"]
                                         + (IF s.kind = "rejected" THEN 0 ELSE 1))
          /\ new["rejected"] = Saturated(counters["rejected"]
                                         + (IF s.kind = "rejected" THEN 1 ELSE 0))
          /\ new["actual"] = counters["actual"]
      BY <1>1, <2>1, DecisionCounts
    <3> QED
      BY <1>2, <1>3, <3>1
  <2>3. counters["actual"] = Saturated(counters["actual"] + delta["actual"])
    <3>1. "actual" \in CounterNames /\ "actual" \in {"accepted", "rejected", "actual"}
      BY TalliedNames DEF Tallied
    <3>2. AddCounters(delta)["actual"] = counters["actual"]
      BY <1>3, <3>1, ZeroDelta
    <3>3. AddCounters(delta)["actual"] = Saturated(counters["actual"] + delta["actual"])
      BY <1>3, <2>1, <3>1, AddCountersType
    <3> QED
      BY <3>2, <3>3
  <2> QED
    BY <2>2, <2>3
<1>6. records' \in Nat /\ records <= records' /\ ring.head < records'
  <2>1. records \in Nat /\ ring.head \in Nat /\ ring.head <= records
    BY HeadType
  <2>2. records' = records + 1
    BY <1>2
  <2> QED
    BY <2>1, <2>2
<1>7. MarksOK' /\ (Unwrapped' => Unwrapped)
  <2>1. uncounted' \subseteq uncounted \cup {ring.head}
    BY <1>2
  <2> QED
    BY <1>2, <1>4, <1>6, <2>1, MarksGrow
<1>8. Failing' = Failing /\ Ending' = Ending
  <2>1. pc[b] \notin Counting /\ torn' = torn
    BY <1>2 DEF Counting
  <2>2. {"idle", "running"} \subseteq Labels \ Counting
    BY DEF Labels, Counting
  <2> QED
    BY <1>2, <2>1, <2>2, FlightStays
<1>9. ASSUME Unwrapped'
      PROVE  /\ Accepted' + Failing' = Accepted + Failing + delta["accepted"]
             /\ Rejected' = Rejected + delta["rejected"]
             /\ Ended' + Ending' = Ended + Ending + delta["actual"]
  <2>1. /\ IF record.actual = <<>> /\ record.kind # "rejected"
           THEN Accepted' = Accepted + 1 ELSE Accepted' = Accepted
        /\ IF record.kind = "rejected"
           THEN Rejected' = Rejected + 1 ELSE Rejected' = Rejected
        /\ IF record.actual # <<>>
           THEN Ended' = Ended + record.actual[1] ELSE Ended' = Ended
    <3> DEFINE fresh == TRUE
    <3>1. fresh \in BOOLEAN /\ uncounted' = IF fresh THEN uncounted
                                            ELSE uncounted \cup {ring.head}
      BY <1>2
    <3>2. /\ IF fresh /\ record.actual = <<>> /\ record.kind # "rejected"
             THEN Accepted' = Accepted + 1 ELSE Accepted' = Accepted
          /\ IF fresh /\ record.kind = "rejected"
             THEN Rejected' = Rejected + 1 ELSE Rejected' = Rejected
          /\ IF fresh /\ record.actual # <<>>
             THEN Ended' = Ended + record.actual[1] ELSE Ended' = Ended
      <4> HIDE DEF fresh
      <4> QED
        BY <1>2, <1>4, <1>6, <1>9, <3>1, TalliesGrow
    <3> QED
      BY <3>2
  <2>2. /\ Accepted \in Nat /\ Rejected \in Nat /\ Ended \in Nat
        /\ Failing \in Nat /\ Ending \in Nat
    BY RecordsType, FlightType
  <2>3. Ended' = Ended
    BY <1>4, <2>1
  <2>4. CASE s.kind = "rejected"
    <3>1. Accepted' = Accepted /\ Rejected' = Rejected + 1
      BY <1>4, <2>1, <2>4
    <3> QED
      BY <1>3, <1>8, <2>2, <2>3, <2>4, <3>1
  <2>5. CASE s.kind # "rejected"
    <3>1. Accepted' = Accepted + 1 /\ Rejected' = Rejected
      BY <1>4, <2>1, <2>5
    <3> QED
      BY <1>3, <1>8, <2>2, <2>3, <2>5, <3>1
  <2> QED
    BY <2>4, <2>5
<1>10. CountersMatchRecords'
  BY <1>3, <1>5, <1>7, <1>9, TalliesFollow
<1> QED
  BY <1>7, <1>10

\* The record that a backend has counted.
RecordOf(b, record) ==
  /\ record \in RecordSet /\ record.kind # "rejected"
  /\ \/ pc[b] = "append failure" /\ record.actual = <<>>
     \/ pc[b] = "append result" /\ record.actual # <<>>
        /\ record.actual[1] = statement[b].actual

\* What was in flight is now in the ring, unless a reset came in between.
LEMMA AppendCounters ==
  ASSUME TInv, MarksOK, CountersMatchRecords, NEW b \in Backends, Counted(b),
         NEW record, RecordOf(b, record), AppendRecord(b, record),
         NEW label \in Labels, label \notin Counting, NEW s, Goto(b, label, s),
         UNCHANGED <<counters, records>>
  PROVE  MarksOK' /\ CountersMatchRecords'
<1> DEFINE fresh == ~torn[b]
<1>1. /\ ring' = RecordRecentDecision(ring, record)
      /\ torn' = [torn EXCEPT ![b] = FALSE]
      /\ uncounted' = IF torn[b] THEN uncounted \cup {ring.head} ELSE uncounted
  BY DEF AppendRecord
<1>2. records' \in Nat /\ records <= records' /\ ring.head < records'
  BY BeforeAppend
<1>3. fresh \in BOOLEAN /\ uncounted' = IF fresh THEN uncounted ELSE uncounted \cup {ring.head}
  BY <1>1
<1>4. torn' \in [Backends -> BOOLEAN] /\ \A x \in Backends \ {b} : torn'[x] = torn[x]
  BY <1>1 DEF TInv, FlightOK
<1>5. label # "append failure" /\ label # "append result"
  BY DEF Counting
<1> HIDE DEF fresh
<1>6. MarksOK' /\ (Unwrapped' => Unwrapped)
  <2>1. uncounted' \subseteq uncounted \cup {ring.head}
    BY <1>3
  <2> QED
    BY <1>1, <1>2, <2>1, MarksGrow DEF RecordOf
<1>7. /\ \E rest \in Nat :
           /\ IF pc[b] = "append failure" /\ fresh
              THEN Failing = rest + 1 ELSE Failing = rest
           /\ Failing' = rest
      /\ \E rest \in Nat :
           /\ IF pc[b] = "append result" /\ fresh
              THEN Ending = rest + statement[b].actual ELSE Ending = rest
           /\ Ending' = rest
  <2>1. label = "append result" => s.actual \in Nat
    BY <1>5
  <2>2. /\ \E rest \in Nat :
             /\ IF pc[b] = "append failure" /\ ~torn[b]
                THEN Failing = rest + 1 ELSE Failing = rest
             /\ IF label = "append failure" /\ ~torn'[b]
                THEN Failing' = rest + 1 ELSE Failing' = rest
        /\ \E rest \in Nat :
             /\ IF pc[b] = "append result" /\ ~torn[b]
                THEN Ending = rest + statement[b].actual ELSE Ending = rest
             /\ IF label = "append result" /\ ~torn'[b]
                THEN Ending' = rest + s.actual ELSE Ending' = rest
    BY <1>4, <2>1, FlightMoves
  <2> QED
    BY <1>5, <2>2 DEF fresh
<1>8. /\ NoDelta \in Deltas
      /\ \A name \in {"accepted", "rejected", "actual"} :
           NoDelta[name] = 0 /\ counters'[name] = Saturated(counters[name] + NoDelta[name])
  <2>1. \A name \in Tallied : counters'[name] = counters[name]
    OBVIOUS
  <2> QED
    BY <2>1, UncountedTallies
<1>9. ASSUME Unwrapped'
      PROVE  /\ Accepted' + Failing' = Accepted + Failing + NoDelta["accepted"]
             /\ Rejected' = Rejected + NoDelta["rejected"]
             /\ Ended' + Ending' = Ended + Ending + NoDelta["actual"]
  <2>1. /\ IF fresh /\ record.actual = <<>> /\ record.kind # "rejected"
           THEN Accepted' = Accepted + 1 ELSE Accepted' = Accepted
        /\ IF fresh /\ record.kind = "rejected"
           THEN Rejected' = Rejected + 1 ELSE Rejected' = Rejected
        /\ IF fresh /\ record.actual # <<>>
           THEN Ended' = Ended + record.actual[1] ELSE Ended' = Ended
    <3>1. record \in RecordSet
      BY DEF RecordOf
    <3> QED
      BY <1>1, <1>2, <1>3, <1>9, <3>1, TalliesGrow
  <2>2. /\ Accepted \in Nat /\ Rejected \in Nat /\ Ended \in Nat
        /\ Failing \in Nat /\ Ending \in Nat
    BY RecordsType, FlightType
  <2>3. NoDelta["accepted"] = 0 /\ NoDelta["rejected"] = 0 /\ NoDelta["actual"] = 0
    BY <1>8
  <2>4. Rejected' = Rejected
    BY <2>1 DEF RecordOf
  <2>5. CASE pc[b] = "append failure" /\ record.actual = <<>>
    <3>1. Ended' = Ended /\ Ending' = Ending
      BY <1>7, <2>1, <2>5
    <3>2. Accepted' + Failing' = Accepted + Failing
      <4>1. CASE fresh
        <5>1. Accepted' = Accepted + 1
          BY <2>1, <2>5, <4>1 DEF RecordOf
        <5>2. Failing' \in Nat /\ Failing = Failing' + 1
          BY <1>7, <2>5, <4>1
        <5>3. Accepted' \in Nat
          BY <2>2, <5>1
        <5> QED
          BY <2>2, <5>1, <5>2, <5>3
      <4>2. CASE ~fresh
        BY <1>7, <2>1, <4>2
      <4> QED
        BY <4>1, <4>2
    <3>3. /\ Accepted + Failing + NoDelta["accepted"] = Accepted + Failing
          /\ Rejected + NoDelta["rejected"] = Rejected
          /\ Ended + Ending + NoDelta["actual"] = Ended + Ending
      BY <2>2, <2>3
    <3> QED
      BY <2>4, <3>1, <3>2, <3>3
  <2>6. CASE pc[b] = "append result" /\ record.actual # <<>>
             /\ record.actual[1] = statement[b].actual
    <3>1. Accepted' = Accepted /\ Failing' = Failing
      BY <1>7, <2>1, <2>6
    <3>2. Ended' + Ending' = Ended + Ending
      <4>1. CASE fresh
        <5>1. Ended' = Ended + record.actual[1] /\ record.actual[1] \in Nat
          BY <2>1, <2>6, <4>1, ActualOfRecord DEF RecordOf
        <5>2. Ending' \in Nat /\ Ending = Ending' + record.actual[1]
          BY <1>7, <2>6, <4>1
        <5>3. Ended' \in Nat
          BY <2>2, <5>1
        <5> QED
          BY <2>2, <5>1, <5>2, <5>3
      <4>2. CASE ~fresh
        BY <1>7, <2>1, <4>2
      <4> QED
        BY <4>1, <4>2
    <3>3. /\ Accepted + Failing + NoDelta["accepted"] = Accepted + Failing
          /\ Rejected + NoDelta["rejected"] = Rejected
          /\ Ended + Ending + NoDelta["actual"] = Ended + Ending
      BY <2>2, <2>3
    <3> QED
      BY <2>4, <3>1, <3>2, <3>3
  <2> QED
    BY <2>5, <2>6 DEF RecordOf
<1>10. CountersMatchRecords'
  BY <1>6, <1>8, <1>9, TalliesFollow
<1> QED
  BY <1>6, <1>10

LEMMA EmptyTallies ==
  ASSUME DOMAIN Log = {}
  PROVE  Accepted = 0 /\ Rejected = 0 /\ Ended = 0
<1>1. AcceptedRecords = {} /\ RejectedRecords = {} /\ EndedRecords = {}
  BY DEF AcceptedRecords, RejectedRecords, EndedRecords, CountedRecords
<1>2. Accepted = 0 /\ Rejected = 0
  BY <1>1, FS_EmptySet DEF Accepted, Rejected
<1>3. Ended = 0
  <2> DEFINE f == [i \in EndedRecords |-> Log[i].actual[1]]
  <2>1. Ended = SumFunctionOnSet(f, {})
    BY <1>1 DEF Ended, SumFunction
  <2> HIDE DEF f
  <2> QED
    BY <2>1, SumOfNone
<1> QED
  BY <1>2, <1>3

LEMMA EmptyFlight ==
  ASSUME InFlight("append failure") = {}, InFlight("append result") = {}
  PROVE  Failing = 0 /\ Ending = 0
<1>1. Failing = 0
  BY FS_EmptySet DEF Failing
<1>2. Ending = 0
  <2> DEFINE f == [b \in InFlight("append result") |-> statement[b].actual]
  <2>1. Ending = SumFunctionOnSet(f, {})
    BY DEF Ending, SumFunction
  <2> HIDE DEF f
  <2> QED
    BY <2>1, SumOfNone
<1> QED
  BY <1>1, <1>2

LEMMA ResetCounters ==
  ASSUME TInv, ResetStats
  PROVE  MarksOK' /\ CountersMatchRecords'
<1>1. /\ counters' = NoDelta /\ ring' = EmptyRing /\ uncounted' = {} /\ pc' = pc
      /\ torn' = [b \in Backends |-> Counted(b)]
  BY DEF ResetStats, RingAfterReset
<1>2. MarksOK'
  BY <1>1 DEF MarksOK
<1>3. Accepted' = 0 /\ Rejected' = 0 /\ Ended' = 0
  <2>1. DOMAIN Log' = {}
    BY <1>1, EmptyLog
  <2>2. AcceptedRecords' = {} /\ RejectedRecords' = {} /\ EndedRecords' = {}
    BY <2>1 DEF AcceptedRecords, RejectedRecords, EndedRecords, CountedRecords
  <2>3. Accepted' = 0 /\ Rejected' = 0
    BY <2>2, FS_EmptySet DEF Accepted, Rejected
  <2>4. Ended' = 0
    <3> DEFINE f == [i \in EndedRecords' |-> Log'[i].actual[1]]
    <3>1. Ended' = SumFunctionOnSet(f, {})
      BY <2>2 DEF Ended, SumFunction
    <3> HIDE DEF f
    <3> QED
      BY <3>1, SumOfNone
  <2> QED
    BY <2>3, <2>4
<1>4. Failing' = 0 /\ Ending' = 0
  <2>1. \A b \in Backends : pc'[b] \in {"append failure", "append result"} => torn'[b]
    BY <1>1 DEF Counted
  <2>2. InFlight("append failure")' = {} /\ InFlight("append result")' = {}
    BY <2>1 DEF InFlight
  <2>3. Failing' = 0
    BY <2>2, FS_EmptySet DEF Failing
  <2>4. Ending' = 0
    <3> DEFINE f == [b \in InFlight("append result")' |-> statement'[b].actual]
    <3>1. Ending' = SumFunctionOnSet(f, {})
      BY <2>2 DEF Ending, SumFunction
    <3> HIDE DEF f
    <3> QED
      BY <3>1, SumOfNone
  <2> QED
    BY <2>3, <2>4
<1>5. counters'["accepted"] = 0 /\ counters'["rejected"] = 0 /\ counters'["actual"] = 0
  BY <1>1, NoDeltaType, TalliedNames DEF Tallied
<1>6. Saturated(0) = 0 /\ 0 + 0 = 0
  BY Bounds, SaturatedType
<1> QED
  BY <1>2, <1>3, <1>4, <1>5, <1>6, CountersMatchAfter

LEMMA InitCounters ==
  ASSUME Init PROVE MarksOK /\ CountersMatchRecords
<1>1. /\ counters = NoDelta /\ ring = EmptyRing /\ uncounted = {}
      /\ pc = [b \in Backends |-> "idle"]
  BY DEF Init
<1>2. MarksOK
  BY <1>1 DEF MarksOK
<1>3. Accepted = 0 /\ Rejected = 0 /\ Ended = 0
  <2>1. TInv
    BY InitTypes
  <2>2. ring.count = 0
    BY <1>1, EmptyRingOK
  <2>3. DOMAIN Log = {}
    BY <2>1, <2>2, LogType
  <2> QED
    BY <2>3, EmptyTallies
<1>4. Failing = 0 /\ Ending = 0
  <2>1. \A b \in Backends : pc[b] # "append failure" /\ pc[b] # "append result"
    BY <1>1
  <2>2. InFlight("append failure") = {} /\ InFlight("append result") = {}
    BY <2>1 DEF InFlight
  <2> QED
    BY <2>2, EmptyFlight
<1>5. counters["accepted"] = 0 /\ counters["rejected"] = 0 /\ counters["actual"] = 0
  BY <1>1, NoDeltaType, TalliedNames DEF Tallied
<1>6. Saturated(0) = 0 /\ 0 + 0 = 0
  BY Bounds, SaturatedType
<1> QED
  BY <1>2, <1>3, <1>4, <1>5, <1>6, CountersMatchIs

LEMMA NextCounters ==
  ASSUME TInv, MarksOK, CountersMatchRecords, [Next]_vars
  PROVE  MarksOK' /\ CountersMatchRecords'
<1>1. ASSUME NEW b \in Backends, AppendFailOpen(b) PROVE MarksOK' /\ CountersMatchRecords'
  <2> DEFINE record == Record(statement[b], <<>>)
  <2>1. /\ pc[b] = "append failure" /\ AppendRecord(b, record)
        /\ Goto(b, "idle", NoStatement) /\ UNCHANGED <<counters, records>>
    BY <1>1 DEF AppendFailOpen, End
  <2>2. RecordOf(b, record)
    BY <2>1, StatementOf, RecordType DEF RecordOf
  <2>3. Counted(b) /\ "idle" \in Labels /\ "idle" \notin Counting
    BY <2>1 DEF Counted, Labels, Counting
  <2> HIDE DEF record
  <2> QED
    BY <2>1, <2>2, <2>3, AppendCounters
<1>2. ASSUME NEW b \in Backends, AppendResult(b) PROVE MarksOK' /\ CountersMatchRecords'
  <2> DEFINE record == Record(statement[b], <<statement[b].actual>>)
  <2>1. /\ pc[b] = "append result" /\ AppendRecord(b, record)
        /\ Goto(b, "observe", statement[b]) /\ UNCHANGED <<counters, records>>
    BY <1>2 DEF AppendResult
  <2>2. /\ record \in RecordSet /\ record.kind = statement[b].kind
        /\ record.actual = <<statement[b].actual>> /\ statement[b].kind # "rejected"
    BY <2>1, StatementOf, RecordType
  <2>3. record.actual # <<>> /\ record.actual[1] = statement[b].actual
    BY <2>2, OneIsNotNone
  <2>4. RecordOf(b, record)
    BY <2>1, <2>2, <2>3 DEF RecordOf
  <2>5. Counted(b) /\ "observe" \in Labels /\ "observe" \notin Counting
    BY <2>1 DEF Counted, Labels, Counting
  <2> HIDE DEF record
  <2> QED
    BY <2>1, <2>4, <2>5, AppendCounters
<1>3. ASSUME NEW b \in Backends,
             \/ Observe(b) \/ ObservationFails(b) \/ ObservationRaises(b) \/ Settle(b)
             \/ EndUnmeasured(b) \/ RefundAborted(b) \/ CountAborted(b)
      PROVE  MarksOK' /\ CountersMatchRecords'
  BY <1>3, AsideSteps, AsideCounters
<1>4. CASE UNCHANGED vars
  <2>1. /\ UNCHANGED <<counters, ring, uncounted, records>>
        /\ UNCHANGED <<pc, statement, torn>>
    BY <1>4 DEF vars, shared, history
  <2>2. Unwrapped' <=> Unwrapped
    BY <2>1 DEF Unwrapped
  <2>3. Accepted' = Accepted /\ Rejected' = Rejected /\ Ended' = Ended
    BY <2>1, RecordsKept
  <2>4. Failing' = Failing /\ Ending' = Ending
    BY <2>1 DEF Failing, Ending, InFlight
  <2>5. CountersMatchRecords'
    BY <2>1, <2>2, <2>3, <2>4, CountersMatchIs, CountersMatchAfter
  <2> QED
    BY <2>1, <2>2, <2>5 DEF MarksOK
<1> QED
  BY <1>1, <1>2, <1>3, <1>4, DecideCounters, CountFailOpenCounters, CountResultCounters,
     ResetCounters DEF Next

\* The counters and the ring tell the same story for as long as the ring has
\* all records since the last reset: counts of decisions and of bytes are those
\* of the records, plus what is counted and not appended, minus what was
\* counted before a reset and appended after it (transactions.rs:20).
THEOREM CountersTellTheRecords == Spec => []CountersMatchRecords
<1>1. Init => MarksOK /\ CountersMatchRecords
  BY InitCounters
<1>2. TInv /\ MarksOK /\ CountersMatchRecords /\ [Next]_vars
        => MarksOK' /\ CountersMatchRecords'
  BY NextCounters
<1> QED
  BY <1>1, <1>2, Typed, PTL DEF Spec

-----------------------------------------------------------------------------
(* The ring and the registry implement AbstractTelemetry.                  *)

KnownOf(ns) == {ns[slot].scope : slot \in NameSlots} \ {<<>>}
SeenOf(ns) == [scope \in KnownOf(ns) |-> ns[FirstSlot(SlotsOf(ns, scope))].seen]

LEMMA SeenOfSlot ==
  ASSUME NEW ns, NamesTyped(ns), NEW slot \in NameSlots, ns[slot].scope # <<>>
  PROVE  ns[slot].scope \in KnownOf(ns) /\ SeenOf(ns)[ns[slot].scope] = ns[slot].seen
<1> DEFINE scope == ns[slot].scope
           slots == SlotsOf(ns, scope)
<1>1. slots = {slot}
  BY DEF SlotsOf, NamesTyped
<1>2. FirstSlot(slots) = slot
  <2>1. slots \subseteq NameSlots /\ slots # {}
    BY <1>1
  <2> HIDE DEF slots
  <2> QED
    BY <1>1, <2>1, LeastSlot
<1>3. scope \in KnownOf(ns)
  BY DEF KnownOf
<1> QED
  BY <1>2, <1>3 DEF SeenOf

LEMMA SlotOfKnown ==
  ASSUME NEW ns, NEW scope \in KnownOf(ns)
  PROVE  scope # <<>> /\ \E slot \in NameSlots : ns[slot].scope = scope
  BY DEF KnownOf

\* The slots in use are as many as the known scopes.
LEMMA KnownIsCounted ==
  ASSUME NEW ns, NamesTyped(ns)
  PROVE  /\ IsFiniteSet(KnownOf(ns))
         /\ Cardinality(KnownOf(ns)) =
              Cardinality({slot \in NameSlots : ns[slot].scope # <<>>})
<1> DEFINE used == {slot \in NameSlots : ns[slot].scope # <<>>}
           known == KnownOf(ns)
           f == [slot \in used |-> ns[slot].scope]
<1>1. IsFiniteSet(used)
  <2>1. IsFiniteSet(NameSlots)
    BY Bounds, FS_Interval DEF NameSlots
  <2> QED
    BY <2>1, FS_Subset
<1>2. \A slot \in used : slot \in NameSlots /\ f[slot] = ns[slot].scope /\ f[slot] \in known
  BY DEF KnownOf
<1>3. \A scope \in known : \E slot \in used : f[slot] = scope
  BY DEF KnownOf
<1>4. \A slot, other \in used : f[slot] = f[other] => slot = other
  BY DEF NamesTyped
<1>5. f \in [used -> known]
  BY <1>2
<1> HIDE DEF used, known, f
<1>6. f \in Bijection(used, known)
  BY <1>3, <1>4, <1>5 DEF Bijection, Injection, Surjection, IsInjective
<1>7. IsFiniteSet(known) /\ Cardinality(known) = Cardinality(used)
  <2>1. ExistsBijection(used, known)
    BY <1>6 DEF ExistsBijection
  <2> QED
    BY <1>1, <2>1, FS_Bijection
<1> QED
  BY <1>7 DEF used, known

\* There is room for a scope that is known, or as long as a slot is free.
LEMMA DroppedWhenFull ==
  ASSUME NEW ns, NamesTyped(ns), NEW scope \in ScopeKeys
  PROVE  IF Dropped(ns, scope)
         THEN scope \notin KnownOf(ns) /\ Cardinality(KnownOf(ns)) = NameCapacity
         ELSE scope \in KnownOf(ns) \/ Cardinality(KnownOf(ns)) < NameCapacity
<1> DEFINE used == {slot \in NameSlots : ns[slot].scope # <<>>}
<1>1. Cardinality(KnownOf(ns)) = Cardinality(used)
  BY KnownIsCounted
<1>2. IsFiniteSet(NameSlots) /\ Cardinality(NameSlots) = NameCapacity
  <2> DEFINE n == NameCapacity
  <2>1. n \in Nat
    BY Bounds
  <2> HIDE DEF n
  <2>2. IsFiniteSet(1..n) /\ Cardinality(1..n) = IF 1 <= n THEN n - 1 + 1 ELSE 0
    BY <2>1, FS_Interval
  <2>3. Cardinality(1..n) = n
    BY <2>1, <2>2
  <2> QED
    BY <2>2, <2>3 DEF n, NameSlots
<1>3. scope # <<>>
  BY Zenon, TelemetryAssumption
<1>4. scope \in KnownOf(ns) <=> SlotsOf(ns, scope) # {}
  BY <1>3 DEF KnownOf, SlotsOf
<1>5. CASE Dropped(ns, scope)
  <2>1. SlotsOf(ns, scope) = {} /\ SlotsOf(ns, <<>>) = {}
    BY <1>5 DEF Dropped, NameSlot
  <2>2. used = NameSlots
    BY <2>1 DEF SlotsOf
  <2> QED
    BY <1>1, <1>2, <1>4, <1>5, <2>1, <2>2
<1>6. CASE ~Dropped(ns, scope)
  <2>1. CASE SlotsOf(ns, scope) # {}
    BY <1>4, <1>6, <2>1
  <2>2. CASE SlotsOf(ns, scope) = {}
    <3>1. PICK slot \in NameSlots : ns[slot].scope = <<>>
      BY <1>6, <2>2 DEF Dropped, NameSlot, SlotsOf
    <3>2. used \subseteq NameSlots /\ used # NameSlots
      BY <3>1
    <3> HIDE DEF used
    <3>3. Cardinality(used) < Cardinality(NameSlots)
      <4>1. used \in SUBSET NameSlots
        BY <3>2
      <4>2. IsFiniteSet(used) /\ Cardinality(used) <= Cardinality(NameSlots)
            /\ Cardinality(used) # Cardinality(NameSlots)
        BY <1>2, <3>2, <4>1, FS_Subset, Zenon
      <4>3. Cardinality(used) \in Nat /\ Cardinality(NameSlots) \in Nat
        BY <1>2, <4>2, FS_CardinalityType
      <4> QED
        BY <4>2, <4>3
    <3> QED
      BY <1>1, <1>2, <1>6, <3>3
  <2> QED
    BY <2>1, <2>2
<1> QED
  BY <1>5, <1>6

\* A scope that is recorded is known, and counted once more.
LEMMA SeenAfter ==
  ASSUME NEW ns, NamesTyped(ns), NEW scope \in ScopeKeys, ~Dropped(ns, scope)
  PROVE  LET new == RecordScopeName(ns, scope) IN
         /\ KnownOf(new) = KnownOf(ns) \cup {scope}
         /\ \A s \in KnownOf(ns) : s # scope => SeenOf(new)[s] = SeenOf(ns)[s]
         /\ SeenOf(new)[scope] =
              IF scope \in KnownOf(ns) THEN Saturated(SeenOf(ns)[scope] + 1) ELSE 1
<1> DEFINE new == RecordScopeName(ns, scope)
<1>1. PICK slot \in NameSlots :
        /\ new = [ns EXCEPT ![slot] = [scope |-> scope,
                                       seen |-> Saturated(ns[slot].seen + 1)]]
        /\ \/ ns[slot].scope = scope
           \/ ns[slot].scope = <<>> /\ \A other \in NameSlots : ns[other].scope # scope
  BY RecordedName
<1>2. NamesTyped(new)
  BY NamesType
<1> HIDE DEF new
<1>3. scope # <<>>
  BY Zenon, TelemetryAssumption
<1>4. /\ new[slot] = [scope |-> scope, seen |-> Saturated(ns[slot].seen + 1)]
      /\ \A other \in NameSlots : other # slot => new[other] = ns[other]
  BY <1>1 DEF NamesTyped
<1>5. new[slot].scope = scope /\ new[slot].seen = Saturated(ns[slot].seen + 1)
  BY <1>4
<1>6. \A other \in NameSlots : other # slot => new[other].scope = ns[other].scope
                                               /\ new[other].seen = ns[other].seen
  BY <1>4
<1>7. ns[slot].scope = scope \/ ns[slot].scope = <<>>
  BY <1>1
<1>8. KnownOf(new) = KnownOf(ns) \cup {scope}
  <2>1. ASSUME NEW s \in KnownOf(new) PROVE s \in KnownOf(ns) \cup {scope}
    <3>1. PICK other \in NameSlots : new[other].scope = s /\ s # <<>>
      BY <2>1, SlotOfKnown
    <3>2. CASE other = slot
      BY <1>5, <3>1, <3>2
    <3>3. CASE other # slot
      BY <1>6, <3>1, <3>3 DEF KnownOf
    <3> QED
      BY <3>2, <3>3
  <2>2. ASSUME NEW s \in KnownOf(ns), s # scope PROVE s \in KnownOf(new)
    <3>1. PICK other \in NameSlots : ns[other].scope = s /\ s # <<>>
      BY <2>2, SlotOfKnown
    <3>2. other # slot
      BY <1>7, <2>2, <3>1
    <3>3. new[other].scope = s
      BY <1>6, <3>1, <3>2
    <3> QED
      BY <3>1, <3>3 DEF KnownOf
  <2>3. scope \in KnownOf(new)
    BY <1>3, <1>5 DEF KnownOf
  <2> QED
    BY <2>1, <2>2, <2>3
<1>9. ASSUME NEW s \in KnownOf(ns), s # scope PROVE SeenOf(new)[s] = SeenOf(ns)[s]
  <2>1. PICK other \in NameSlots : ns[other].scope = s /\ s # <<>>
    BY <1>9, SlotOfKnown
  <2>2. other # slot
    BY <1>7, <1>9, <2>1
  <2>3. new[other].scope = s /\ new[other].seen = ns[other].seen
    BY <1>6, <2>1, <2>2
  <2>4. SeenOf(ns)[s] = ns[other].seen
    BY <2>1, SeenOfSlot
  <2>5. SeenOf(new)[s] = new[other].seen
    BY <1>2, <2>1, <2>3, SeenOfSlot
  <2> QED
    BY <2>3, <2>4, <2>5
<1>10. SeenOf(new)[scope] = Saturated(ns[slot].seen + 1)
  <2>1. SeenOf(new)[new[slot].scope] = new[slot].seen
    BY <1>2, <1>3, <1>5, SeenOfSlot
  <2> QED
    BY <1>5, <2>1
<1>11. CASE scope \in KnownOf(ns)
  <2>1. ns[slot].scope = scope
    BY <1>1, <1>11, SlotOfKnown
  <2>2. SeenOf(ns)[scope] = ns[slot].seen
    BY <1>3, <2>1, SeenOfSlot
  <2> QED
    BY <1>8, <1>9, <1>10, <1>11, <2>2 DEF new
<1>12. CASE scope \notin KnownOf(ns)
  <2>1. ns[slot].scope = <<>>
    BY <1>1, <1>3, <1>12, SeenOfSlot
  <2>2. ns[slot].seen = 0
    BY <2>1 DEF NamesTyped
  <2>3. Saturated(0 + 1) = 1
    BY Bounds, SaturatedType
  <2> QED
    BY <1>8, <1>9, <1>10, <1>12, <2>2, <2>3 DEF new
<1> QED
  BY <1>11, <1>12

-----------------------------------------------------------------------------
(* The steps of AbstractTelemetry.                                         *)

LEMMA MappedLog == Log = LogOf(ring) /\ Log' = LogOf(ring')
  BY DEF Log, LogOf

LEMMA MappedSeen ==
  /\ [scope \in Known |-> names[FirstSlot(SlotsOf(names, scope))].seen] = SeenOf(names)
  /\ [scope \in Known |-> names[FirstSlot(SlotsOf(names, scope))].seen]' = SeenOf(names')
  BY DEF Known, KnownOf, SeenOf, SlotsOf

LEMMA SameCardinality == \A S : Abstract!Cardinality(S) = Cardinality(S)
  BY DEF Abstract!Cardinality, Cardinality

LEMMA AtMostSaturates == \A n : Abstract!AtMost(n) = Saturated(n)
  BY DEF Abstract!AtMost, Saturated, Least

LEMMA LogStep ==
  ASSUME TInv, NEW record \in RecordSet, ring' = RecordRecentDecision(ring, record)
  PROVE  Abstract!Log(record)
<1>1. RingTyped(ring) /\ RingOK(ring) /\ \A i \in 1..ring.count : At(ring, i) \in RecordSet
  BY DEF TInv, RingTyped
<1>2. ring.count \in Nat /\ ring.count <= RingCapacity /\ RingCapacity \in Nat
  BY <1>1, RingNumbers, Bounds
<1>3. CASE RingCapacity = 0
  <2>1. ring' = ring
    BY <1>3 DEF RecordRecentDecision
  <2>2. Log' = Log
    BY <2>1, MappedLog
  <2> QED
    BY <1>3, <2>1, <2>2 DEF Abstract!Log
<1>4. CASE RingCapacity # 0 /\ ring.head = MaxU64
  <2>1. record # Blank
    BY BlankIsNoRecord
  <2>2. ring'.head = 1 /\ LogOf(ring') = <<record>>
    BY <1>1, <1>4, <2>1, LogRecords
  <2> QED
    BY <1>4, <2>2, MappedLog DEF Abstract!Log
<1>5. CASE RingCapacity # 0 /\ ring.head # MaxU64
  <2> DEFINE longer == Append(Log, record)
  <2>1. Len(longer) = ring.count + 1
    <3>1. Log \in Seq(RecordSet) /\ Len(Log) = ring.count
      BY <1>2, LogType, FunctionIsSequence
    <3> QED
      BY <3>1
  <2>2. ring'.head = ring.head + 1
    BY <1>1, <1>5, RingGrows
  <2>3. Log' = IF ring.count < RingCapacity THEN longer ELSE Tail(longer)
    <3>1. ring.count < RingCapacity => LogOf(ring') = longer
      BY <1>1, <1>5, RingGrows, MappedLog
    <3>2. ring.count = RingCapacity => LogOf(ring') = Tail(longer)
      BY <1>1, <1>5, RingGrows, MappedLog
    <3> HIDE DEF longer
    <3> QED
      BY <1>2, <3>1, <3>2, MappedLog
  <2> HIDE DEF longer
  <2>4. Len(longer) > RingCapacity <=> ~(ring.count < RingCapacity)
    BY <1>2, <2>1
  <2>5. Log' = Abstract!Newest(longer)
    BY <2>3, <2>4 DEF Abstract!Newest
  <2> QED
    BY <1>5, <2>2, <2>5 DEF Abstract!Log, longer
<1> QED
  BY <1>3, <1>4, <1>5

LEMMA DecideStep ==
  ASSUME TInv, NEW b \in Backends, NEW s \in Admissions, Decide(b, s)
  PROVE  Abstract!Decide(Record(s, <<>>), s.scope)
<1> DEFINE record == Record(s, <<>>)
           scope == s.scope
           known == KnownOf(names)
           drops == counters["dropped"]
<1>1. s \in StatementSet /\ scope \in ScopeKeys
  BY AdmissionType
<1>2. /\ ring' = RecordRecentDecision(ring, record)
      /\ names' = RecordScopeName(names, scope)
      /\ counters' = CountersAfterDecision(s)
  BY DEF Decide
<1>3. Abstract!Log(record)
  BY <1>1, <1>2, RecordType, LogStep
<1>4. NamesTyped(names) /\ counters \in [CounterNames -> 0..MaxU64]
  BY DEF TInv
<1>5. DOMAIN SeenOf(names) = known
  BY DEF SeenOf
<1>6. CASE Dropped(names, scope)
  <2>1. names' = names
    BY <1>2, <1>6 DEF RecordScopeName
  <2>2. counters'["dropped"] = Saturated(drops + 1)
    BY <1>1, <1>2, <1>4, <1>6, DecisionCounts
  <2>3. scope \notin known /\ Cardinality(known) = NameCapacity
    BY <1>1, <1>4, <1>6, DroppedWhenFull
  <2>4. SeenOf(names') = SeenOf(names)
    BY <2>1
  <2> HIDE DEF record, scope, known
  <2>5. Abstract!Decide(record, scope)
    BY <1>3, <1>5, <2>2, <2>3, <2>4, MappedSeen, AtMostSaturates,
       SameCardinality DEF Abstract!Decide
  <2> QED
    BY <2>5 DEF record, scope
<1>7. CASE ~Dropped(names, scope)
  <2> DEFINE later == [t \in known \cup {scope} |->
                         IF t # scope THEN SeenOf(names)[t]
                         ELSE IF t \in known THEN Abstract!AtMost(SeenOf(names)[t] + 1)
                         ELSE 1]
  <2>1. counters'["dropped"] = drops
    <3>1. counters'["dropped"] = Saturated(drops + 0)
      BY <1>1, <1>2, <1>4, <1>7, DecisionCounts
    <3>2. drops \in Nat /\ drops <= MaxU64
      BY TalliesType DEF Tallied
    <3>3. Saturated(drops) = drops /\ drops + 0 = drops
      BY <3>2, SaturatedType
    <3> QED
      BY <3>1, <3>3
  <2>2. scope \in known \/ Cardinality(known) < NameCapacity
    BY <1>1, <1>4, <1>7, DroppedWhenFull
  <2>3. KnownOf(names') = known \cup {scope}
    BY <1>1, <1>2, <1>4, <1>7, SeenAfter
  <2>4. \A t \in known : t # scope => SeenOf(names')[t] = SeenOf(names)[t]
    BY <1>1, <1>2, <1>4, <1>7, SeenAfter
  <2>5. SeenOf(names')[scope] =
          IF scope \in known THEN Saturated(SeenOf(names)[scope] + 1) ELSE 1
    BY <1>1, <1>2, <1>4, <1>7, SeenAfter
  <2>6. SeenOf(names') = [t \in KnownOf(names') |-> SeenOf(names')[t]]
    BY DEF SeenOf
  <2> HIDE DEF record, scope, known
  <2>7. SeenOf(names') = later
    <3>1. \A t \in known \cup {scope} : SeenOf(names')[t] = later[t]
      BY <2>4, <2>5, AtMostSaturates
    <3> QED
      BY <2>3, <2>6, <3>1
  <2>8. Abstract!Decide(record, scope)
    BY <1>3, <1>5, <2>1, <2>2, <2>7, MappedSeen, SameCardinality
       DEF Abstract!Decide
  <2> QED
    BY <2>8 DEF record, scope
<1> QED
  BY <1>6, <1>7

\* A record that is appended after its statement was counted.
LEMMA NoteStep ==
  ASSUME TInv, NEW b \in Backends, NEW record \in RecordSet, AppendRecord(b, record),
         UNCHANGED <<counters, names>>
  PROVE  Abstract!Note(record)
<1>1. Abstract!Log(record)
  BY LogStep DEF AppendRecord
<1>2. SeenOf(names') = SeenOf(names)
  OBVIOUS
<1> QED
  BY <1>1, <1>2, MappedSeen DEF Abstract!Note

LEMMA SeenOfNoNames == SeenOf(NoNames) = [scope \in {} |-> 0]
<1>1. KnownOf(NoNames) = {}
  BY DEF KnownOf, NoNames, NoName
<1> QED
  BY <1>1 DEF SeenOf

LEMMA EmptyLogIs == LogOf(EmptyRing) = <<>>
<1>1. RingOK(EmptyRing) /\ EmptyRing.count = 0
  BY EmptyRingOK
<1>2. \A i \in 1..EmptyRing.count : At(EmptyRing, i) \in {}
  BY <1>1
<1>3. LogOf(EmptyRing) \in [1..0 -> {}]
  BY <1>1, <1>2, LogOfRing
<1>4. LogOf(EmptyRing) \in Seq({}) /\ Len(LogOf(EmptyRing)) = 0
  BY <1>3, FunctionIsSequence
<1> QED
  BY <1>4, EmptySeq

LEMMA ResetStep ==
  ASSUME ResetStats
  PROVE  Abstract!Reset
<1>1. counters' = NoDelta /\ ring' = EmptyRing /\ names' = NoNames
  BY DEF ResetStats, RingAfterReset, NamesAfterReset
<1>2. counters'["dropped"] = 0
  BY <1>1, NoDeltaType, TalliedNames DEF Tallied
<1>3. ring'.head = 0
  BY <1>1, EmptyRingOK
<1> QED
  BY <1>1, <1>2, <1>3, MappedLog, MappedSeen, EmptyLogIs, SeenOfNoNames DEF Abstract!Reset

\* A step that leaves the ring, the names and the dropped names alone.
LEMMA AbstractStutter ==
  ASSUME UNCHANGED <<ring, names>>, counters'["dropped"] = counters["dropped"]
  PROVE  UNCHANGED Abstract!vars
<1>1. Log' = Log /\ ring'.head = ring.head
  BY MappedLog
<1>2. SeenOf(names') = SeenOf(names)
  OBVIOUS
<1> QED
  BY <1>1, <1>2, MappedSeen DEF Abstract!vars

LEMMA InitIsAbstract == ASSUME Init PROVE Abstract!Init
<1>1. counters = NoDelta /\ ring = EmptyRing /\ names = NoNames
  BY DEF Init
<1>2. counters["dropped"] = 0
  BY <1>1, NoDeltaType, TalliedNames DEF Tallied
<1>3. ring.head = 0
  BY <1>1, EmptyRingOK
<1> QED
  BY <1>1, <1>2, <1>3, MappedLog, MappedSeen, EmptyLogIs, SeenOfNoNames DEF Abstract!Init

LEMMA NextIsAbstract ==
  ASSUME TInv, [Next]_vars
  PROVE  [Abstract!Next]_(Abstract!vars)
<1>1. ASSUME NEW b \in Backends, NEW s \in Admissions, Decide(b, s) PROVE Abstract!Next
  <2>1. Record(s, <<>>) \in RecordSet /\ s.scope \in ScopeKeys
    BY <1>1, AdmissionType, RecordType
  <2>2. Abstract!Decide(Record(s, <<>>), s.scope)
    BY <1>1, DecideStep
  <2> QED
    BY <2>1, <2>2 DEF Abstract!Next, RecordSet
<1>2. ASSUME NEW b \in Backends, NEW s \in Failures, CountFailOpen(b, s)
      PROVE  UNCHANGED Abstract!vars
  <2>1. /\ UNCHANGED <<ring, names>> /\ counters' = AddCounters(DeltaForDecision(s))
    BY <1>2 DEF CountFailOpen
  <2>2. DeltaForDecision(s) \in Deltas /\ DeltaForDecision(s)["dropped"] = 0
    BY <1>2, FailureType, DecisionDelta
  <2>3. "dropped" \in CounterNames
    BY DEF CounterNames
  <2> QED
    BY <2>1, <2>2, <2>3, ZeroDelta, AbstractStutter
<1>3. ASSUME NEW b \in Backends, AppendFailOpen(b) PROVE Abstract!Next
  <2> DEFINE record == Record(statement[b], <<>>)
  <2>1. pc[b] = "append failure" /\ AppendRecord(b, record) /\ UNCHANGED <<counters, names>>
    BY <1>3 DEF AppendFailOpen
  <2>2. record \in RecordSet
    BY <2>1, StatementOf, RecordType
  <2> HIDE DEF record
  <2>3. Abstract!Note(record)
    BY <2>1, <2>2, NoteStep
  <2> QED
    BY <2>2, <2>3 DEF Abstract!Next, RecordSet
<1>4. ASSUME NEW b \in Backends, NEW actual \in Sizes, CountResult(b, actual)
      PROVE  UNCHANGED Abstract!vars
  <2> DEFINE s == [statement[b] EXCEPT !.actual = actual]
  <2>1. /\ pc[b] = "running" /\ UNCHANGED <<ring, names>>
        /\ counters' = AddCounters(DeltaForResult(s))
    BY <1>4 DEF CountResult
  <2>2. s \in StatementSet
    BY <2>1, StatementOf DEF StatementSet
  <2> HIDE DEF s
  <2>3. DeltaForResult(s) \in Deltas /\ DeltaForResult(s)["dropped"] = 0
    BY <2>2, ResultDelta
  <2>4. "dropped" \in CounterNames
    BY DEF CounterNames
  <2> QED
    BY <2>1, <2>3, <2>4, ZeroDelta, AbstractStutter
<1>5. ASSUME NEW b \in Backends, AppendResult(b) PROVE Abstract!Next
  <2> DEFINE record == Record(statement[b], <<statement[b].actual>>)
  <2>1. pc[b] = "append result" /\ AppendRecord(b, record) /\ UNCHANGED <<counters, names>>
    BY <1>5 DEF AppendResult
  <2>2. record \in RecordSet
    BY <2>1, StatementOf, RecordType
  <2> HIDE DEF record
  <2>3. Abstract!Note(record)
    BY <2>1, <2>2, NoteStep
  <2> QED
    BY <2>2, <2>3 DEF Abstract!Next, RecordSet
<1>6. ASSUME NEW b \in Backends, Aside(b) PROVE UNCHANGED Abstract!vars
  <2>1. UNCHANGED <<ring, names>>
    BY <1>6 DEF Aside
  <2>2. counters'["dropped"] = counters["dropped"]
    BY <1>6, AsideCounts DEF Tallied
  <2> QED
    BY <2>1, <2>2, AbstractStutter
<1>7. CASE ResetStats
  BY <1>7, ResetStep DEF Abstract!Next
<1>8. CASE UNCHANGED vars
  BY <1>8, AbstractStutter DEF vars, shared
<1> QED
  BY <1>1, <1>2, <1>3, <1>4, <1>5, <1>6, <1>7, <1>8, AsideSteps DEF Next

\* The ring is the log of the newest records, in order, and the registry the
\* map of the scopes seen first, with the others counted: also when the ring
\* wraps, when its numbers are used up and when the registry is full
\* (record_recent_decision_locked, record_scope_name_in_slice).
THEOREM AbstractTelemetryImplemented == Spec => ImplementsAbstractTelemetry
<1>1. Init => Abstract!Init
  BY InitIsAbstract
<1>2. TInv /\ [Next]_vars => [Abstract!Next]_(Abstract!vars)
  BY NextIsAbstract
<1> QED
  BY <1>1, <1>2, Typed, PTL DEF Spec, ImplementsAbstractTelemetry, Abstract!Spec
=============================================================================
