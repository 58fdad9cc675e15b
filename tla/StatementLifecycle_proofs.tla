---------------------- MODULE StatementLifecycle_proofs ----------------------
(***************************************************************************)
(* That every active statement is settled at most once, in its own         *)
(* transaction, that lookups are not admitted, and that the stacks mirror  *)
(* the calls while these end in order: for any number of statements, calls *)
(* and transactions and every set of disturbances.                         *)
(***************************************************************************)
EXTENDS StatementLifecycle, SequenceTheorems, FiniteSetTheorems, TLAPS

(***************************************************************************)
(* Stacks: what pushing, popping, cutting and changing the top do to a     *)
(* sequence.                                                               *)
(***************************************************************************)
LEMMA Pushed ==
  ASSUME NEW S, NEW s \in Seq(S), NEW x \in S
  PROVE  /\ Append(s, x) \in Seq(S)
         /\ Append(s, x) # <<>>
         /\ Len(Append(s, x)) = Len(s) + 1
         /\ DOMAIN s = 1..Len(s) /\ DOMAIN Append(s, x) = 1..(Len(s) + 1)
         /\ Len(s) \in Nat
         /\ \A i \in 1..Len(s) : Append(s, x)[i] = s[i]
         /\ Append(s, x)[Len(s) + 1] = x
  BY LenProperties

LEMMA Cut ==
  ASSUME NEW S, NEW s \in Seq(S), NEW n \in 0..Len(s)
  PROVE  /\ SubSeq(s, 1, n) \in Seq(S)
         /\ Len(SubSeq(s, 1, n)) = n
         /\ DOMAIN s = 1..Len(s) /\ DOMAIN SubSeq(s, 1, n) = 1..n
         /\ Len(s) \in Nat
         /\ \A i \in 1..n : SubSeq(s, 1, n)[i] = s[i]
<1>1. Len(s) \in Nat /\ DOMAIN s = 1..Len(s) /\ \A i \in 1..n : s[i] \in S
  BY LenProperties, ElementOfSeq
<1>2. SubSeq(s, 1, n) \in Seq(S)
  BY <1>1, SubSeqProperties
<1>3. Len(SubSeq(s, 1, n)) = n /\ \A i \in 1..n : SubSeq(s, 1, n)[i] = s[i]
  BY <1>1, SubSeqProperties
<1> QED
  BY <1>1, <1>2, <1>3, LenProperties

LEMMA Popped ==
  ASSUME NEW S, NEW s \in Seq(S), s # <<>>
  PROVE  /\ Len(s) \in Nat \ {0} /\ DOMAIN s = 1..Len(s)
         /\ Front(s) = SubSeq(s, 1, Len(s) - 1)
         /\ Len(s) - 1 \in 0..Len(s)
         /\ Front(s) \in Seq(S)
         /\ Len(Front(s)) = Len(s) - 1
         /\ DOMAIN Front(s) = 1..(Len(s) - 1)
         /\ \A i \in 1..(Len(s) - 1) : Front(s)[i] = s[i]
         /\ Last(s) = s[Len(s)] /\ Last(s) \in S
<1>1. Len(s) \in Nat \ {0} /\ DOMAIN s = 1..Len(s)
  BY EmptySeq, LenProperties
<1>2. Len(s) - 1 \in 0..Len(s) /\ Len(s) \in 1..Len(s)
  BY <1>1
<1>3. Front(s) = SubSeq(s, 1, Len(s) - 1) /\ Last(s) = s[Len(s)]
  BY DEF Front, Last
<1> QED
  BY <1>1, <1>2, <1>3, Cut, ElementOfSeq

LEMMA Replaced ==
  ASSUME NEW S, NEW s \in Seq(S), s # <<>>, NEW x \in S
  PROVE  /\ Append(Front(s), x) \in Seq(S)
         /\ Len(Append(Front(s), x)) = Len(s)
         /\ DOMAIN Append(Front(s), x) = 1..Len(s)
         /\ \A i \in 1..(Len(s) - 1) : Append(Front(s), x)[i] = s[i]
         /\ Append(Front(s), x)[Len(s)] = x
<1>1. Len(s) \in Nat \ {0} /\ Front(s) \in Seq(S) /\ Len(Front(s)) = Len(s) - 1
  BY Popped
<1>2. Append(Front(s), x)[Len(Front(s)) + 1] = x
  BY <1>1, Pushed
<1> QED
  BY <1>1, <1>2, Pushed, Popped
------------------------------------------------------------------------------
(***************************************************************************)
(* The calls in progress.                                                  *)
(***************************************************************************)
\* The calls on `stack' when `n' statements have been admitted: a call has its
\* number from the end of its admission on, what it calls later has a larger
\* one, and what runs under a guard is not admitted.
CallOK(c, n) ==
  /\ c.id <= n
  /\ c.phase = "admitting" => c.id = 0
  /\ c.kind = "lookup" => c.id = 0 /\ c.phase = "running"
  /\ c.owes # 0 <=> c.phase = "completing"

CallsOK(stack, n) ==
  /\ \A i \in DOMAIN stack : CallOK(stack[i], n)
  /\ \A i, j \in DOMAIN stack : i < j =>
       /\ Guarded(stack[i]) => stack[j].id = 0 /\ stack[j].phase # "admitting"
       /\ stack[j].id # 0 => stack[i].id < stack[j].id

GuardedCalls(stack) == {i \in DOMAIN stack : Guarded(stack[i])}
GuardsOf(stack) == Cardinality(GuardedCalls(stack))
GuardOf(c) == IF Guarded(c) THEN 1 ELSE 0

LEMMA EmptyCallsOK ==
  ASSUME NEW n \in Nat
  PROVE  CallsOK(<<>>, n) /\ GuardsOf(<<>>) = 0
<1>1. GuardedCalls(<<>>) = {}
  BY DEF GuardedCalls
<1> QED
  BY <1>1, FS_EmptySet DEF CallsOK, GuardsOf

\* The guards of a stack are those of the first m calls and those above them.
LEMMA GuardsCut ==
  ASSUME NEW stack \in Seq(Call), NEW m \in 0..Len(stack)
  PROVE  /\ GuardsOf(stack) \in 0..Len(stack)
         /\ GuardsOf(SubSeq(stack, 1, m)) \in 0..GuardsOf(stack)
         /\ Cardinality({i \in (m + 1)..Len(stack) : Guarded(stack[i])}) =
              GuardsOf(stack) - GuardsOf(SubSeq(stack, 1, m))
<1> DEFINE above == {i \in (m + 1)..Len(stack) : Guarded(stack[i])}
           t == SubSeq(stack, 1, m)
<1>1. /\ DOMAIN stack = 1..Len(stack) /\ DOMAIN t = 1..m
      /\ Len(stack) \in Nat /\ m \in Nat
      /\ \A i \in 1..m : t[i] = stack[i]
  BY Cut
<1> HIDE DEF t
<1>2. GuardedCalls(stack) = above \cup GuardedCalls(t) /\ above \cap GuardedCalls(t) = {}
  BY <1>1 DEF GuardedCalls
<1>3. GuardedCalls(stack) \in SUBSET (1..Len(stack))
  BY <1>1 DEF GuardedCalls
<1>4. IsFiniteSet(1..Len(stack)) /\ Cardinality(1..Len(stack)) = Len(stack)
  <2>1. 1 \in Int /\ Len(stack) \in Int
    BY <1>1
  <2>2. /\ IsFiniteSet(1..Len(stack))
        /\ Cardinality(1..Len(stack)) = IF 1 > Len(stack) THEN 0 ELSE Len(stack) - 1 + 1
    BY <2>1, FS_Interval
  <2> QED
    BY <1>1, <2>2
<1>5. IsFiniteSet(GuardedCalls(stack)) /\ Cardinality(GuardedCalls(stack)) <= Len(stack)
  BY <1>3, <1>4, FS_Subset
<1>6. IsFiniteSet(above) /\ IsFiniteSet(GuardedCalls(t))
  BY <1>2, <1>5, FS_Subset
<1> HIDE DEF above
<1>7. Cardinality(above \cup GuardedCalls(t)) =
        Cardinality(above) + Cardinality(GuardedCalls(t)) - Cardinality(above \cap GuardedCalls(t))
  BY <1>6, FS_Union
<1>8. /\ Cardinality(above \cap GuardedCalls(t)) = 0
      /\ Cardinality(above) \in Nat /\ Cardinality(GuardedCalls(t)) \in Nat
      /\ Cardinality(GuardedCalls(stack)) \in Nat
  BY <1>2, <1>5, <1>6, FS_EmptySet, FS_CardinalityType
<1> QED
  BY <1>1, <1>2, <1>5, <1>7, <1>8 DEF GuardsOf, t, above

LEMMA GuardsPushed ==
  ASSUME NEW stack \in Seq(Call), NEW c \in Call
  PROVE  GuardsOf(Append(stack, c)) = GuardsOf(stack) + GuardOf(c)
<1> DEFINE t == Append(stack, c)
           k == Len(stack) + 1
<1>1. /\ DOMAIN stack = 1..Len(stack) /\ DOMAIN t = 1..k
      /\ Len(stack) \in Nat
      /\ \A i \in 1..Len(stack) : t[i] = stack[i]
      /\ t[k] = c
  BY Pushed
<1> HIDE DEF t
<1>2. k \notin GuardedCalls(stack) /\ GuardedCalls(stack) \in SUBSET (1..Len(stack))
  BY <1>1 DEF GuardedCalls
<1>3. IsFiniteSet(GuardedCalls(stack))
  <2>1. 1 \in Int /\ Len(stack) \in Int
    BY <1>1
  <2>2. IsFiniteSet(1..Len(stack))
    BY <2>1, FS_Interval
  <2> QED
    BY <1>2, <2>2, FS_Subset
<1>4. GuardsOf(stack) \in Nat
  BY <1>3, FS_CardinalityType DEF GuardsOf
<1>5. CASE Guarded(c)
  <2>1. GuardedCalls(t) = GuardedCalls(stack) \cup {k}
    BY <1>1, <1>5 DEF GuardedCalls
  <2> QED
    BY <1>2, <1>3, <1>5, <2>1, FS_AddElement DEF t, GuardsOf, GuardOf
<1>6. CASE ~Guarded(c)
  <2>1. GuardedCalls(t) = GuardedCalls(stack)
    BY <1>1, <1>6 DEF GuardedCalls
  <2> QED
    BY <1>4, <1>6, <2>1 DEF t, GuardsOf, GuardOf
<1> QED
  BY <1>5, <1>6

LEMMA GuardsPopped ==
  ASSUME NEW stack \in Seq(Call), stack # <<>>
  PROVE  /\ GuardsOf(stack) = GuardsOf(Front(stack)) + GuardOf(Last(stack))
         /\ GuardsOf(Front(stack)) \in Nat
<1> DEFINE k == Len(stack)
           above == {i \in ((k - 1) + 1)..k : Guarded(stack[i])}
<1>1. /\ k \in Nat \ {0} /\ k - 1 \in 0..k
      /\ Front(stack) = SubSeq(stack, 1, k - 1) /\ Last(stack) = stack[k]
  BY Popped
<1>2. /\ GuardsOf(stack) \in 0..k /\ GuardsOf(Front(stack)) \in 0..GuardsOf(stack)
      /\ Cardinality(above) = GuardsOf(stack) - GuardsOf(Front(stack))
  BY <1>1, GuardsCut
<1>3. Cardinality(above) = GuardOf(Last(stack))
  <2>1. CASE Guarded(stack[k])
    <3>1. above = {k}
      BY <1>1, <2>1
    <3> QED
      BY <1>1, <2>1, <3>1, FS_Singleton DEF GuardOf
  <2>2. CASE ~Guarded(stack[k])
    <3>1. above = {}
      BY <1>1, <2>2
    <3> QED
      BY <1>1, <2>2, <3>1, FS_EmptySet DEF GuardOf
  <2> QED
    BY <2>1, <2>2
<1>4. GuardOf(Last(stack)) \in {0, 1} /\ GuardsOf(Front(stack)) \in Nat
  BY <1>2 DEF GuardOf
<1> QED
  BY <1>1, <1>2, <1>3, <1>4

\* A call is put on the stack: a new one, or the end of a cursor's executor.
LEMMA PushCallOK ==
  ASSUME NEW n \in Nat, NEW stack \in Seq(Call), CallsOK(stack, n),
         NEW c \in Call, c.id = 0, CallOK(c, n),
         c.phase = "admitting" => GuardedCalls(stack) = {}
  PROVE  CallsOK(Append(stack, c), n)
<1> DEFINE t == Append(stack, c)
<1>1. /\ DOMAIN stack = 1..Len(stack) /\ DOMAIN t = 1..(Len(stack) + 1)
      /\ Len(stack) \in Nat
      /\ \A i \in 1..Len(stack) : t[i] = stack[i]
      /\ t[Len(stack) + 1] = c
  BY Pushed
<1> HIDE DEF t
<1>2. \A i \in 1..(Len(stack) + 1) : i \in 1..Len(stack) \/ i = Len(stack) + 1
  BY <1>1
<1>3. \A i \in DOMAIN t : CallOK(t[i], n)
  BY <1>1, <1>2 DEF CallsOK
<1>4. ASSUME NEW i \in DOMAIN t, NEW j \in DOMAIN t, i < j
      PROVE  /\ Guarded(t[i]) => t[j].id = 0 /\ t[j].phase # "admitting"
             /\ t[j].id # 0 => t[i].id < t[j].id
  <2>1. i \in 1..Len(stack)
    BY <1>1, <1>4
  <2>2. CASE j \in 1..Len(stack)
    BY <1>1, <1>4, <2>1, <2>2 DEF CallsOK
  <2>3. CASE j = Len(stack) + 1
    BY <1>1, <2>1, <2>3 DEF GuardedCalls
  <2> QED
    BY <1>1, <1>2, <2>2, <2>3
<1> QED
  BY <1>3, <1>4 DEF t, CallsOK

LEMMA CutCallsOK ==
  ASSUME NEW n \in Nat, NEW stack \in Seq(Call), CallsOK(stack, n),
         NEW m \in 0..Len(stack)
  PROVE  CallsOK(SubSeq(stack, 1, m), n)
<1> DEFINE t == SubSeq(stack, 1, m)
<1>1. /\ DOMAIN stack = 1..Len(stack) /\ DOMAIN t = 1..m
      /\ Len(stack) \in Nat
      /\ \A i \in 1..m : t[i] = stack[i]
  BY Cut
<1> HIDE DEF t
<1>2. CallsOK(t, n)
  BY <1>1 DEF CallsOK
<1> QED
  BY <1>2 DEF t

\* The call on top changes: its admission ends, with a number or without, or its
\* completion begins.
LEMMA ReplaceCallOK ==
  ASSUME NEW n \in Nat, NEW stack \in Seq(Call), CallsOK(stack, n), stack # <<>>,
         NEW c \in Call, NEW later \in Nat, n <= later, CallOK(c, later),
         c.phase # "admitting", c.id = Last(stack).id \/ c.id > n,
         c.id # Last(stack).id => Last(stack).phase = "admitting"
  PROVE  CallsOK(Append(Front(stack), c), later)
<1> DEFINE t == Append(Front(stack), c)
           k == Len(stack)
<1>1. /\ DOMAIN stack = 1..k /\ k \in Nat \ {0} /\ Last(stack) = stack[k]
      /\ DOMAIN t = 1..k /\ t[k] = c
      /\ \A i \in 1..(k - 1) : t[i] = stack[i]
  BY Popped, Replaced
<1>2. \A i \in 1..k : stack[i] \in Call
  BY ElementOfSeq
<1> HIDE DEF t, k
<1>3. \A i \in 1..k : stack[i].id \in Nat /\ stack[i].id <= n /\ CallOK(stack[i], n)
  <2> TAKE i \in 1..k
  <2>1. CallOK(stack[i], n)
    BY <1>1 DEF CallsOK
  <2>2. stack[i].id \in 0..MaxStatements
    BY <1>2 DEF Call
  <2> QED
    BY <2>1, <2>2, BoundsAssumption DEF CallOK
<1>4. \A i \in 1..k : CallOK(stack[i], later)
  BY <1>3 DEF CallOK
<1>5. \A i \in DOMAIN t : CallOK(t[i], later)
  <2> TAKE i \in DOMAIN t
  <2>1. i \in 1..(k - 1) \/ i = k
    BY <1>1
  <2> QED
    BY <1>1, <1>4, <2>1
<1>6. ASSUME NEW i \in DOMAIN t, NEW j \in DOMAIN t, i < j
      PROVE  /\ Guarded(t[i]) => t[j].id = 0 /\ t[j].phase # "admitting"
             /\ t[j].id # 0 => t[i].id < t[j].id
  <2>1. i \in 1..(k - 1) /\ i \in 1..k /\ j \in 1..k /\ t[i] = stack[i]
    BY <1>1, <1>6
  <2>2. CASE j \in 1..(k - 1)
    BY <1>1, <1>6, <2>1, <2>2 DEF CallsOK
  <2>3. CASE j = k
    <3>1. /\ Guarded(stack[i]) => stack[k].id = 0 /\ stack[k].phase # "admitting"
          /\ stack[k].id # 0 => stack[i].id < stack[k].id
      BY <1>1, <1>6, <2>1, <2>3 DEF CallsOK
    <3>2. t[j] = c /\ stack[i].id \in Nat /\ stack[i].id <= n /\ c.id \in Nat
      BY <1>1, <1>3, <2>1, <2>3, BoundsAssumption DEF Call
    <3>3. CASE c.id = stack[k].id
      BY <2>1, <3>1, <3>2, <3>3
    <3>4. CASE c.id # stack[k].id
      BY <1>1, <2>1, <3>1, <3>2, <3>4
    <3> QED
      BY <3>3, <3>4
  <2> QED
    BY <1>1, <2>1, <2>2, <2>3
<1> QED
  BY <1>5, <1>6 DEF t, CallsOK
------------------------------------------------------------------------------
(***************************************************************************)
(* Types, and the bypass guard.                                            *)
(***************************************************************************)
Control ==
  /\ TypeOK
  /\ CallsOK(calls, admitted)
  /\ bypass = GuardsOf(calls)

LEMMA ControlInit == Init => Control
<1> SUFFICES ASSUME Init PROVE Control
  OBVIOUS
<1>1. TypeOK
  <2>1. NoFate \in Fate
    BY BoundsAssumption DEF NoFate, Fate
  <2>2. fate \in [Ids -> Fate] /\ ended \in [Ids -> {"no", "normally", "failed"}]
    BY <2>1 DEF Init
  <2>3. active \in Seq(Ids) /\ markers \in Seq(BOOLEAN) /\ calls \in Seq(Call)
        /\ Len(calls) = 0
    BY EmptySeq DEF Init
  <2>4. /\ bypass \in 0..Len(calls) /\ cursors \in Nat
        /\ xacts \in 0..MaxTransactions /\ admitted \in 0..MaxStatements
    BY <2>3, BoundsAssumption DEF Init
  <2>5. failing \in BOOLEAN /\ disturbed \in BOOLEAN /\ prepared \in BOOLEAN
    BY DEF Init
  <2> QED
    BY <2>2, <2>3, <2>4, <2>5 DEF TypeOK
<1>2. CallsOK(calls, admitted) /\ bypass = GuardsOf(calls)
  BY EmptyCallsOK DEF Init
<1> QED
  BY <1>1, <1>2 DEF Control

LEMMA ControlFacts ==
  ASSUME Control
  PROVE  /\ calls \in Seq(Call) /\ CallsOK(calls, admitted) /\ admitted \in Nat
         /\ bypass = GuardsOf(calls) /\ bypass \in Nat /\ xacts \in Nat
         /\ cursors \in Nat /\ markers \in Seq(BOOLEAN) /\ active \in Seq(Ids)
         /\ calls # <<>> => /\ Top \in Call /\ Top.id \in 0..MaxStatements
                            /\ CallOK(Top, admitted)
<1>1. /\ calls \in Seq(Call) /\ CallsOK(calls, admitted) /\ admitted \in Nat
      /\ bypass = GuardsOf(calls) /\ bypass \in Nat /\ xacts \in Nat
      /\ cursors \in Nat /\ markers \in Seq(BOOLEAN) /\ active \in Seq(Ids)
  BY BoundsAssumption, LenProperties DEF Control, TypeOK
<1>2. ASSUME calls # <<>> PROVE Top \in Call /\ CallOK(Top, admitted)
  <2>1. /\ Top = calls[Len(calls)] /\ Top \in Call /\ Len(calls) \in DOMAIN calls
    BY <1>1, <1>2, Popped DEF Top
  <2> QED
    BY <1>1, <2>1 DEF CallsOK
<1> QED
  BY <1>1, <1>2 DEF Call

\* The guards that remain when an error leaves the first m calls.
LEMMA GuardsThatRemain ==
  ASSUME Control, NEW m \in 0..Len(calls)
  PROVE  GuardsAfter(SubSeq(calls, 1, m)) = GuardsOf(SubSeq(calls, 1, m))
<1> DEFINE t == SubSeq(calls, 1, m)
<1>1. calls \in Seq(Call) /\ bypass = GuardsOf(calls) /\ bypass \in Nat
  BY ControlFacts
<1>2. DOMAIN calls = 1..Len(calls) /\ DOMAIN t = 1..m /\ Len(calls) \in Nat
  BY <1>1, Cut
<1>3. /\ Cardinality({i \in (m + 1)..Len(calls) : Guarded(calls[i])}) =
           GuardsOf(calls) - GuardsOf(t)
      /\ GuardsOf(t) \in 0..GuardsOf(calls)
  BY <1>1, GuardsCut
<1> HIDE DEF t
<1>4. DOMAIN calls \ DOMAIN t = (m + 1)..Len(calls)
  BY <1>2
<1>5. GuardsAfter(t) = Dropped(GuardsOf(calls) - GuardsOf(t))
  BY <1>3, <1>4 DEF GuardsAfter
<1> QED
  BY <1>1, <1>3, <1>5 DEF t, Dropped

LEMMA NoGuardRemains ==
  ASSUME Control
  PROVE  GuardsAfter(<<>>) = 0
<1>1. calls \in Seq(Call) /\ Len(calls) \in Nat
  BY LenProperties DEF Control, TypeOK
<1>2. SubSeq(calls, 1, 0) = <<>>
  BY SubSeqEmpty
<1>3. 0 \in 0..Len(calls)
  BY <1>1
<1>4. GuardsOf(<<>>) = 0
  BY EmptyCallsOK, 0 \in Nat
<1> QED
  BY <1>2, <1>3, <1>4, GuardsThatRemain

LEMMA FateChanged ==
  ASSUME TypeOK, NEW i \in Ids, NEW f \in Fate
  PROVE  [fate EXCEPT ![i] = f] \in [Ids -> Fate]
  BY DEF TypeOK

LEMMA SettledFate ==
  ASSUME NEW f \in Fate, NEW state \in Settled, NEW until \in Nat
  PROVE  [f EXCEPT !.state = state, !.until = until] \in Fate
<1>1. state \in {"none", "active", "completing"} \cup Settled
  OBVIOUS
<1> QED
  BY <1>1 DEF Fate

LEMMA ClosedTypes ==
  ASSUME NEW charges \in [Ids -> Fate], xacts \in Nat, NEW ids, NEW state \in Settled
  PROVE  Closed(charges, ids, state) \in [Ids -> Fate]
  BY SettledFate DEF Closed

\* What an action does to the calls and the guard.
CallsKept ==
  /\ calls' \in Seq(Call) /\ CallsOK(calls', admitted') /\ bypass' = GuardsOf(calls')
  /\ bypass' \in 0..Len(calls')

LEMMA BypassBounded ==
  ASSUME calls' \in Seq(Call), bypass' = GuardsOf(calls')
  PROVE  bypass' \in 0..Len(calls')
<1>1. Len(calls') \in Nat
  BY LenProperties
<1>2. 0 \in 0..Len(calls')
  BY <1>1
<1> QED
  BY <1>2, GuardsCut

LEMMA PushTypes ==
  ASSUME Control,
         NEW c \in Call, c.id = 0, CallOK(c, admitted),
         c.phase = "admitting" => bypass = 0,
         calls' = Append(calls, c), admitted' = admitted,
         bypass' = bypass + GuardOf(c)
  PROVE  CallsKept
<1>1. calls \in Seq(Call) /\ CallsOK(calls, admitted) /\ admitted \in Nat
      /\ bypass = GuardsOf(calls)
  BY ControlFacts
<1>2. calls' \in Seq(Call)
  BY <1>1, Pushed
<1>3. bypass = 0 => GuardedCalls(calls) = {}
  <2>1. DOMAIN calls = 1..Len(calls) /\ Len(calls) \in Nat
    BY <1>1, LenProperties
  <2>2. IsFiniteSet(GuardedCalls(calls))
    <3>1. GuardedCalls(calls) \in SUBSET (1..Len(calls)) /\ IsFiniteSet(1..Len(calls))
      BY <2>1, FS_Interval DEF GuardedCalls
    <3> QED
      BY <3>1, FS_Subset
  <2> QED
    BY <1>1, <2>2, FS_EmptySet DEF GuardsOf
<1>4. CallsOK(calls', admitted') /\ bypass' = GuardsOf(calls')
  BY <1>1, <1>3, PushCallOK, GuardsPushed
<1> QED
  BY <1>2, <1>4, BypassBounded DEF CallsKept

LEMMA ReplaceTypes ==
  ASSUME Control, calls # <<>>,
         NEW c \in Call, CallOK(c, admitted'), ~Guarded(c),
         c.id = Top.id \/ c.id > admitted, c.id # Top.id => Top.phase = "admitting",
         calls' = Append(Front(calls), c), admitted' \in Nat, admitted <= admitted',
         bypass' = IF Guarded(Top) THEN Dropped(1) ELSE bypass
  PROVE  CallsKept
<1>1. calls \in Seq(Call) /\ CallsOK(calls, admitted) /\ admitted \in Nat
      /\ bypass = GuardsOf(calls) /\ bypass \in Nat
  BY ControlFacts
<1>2. calls' \in Seq(Call) /\ Front(calls) \in Seq(Call)
  BY <1>1, Replaced, Popped
<1>3. CallsOK(calls', admitted')
  BY <1>1, ReplaceCallOK DEF Guarded, Top
<1>4. GuardsOf(calls') = GuardsOf(Front(calls)) + GuardOf(c)
  BY <1>2, GuardsPushed
<1>5. GuardsOf(calls) = GuardsOf(Front(calls)) + GuardOf(Top) /\ GuardsOf(Front(calls)) \in Nat
  BY <1>1, GuardsPopped DEF Top
<1>6. bypass' = GuardsOf(calls')
  BY <1>1, <1>4, <1>5 DEF GuardOf, Dropped
<1> QED
  BY <1>2, <1>3, <1>6, BypassBounded DEF CallsKept

LEMMA PopTypes ==
  ASSUME Control, calls # <<>>, calls' = Front(calls), admitted' = admitted,
         bypass' = IF Guarded(Top) THEN Dropped(1) ELSE bypass
  PROVE  CallsKept
<1>1. calls \in Seq(Call) /\ CallsOK(calls, admitted) /\ admitted \in Nat
      /\ bypass = GuardsOf(calls) /\ bypass \in Nat
  BY ControlFacts
<1>2. /\ calls' \in Seq(Call) /\ calls' = SubSeq(calls, 1, Len(calls) - 1)
      /\ Len(calls) - 1 \in 0..Len(calls)
  BY <1>1, Popped
<1>3. CallsOK(calls', admitted')
  BY <1>1, <1>2, CutCallsOK
<1>4. GuardsOf(calls) = GuardsOf(calls') + GuardOf(Top) /\ GuardsOf(calls') \in Nat
  BY <1>1, GuardsPopped DEF Top
<1>5. bypass' = GuardsOf(calls')
  BY <1>1, <1>4 DEF GuardOf, Dropped
<1> QED
  BY <1>2, <1>3, <1>5, BypassBounded DEF CallsKept

LEMMA EndsNormallyTypes ==
  ASSUME TypeOK, NEW id \in 0..MaxStatements
  PROVE  EndsNormally(id) \in [Ids -> {"no", "normally", "failed"}]
<1>1. id # 0 => id \in Ids
  BY BoundsAssumption DEF Ids
<1>2. ended \in [Ids -> {"no", "normally", "failed"}]
  BY DEF TypeOK
<1> QED
  BY <1>1, <1>2 DEF EndsNormally

LEMMA FailsTypes ==
  ASSUME TypeOK, NEW ids
  PROVE  Fails(ids) \in [Ids -> {"no", "normally", "failed"}]
  BY DEF TypeOK, Fails

\* The statement on top of the stack is popped, and its completion begins.
Pop(id) ==
  /\ active # <<>> /\ active' = Front(active)
  /\ fate' = [fate EXCEPT ![Last(active)] = [@ EXCEPT !.state = "completing", !.by = id]]

\* The call in its completion.
Completing(call) == [call EXCEPT !.phase = "completing", !.owes = Last(active)]

\* An end pops a statement or is over at once.
LEMMA EndCases ==
  ASSUME NEW call, NEW rest, NEW known, End(call, rest, known)
  PROVE  \/ known /\ Pop(call.id) /\ calls' = Append(rest, Completing(call)) /\ ended' = ended
         \/ /\ ~(known /\ active # <<>>)
            /\ calls' = rest /\ ended' = EndsNormally(call.id)
            /\ UNCHANGED <<active, fate>>
  BY DEF End, Pop, Completing

LEMMA EndTypes ==
  ASSUME TypeOK, NEW call, call.id \in 0..MaxStatements, NEW rest, NEW known,
         End(call, rest, known)
  PROVE  /\ active' \in Seq(Ids) /\ fate' \in [Ids -> Fate]
         /\ ended' \in [Ids -> {"no", "normally", "failed"}]
<1>1. CASE Pop(call.id) /\ ended' = ended
  <2>1. active \in Seq(Ids) /\ active # <<>> /\ fate \in [Ids -> Fate]
    BY <1>1 DEF Pop, TypeOK
  <2>2. Front(active) \in Seq(Ids) /\ Last(active) \in Ids
    BY <2>1, Popped
  <2>3. [fate[Last(active)] EXCEPT !.state = "completing", !.by = call.id] \in Fate
    <3>1. fate[Last(active)] \in Fate
      BY <2>1, <2>2
    <3> QED
      BY <3>1 DEF Fate
  <2>4. [fate EXCEPT ![Last(active)] = [@ EXCEPT !.state = "completing", !.by = call.id]]
          \in [Ids -> Fate]
    BY <2>2, <2>3, FateChanged
  <2> QED
    BY <1>1, <2>2, <2>4 DEF Pop, TypeOK
<1>2. CASE UNCHANGED <<active, fate>> /\ ended' = EndsNormally(call.id)
  BY <1>2, EndsNormallyTypes DEF TypeOK
<1> QED
  BY <1>1, <1>2, EndCases

\* A call in its completion is a call.
LEMMA CompletingCall ==
  ASSUME Control, active # <<>>, NEW call \in Call, CallOK(call, admitted),
         call.kind # "lookup"
  PROVE  /\ Completing(call) \in Call /\ CallOK(Completing(call), admitted)
         /\ ~Guarded(Completing(call)) /\ Completing(call).id = call.id
         /\ Completing(call).phase = "completing"
         /\ Completing(call).owes = Last(active) /\ Last(active) \in Ids
<1>1. Last(active) \in Ids
  BY Popped DEF Control, TypeOK
<1>2. Last(active) \in 0..MaxStatements /\ Last(active) # 0
  BY <1>1, BoundsAssumption DEF Ids
<1> QED
  BY <1>1, <1>2 DEF Completing, Call, CallOK, Guarded

\* What the end of the call on top does to the calls.
LEMMA EndKeepsCalls ==
  ASSUME Control, calls # <<>>, Top.phase = "running", Top.kind # "lookup", NEW known,
         End(Top, Front(calls), known), UNCHANGED <<admitted, bypass>>
  PROVE  CallsKept
<1>1. Top \in Call /\ CallOK(Top, admitted) /\ ~Guarded(Top) /\ admitted' \in Nat
  BY ControlFacts DEF Guarded
<1>2. CASE active # <<>> /\ calls' = Append(Front(calls), Completing(Top))
  <2>1. /\ Completing(Top) \in Call /\ CallOK(Completing(Top), admitted)
        /\ ~Guarded(Completing(Top)) /\ Completing(Top).id = Top.id
    BY <1>1, <1>2, CompletingCall
  <2> QED
    BY <1>1, <1>2, <2>1, ReplaceTypes
<1>3. CASE calls' = Front(calls)
  BY <1>1, <1>3, PopTypes
<1> QED
  BY <1>2, <1>3, EndCases DEF Pop

LEMMA DrainTypes ==
  ASSUME TypeOK, NEW state \in {"refunded", "stands"}
  PROVE  Drained(state) \in [Ids -> Fate]
<1>1. state \in Settled /\ "lost" \in Settled /\ xacts \in Nat /\ fate \in [Ids -> Fate]
  BY DEF TypeOK, Settled
<1>2. Closed(fate, OwedBy(calls), "lost") \in [Ids -> Fate]
  BY <1>1, ClosedTypes
<1> QED
  BY <1>1, <1>2, ClosedTypes DEF Drained

LEMMA TransactionEndingTypes ==
  ASSUME TypeOK, NEW aborting \in BOOLEAN, TransactionEnding(aborting)
  PROVE  /\ active' \in Seq(Ids) /\ fate' \in [Ids -> Fate]
         /\ markers' \in Seq(BOOLEAN) /\ xacts' \in 0..MaxTransactions
<1>1. active' \in Seq(Ids) /\ markers' \in Seq(BOOLEAN)
  BY EmptySeq DEF TransactionEnding
<1>2. fate' \in [Ids -> Fate]
  BY DrainTypes DEF TransactionEnding
<1>3. xacts' \in 0..MaxTransactions
  BY BoundsAssumption DEF TransactionEnding, TypeOK
<1> QED
  BY <1>1, <1>2, <1>3

LEMMA NewCallOK ==
  ASSUME NEW kind \in {"executor", "utility", "lookup"}, NEW phase \in {"admitting", "running"},
         kind = "lookup" => phase = "running", NEW n \in Nat
  PROVE  /\ NewCall(kind, phase) \in Call /\ CallOK(NewCall(kind, phase), n)
         /\ NewCall(kind, phase).id = 0 /\ NewCall(kind, phase).owes = 0
         /\ NewCall(kind, phase).kind = kind /\ NewCall(kind, phase).phase = phase
         /\ GuardOf(NewCall(kind, phase)) = IF phase = "admitting" \/ kind = "lookup" THEN 1 ELSE 0
  BY BoundsAssumption DEF NewCall, Call, CallOK, GuardOf, Guarded

LEMMA ControlNext == Control /\ [Next]_vars => Control'
<1> SUFFICES ASSUME Control, [Next]_vars PROVE Control'
  OBVIOUS
<1>1. /\ calls \in Seq(Call) /\ CallsOK(calls, admitted) /\ admitted \in Nat
      /\ bypass = GuardsOf(calls) /\ bypass \in Nat /\ xacts \in Nat
      /\ cursors \in Nat /\ markers \in Seq(BOOLEAN) /\ active \in Seq(Ids)
      /\ calls # <<>> => /\ Top \in Call /\ Top.id \in 0..MaxStatements
                         /\ CallOK(Top, admitted)
      /\ TypeOK
  BY ControlFacts DEF Control
<1>2. TypeOK' /\ CallsKept => Control'
  BY DEF Control, CallsKept
<1>3. calls' = calls /\ admitted' = admitted /\ bypass' = bypass => CallsKept
  BY <1>1, BypassBounded DEF CallsKept
<1>4. Front(markers) \in Seq(BOOLEAN) \/ markers = <<>>
  BY <1>1, Popped
<1>5. bypass + 0 = bypass
  BY <1>1
<1>6. CASE StartUntrackedExecutor
  <2>1. CallsKept
    BY <1>1, <1>5, <1>6, NewCallOK, PushTypes DEF StartUntrackedExecutor
  <2>2. markers' \in Seq(BOOLEAN)
    BY <1>1, <1>6, Pushed DEF StartUntrackedExecutor
  <2> QED
    BY <1>1, <1>2, <1>6, <2>1, <2>2 DEF StartUntrackedExecutor, TypeOK, CallsKept
<1>7. CASE StartUntrackedUtility
  <2>1. CallsKept
    BY <1>1, <1>5, <1>7, NewCallOK, PushTypes DEF StartUntrackedUtility
  <2> QED
    BY <1>1, <1>2, <1>7, <2>1 DEF StartUntrackedUtility, TypeOK, CallsKept
<1>8. CASE \E kind \in {"executor", "utility"} : StartAdmission(kind)
  <2>1. PICK kind \in {"executor", "utility"} : StartAdmission(kind)
    BY <1>8
  <2>2. CallsKept
    BY <1>1, <2>1, NewCallOK, PushTypes DEF StartAdmission
  <2> QED
    BY <1>1, <1>2, <2>1, <2>2 DEF StartAdmission, TypeOK, CallsKept
<1>9. CASE StartLookup
  <2>1. CallsKept
    BY <1>1, <1>9, NewCallOK, PushTypes DEF StartLookup
  <2> QED
    BY <1>1, <1>2, <1>9, <2>1 DEF StartLookup, TypeOK, CallsKept
<1>10. CASE EndLookup
  <2>1. calls # <<>> /\ Guarded(Top) /\ calls' = Front(calls) /\ bypass' = Dropped(1)
        /\ admitted' = admitted
    BY <1>10 DEF EndLookup, Guarded
  <2>2. CallsKept
    BY <2>1, PopTypes
  <2> QED
    BY <1>1, <1>2, <1>10, <2>2 DEF EndLookup, TypeOK, CallsKept
<1>11. CASE Admit
  <2> DEFINE c == [Top EXCEPT !.phase = "running", !.id = admitted']
             f == [fate[admitted'] EXCEPT !.state = "active", !.from = xacts]
  <2>1. admitted' = admitted + 1 /\ admitted' \in Ids /\ admitted' \in 0..MaxStatements
    BY <1>1, <1>11, BoundsAssumption DEF Admit, Ids
  <2>2. /\ calls # <<>> /\ Top.phase = "admitting" /\ Guarded(Top) /\ Top.kind # "lookup"
        /\ Top.owes = 0
    BY <1>1, <1>11 DEF Admit, Admitting, Guarded, CallOK
  <2>3. /\ c \in Call /\ c.phase = "running" /\ c.id = admitted + 1 /\ c.owes = 0
        /\ c.kind # "lookup"
    BY <1>1, <2>1, <2>2 DEF Call
  <2>4. calls' = Append(Front(calls), c) /\ bypass' = Dropped(1)
    BY <1>11 DEF Admit
  <2> HIDE DEF c
  <2>5. CallOK(c, admitted') /\ ~Guarded(c) /\ c.id > admitted
    BY <1>1, <2>1, <2>3 DEF CallOK, Guarded
  <2>6. CallsKept
    BY <1>1, <2>1, <2>2, <2>3, <2>4, <2>5, ReplaceTypes
  <2>7. active' \in Seq(Ids) /\ markers' \in Seq(BOOLEAN)
    BY <1>1, <1>11, <2>1, Pushed DEF Admit
  <2>8. f \in Fate
    <3>1. fate[admitted'] \in Fate
      BY <1>1, <2>1 DEF TypeOK
    <3> QED
      BY <1>1, <3>1 DEF Fate
  <2>9. fate' \in [Ids -> Fate]
    BY <1>1, <1>11, <2>1, <2>8, FateChanged DEF Admit
  <2> QED
    BY <1>1, <1>2, <1>11, <2>1, <2>6, <2>7, <2>9 DEF Admit, TypeOK, CallsKept
<1>12. CASE FailOpen
  <2> DEFINE c == [Top EXCEPT !.phase = "running"]
  <2>1. /\ calls # <<>> /\ Top.phase = "admitting" /\ Guarded(Top) /\ Top.kind # "lookup"
        /\ Top.owes = 0 /\ Top.id = 0 /\ Top \in Call
    BY <1>1, <1>12 DEF FailOpen, Admitting, Guarded, CallOK
  <2>2. c \in Call /\ c.phase = "running" /\ c.id = 0 /\ c.owes = 0 /\ c.kind # "lookup"
    BY <2>1 DEF Call
  <2>3. calls' = Append(Front(calls), c) /\ bypass' = Dropped(1) /\ admitted' = admitted
    BY <1>12 DEF FailOpen
  <2> HIDE DEF c
  <2>4. CallOK(c, admitted') /\ ~Guarded(c) /\ c.id = Top.id
    BY <1>1, <2>1, <2>2, <2>3 DEF CallOK, Guarded
  <2>5. CallsKept
    BY <1>1, <2>1, <2>2, <2>3, <2>4, ReplaceTypes
  <2>6. markers' \in Seq(BOOLEAN)
    BY <1>1, <1>12, Pushed DEF FailOpen
  <2> QED
    BY <1>1, <1>2, <1>12, <2>5, <2>6 DEF FailOpen, TypeOK, CallsKept
<1>13. CASE Reject
  <2>1. calls # <<>> /\ Guarded(Top) /\ calls' = Front(calls) /\ bypass' = Dropped(1)
        /\ admitted' = admitted
    BY <1>13 DEF Reject, Admitting, Guarded
  <2>2. CallsKept
    BY <2>1, PopTypes
  <2> QED
    BY <1>1, <1>2, <1>13, <2>2 DEF Reject, TypeOK, CallsKept
<1>14. CASE EndExecutor
  <2>1. PICK known \in BOOLEAN : End(Top, Front(calls), known)
    BY <1>1, <1>14, Popped DEF EndExecutor, CompleteExecutor
  <2>2. /\ calls # <<>> /\ Top.phase = "running" /\ Top.kind # "lookup"
        /\ markers' \in Seq(BOOLEAN)
    BY <1>1, <1>4, <1>14 DEF EndExecutor, CompleteExecutor
  <2>3. CallsKept
    BY <1>14, <2>1, <2>2, EndKeepsCalls DEF EndExecutor
  <2>4. /\ active' \in Seq(Ids) /\ fate' \in [Ids -> Fate]
        /\ ended' \in [Ids -> {"no", "normally", "failed"}]
    BY <1>1, <2>1, <2>2, EndTypes
  <2> QED
    BY <1>1, <1>2, <1>14, <2>2, <2>3, <2>4 DEF EndExecutor, TypeOK, CallsKept
<1>15. CASE EndUtility
  <2>1. /\ calls # <<>> /\ Top.phase = "running" /\ Top.kind # "lookup"
        /\ End(Top, Front(calls), Top.id # 0)
    BY <1>15 DEF EndUtility
  <2>2. CallsKept
    BY <1>15, <2>1, EndKeepsCalls DEF EndUtility
  <2>3. /\ active' \in Seq(Ids) /\ fate' \in [Ids -> Fate]
        /\ ended' \in [Ids -> {"no", "normally", "failed"}]
    BY <1>1, <2>1, EndTypes
  <2> QED
    BY <1>1, <1>2, <1>15, <2>2, <2>3 DEF EndUtility, TypeOK, CallsKept
<1>16. CASE Reconcile
  <2>1. calls # <<>> /\ ~Guarded(Top) /\ calls' = Front(calls) /\ Top.owes \in Ids
        /\ UNCHANGED <<admitted, bypass>>
    BY <1>1, <1>16, BoundsAssumption DEF Reconcile, Guarded, CallOK, Call, Ids
  <2>2. CallsKept
    BY <2>1, PopTypes
  <2>3. fate' \in [Ids -> Fate]
    <3>1. fate[Top.owes] \in Fate /\ "reconciled" \in Settled
      BY <1>1, <2>1 DEF TypeOK, Settled
    <3>2. [fate[Top.owes] EXCEPT !.state = "reconciled", !.until = xacts] \in Fate
      BY <1>1, <3>1, SettledFate
    <3> QED
      BY <1>1, <1>16, <2>1, <3>2, FateChanged DEF Reconcile
  <2>4. ended' \in [Ids -> {"no", "normally", "failed"}]
    BY <1>1, <1>16, <2>1, EndsNormallyTypes DEF Reconcile
  <2> QED
    BY <1>1, <1>2, <1>16, <2>2, <2>3, <2>4 DEF Reconcile, TypeOK, CallsKept
<1>17. CASE OpenCursor
  <2>1. markers' \in Seq(BOOLEAN)
    BY <1>1, <1>17, Pushed DEF OpenCursor
  <2>2. cursors' \in Nat
    BY <1>1, <1>17 DEF OpenCursor
  <2> QED
    BY <1>1, <1>2, <1>3, <1>17, <2>1, <2>2 DEF OpenCursor, TypeOK, CallsKept
<1>18. CASE CloseCursor
  <2> DEFINE c == NewCall("executor", "running")
  <2>1. /\ c \in Call /\ CallOK(c, admitted) /\ c.id = 0 /\ c.kind # "lookup"
        /\ c.id \in 0..MaxStatements
    BY <1>1, NewCallOK, BoundsAssumption
  <2> HIDE DEF c
  <2>2. PICK known \in BOOLEAN : End(c, calls, known)
    BY <1>1, <1>18, Popped DEF CloseCursor, CompleteExecutor, c
  <2>3. markers' \in Seq(BOOLEAN) /\ cursors' \in Nat /\ UNCHANGED <<admitted, bypass>>
    BY <1>1, <1>4, <1>18 DEF CloseCursor, CompleteExecutor
  <2>4. CallsKept
    <3>1. CASE active # <<>> /\ calls' = Append(calls, Completing(c))
      <4>1. /\ Completing(c) \in Call /\ CallOK(Completing(c), admitted)
            /\ GuardOf(Completing(c)) = 0 /\ Completing(c).id = 0
            /\ Completing(c).phase = "completing"
        BY <2>1, <3>1, CompletingCall DEF GuardOf
      <4> QED
        BY <1>1, <1>5, <2>3, <3>1, <4>1, PushTypes
    <3>2. CASE calls' = calls
      BY <1>3, <2>3, <3>2
    <3> QED
      BY <2>2, <3>1, <3>2, EndCases DEF Pop
  <2>5. /\ active' \in Seq(Ids) /\ fate' \in [Ids -> Fate]
        /\ ended' \in [Ids -> {"no", "normally", "failed"}]
    BY <1>1, <2>1, <2>2, EndTypes
  <2> QED
    BY <1>1, <1>2, <1>18, <2>3, <2>4, <2>5 DEF CloseCursor, TypeOK, CallsKept
<1>19. CASE Raise
  BY <1>1, <1>2, <1>3, <1>19 DEF Raise, TypeOK, CallsKept
<1>20. CASE CatchError
  <2>1. PICK n \in 0..Len(calls), left \in 0..cursors :
          /\ calls' = SubSeq(calls, 1, n)
          /\ cursors' = left
          /\ bypass' = GuardsAfter(SubSeq(calls, 1, n))
          /\ ended' = Fails(IdsOf(calls) \ IdsOf(SubSeq(calls, 1, n)))
          /\ fate' = Closed(fate, OwedBy(calls) \ OwedBy(SubSeq(calls, 1, n)), "lost")
    BY <1>20 DEF CatchError
  <2>2. calls' \in Seq(Call) /\ CallsOK(calls', admitted) /\ admitted' = admitted
    BY <1>1, <1>20, <2>1, Cut, CutCallsOK DEF CatchError
  <2>3. bypass' = GuardsOf(calls')
    BY <2>1, GuardsThatRemain
  <2>4. CallsKept
    BY <2>2, <2>3, BypassBounded DEF CallsKept
  <2>5. ended' \in [Ids -> {"no", "normally", "failed"}] /\ cursors' \in Nat
    BY <1>1, <2>1, FailsTypes
  <2>6. fate' \in [Ids -> Fate]
    BY <1>1, <2>1, ClosedTypes DEF TypeOK, Settled
  <2> QED
    BY <1>1, <1>2, <1>20, <2>4, <2>5, <2>6 DEF CatchError, CallsKept, TypeOK
<1>21. CASE Commit
  <2>1. /\ active' \in Seq(Ids) /\ fate' \in [Ids -> Fate]
        /\ markers' \in Seq(BOOLEAN) /\ xacts' \in 0..MaxTransactions
    BY <1>1, <1>21, TransactionEndingTypes DEF Commit
  <2> QED
    BY <1>1, <1>2, <1>3, <1>21, <2>1 DEF Commit, TypeOK, CallsKept
<1>22. CASE Abort
  <2>1. /\ active' \in Seq(Ids) /\ fate' \in [Ids -> Fate]
        /\ markers' \in Seq(BOOLEAN) /\ xacts' \in 0..MaxTransactions
    BY <1>1, <1>22, TransactionEndingTypes DEF Abort
  <2>2. calls' = <<>> /\ cursors' = 0 /\ failing' = FALSE /\ bypass' = 0 /\ admitted' = admitted
    BY <1>22, NoGuardRemains DEF Abort
  <2>3. calls' \in Seq(Call)
    BY <2>2, EmptySeq
  <2>4. CallsKept
    BY <1>1, <2>2, <2>3, EmptyCallsOK, BypassBounded DEF CallsKept
  <2>5. ended' \in [Ids -> {"no", "normally", "failed"}]
    BY <1>1, <1>22, FailsTypes DEF Abort
  <2>6. cursors' \in Nat
    BY <2>2
  <2> QED
    BY <1>1, <1>2, <1>22, <2>1, <2>2, <2>4, <2>5, <2>6 DEF Abort, TypeOK, CallsKept
<1>23. CASE InnerEnd
  <2>1. /\ active' \in Seq(Ids) /\ fate' \in [Ids -> Fate]
        /\ markers' \in Seq(BOOLEAN) /\ xacts' \in 0..MaxTransactions
    BY <1>1, <1>23, TransactionEndingTypes DEF InnerEnd
  <2> QED
    BY <1>1, <1>2, <1>3, <1>23, <2>1 DEF InnerEnd, TypeOK, CallsKept
<1>24. CASE Prepare
  <2>1. xacts' \in 0..MaxTransactions
    BY <1>1, <1>24, BoundsAssumption DEF Prepare
  <2> QED
    BY <1>1, <1>2, <1>3, <1>24, <2>1 DEF Prepare, TypeOK, CallsKept
<1>25. CASE UNCHANGED vars
  BY <1>1, <1>2, <1>3, <1>25 DEF vars, TypeOK, CallsKept
<1>26. CASE Done
  BY <1>25, <1>26 DEF Done
<1> QED
  BY <1>6, <1>7, <1>8, <1>9, <1>10, <1>11, <1>12, <1>13, <1>14, <1>15, <1>16,
     <1>17, <1>18, <1>19, <1>20, <1>21, <1>22, <1>23, <1>24, <1>25, <1>26 DEF Next

\* The values of the state; no bypass guard is held but by a call in progress,
\* whichever way calls end.
THEOREM TypeCorrect == Spec => []TypeOK
<1>1. Control => TypeOK
  BY DEF Control
<1> QED
  BY <1>1, ControlInit, ControlNext, PTL DEF Spec

\* What runs under a guard is not admitted, at any depth of guards in guards, and
\* every way out of one, errors that unwind any number of calls included, drops
\* it exactly once.
THEOREM LookupsAreNotAdmitted == Spec => []LookupsBypassAdmission
<1>1. Control => LookupsBypassAdmission
  BY DEF Control, CallsOK, LookupsBypassAdmission, GuardsOf, GuardedCalls
<1> QED
  BY <1>1, ControlInit, ControlNext, PTL DEF Spec
------------------------------------------------------------------------------
(***************************************************************************)
(* Charges.  Whatever an action is about, it does one of six things to the *)
(* active statements, the completions in progress and their charges.       *)
(***************************************************************************)
\* No statement is in two completions.
Distinct(stack) ==
  \A i, j \in DOMAIN stack : stack[i].owes # 0 /\ stack[i].owes = stack[j].owes => i = j

\* A statement is active from its admission to its end, and in a completion from
\* then on until its charge is settled or lost; older statements are below newer
\* ones, and what is not admitted has no charge.
ChargesOK ==
  /\ \A i, j \in DOMAIN active : i < j => active[i] < active[j]
  /\ \A i \in Ids : fate[i].state = "active" <=> \E k \in DOMAIN active : active[k] = i
  /\ \A i \in Ids : fate[i].state = "completing" <=> i \in OwedBy(calls)
  /\ Distinct(calls)
  /\ \A i \in Ids : i > admitted => fate[i] = NoFate

LEMMA OwedPushed ==
  ASSUME NEW stack \in Seq(Call), NEW c \in Call
  PROVE  /\ OwedBy(Append(stack, c)) = OwedBy(stack) \cup ({c.owes} \ {0})
         /\ Distinct(stack) /\ c.owes \notin OwedBy(stack) => Distinct(Append(stack, c))
<1> DEFINE t == Append(stack, c)
           k == Len(stack) + 1
<1>1. /\ DOMAIN stack = 1..Len(stack) /\ DOMAIN t = 1..k
      /\ Len(stack) \in Nat
      /\ \A i \in 1..Len(stack) : t[i] = stack[i]
      /\ t[k] = c
  BY Pushed
<1>2. k \in 1..k /\ \A i \in 1..k : i \in 1..Len(stack) \/ i = k
  BY <1>1
<1>3. \A i \in 1..Len(stack) : i \in 1..k
  BY <1>1
<1> HIDE DEF t, k
<1>4. OwedBy(t) = OwedBy(stack) \cup ({c.owes} \ {0})
  BY <1>1, <1>2, <1>3 DEF OwedBy
<1>5. ASSUME Distinct(stack), c.owes \notin OwedBy(stack) PROVE Distinct(t)
  <2> SUFFICES ASSUME NEW i \in 1..k, NEW j \in 1..k, t[i].owes # 0, t[i].owes = t[j].owes
               PROVE  i = j
    BY <1>1 DEF Distinct
  <2>1. \A n \in 1..Len(stack) : stack[n].owes # 0 => stack[n].owes # c.owes
    BY <1>1, <1>5 DEF OwedBy
  <2>2. CASE i \in 1..Len(stack) /\ j \in 1..Len(stack)
    BY <1>1, <1>5, <2>2 DEF Distinct
  <2>3. CASE i \in 1..Len(stack) /\ j = k
    BY <1>1, <2>1, <2>3
  <2>4. CASE i = k /\ j \in 1..Len(stack)
    BY <1>1, <2>1, <2>4
  <2> QED
    BY <1>2, <2>2, <2>3, <2>4
<1> QED
  BY <1>4, <1>5 DEF t

LEMMA OwedCut ==
  ASSUME NEW stack \in Seq(Call), NEW m \in 0..Len(stack), Distinct(stack)
  PROVE  /\ OwedBy(SubSeq(stack, 1, m)) \subseteq OwedBy(stack)
         /\ Distinct(SubSeq(stack, 1, m))
<1> DEFINE t == SubSeq(stack, 1, m)
<1>1. /\ DOMAIN stack = 1..Len(stack) /\ DOMAIN t = 1..m
      /\ \A i \in 1..m : t[i] = stack[i] /\ i \in 1..Len(stack)
  BY Cut
<1> HIDE DEF t
<1>2. OwedBy(t) \subseteq OwedBy(stack)
  BY <1>1 DEF OwedBy
<1>3. Distinct(t)
  BY <1>1 DEF Distinct
<1> QED
  BY <1>2, <1>3 DEF t

LEMMA OwedPopped ==
  ASSUME NEW stack \in Seq(Call), stack # <<>>, Distinct(stack)
  PROVE  /\ OwedBy(Front(stack)) = OwedBy(stack) \ {Last(stack).owes}
         /\ OwedBy(stack) = OwedBy(Front(stack)) \cup ({Last(stack).owes} \ {0})
         /\ Distinct(Front(stack))
<1> DEFINE t == Front(stack)
           k == Len(stack)
<1>1. /\ k \in Nat \ {0} /\ DOMAIN stack = 1..k /\ DOMAIN t = 1..(k - 1)
      /\ \A i \in 1..(k - 1) : t[i] = stack[i]
      /\ Last(stack) = stack[k]
      /\ t = SubSeq(stack, 1, k - 1) /\ k - 1 \in 0..k
  BY Popped
<1>2. Distinct(t)
  BY <1>1, OwedCut
<1> HIDE DEF t, k
<1>3. k \in 1..k /\ \A i \in 1..k : i \in 1..(k - 1) \/ i = k
  BY <1>1
<1>4. \A i \in 1..(k - 1) : i \in 1..k /\ i # k
  BY <1>1
<1>5. \A i \in 1..(k - 1) : stack[i].owes # 0 => stack[i].owes # stack[k].owes
  BY <1>1, <1>3, <1>4 DEF Distinct
<1>6. OwedBy(stack) = OwedBy(t) \cup ({stack[k].owes} \ {0})
  BY <1>1, <1>3, <1>4 DEF OwedBy
<1>7. stack[k].owes \notin OwedBy(t)
  BY <1>1, <1>5 DEF OwedBy
<1>8. 0 \notin OwedBy(t)
  BY DEF OwedBy
<1> QED
  BY <1>1, <1>2, <1>6, <1>7, <1>8 DEF t

LEMMA OwedNone ==
  /\ OwedBy(<<>>) = {} /\ Distinct(<<>>)
<1>1. DOMAIN <<>> = {}
  OBVIOUS
<1> QED
  BY <1>1 DEF OwedBy, Distinct

LEMMA OwedRunning ==
  ASSUME Control, \A i \in DOMAIN calls : calls[i].phase = "running"
  PROVE  OwedBy(calls) = {}
<1>1. \A i \in DOMAIN calls : calls[i].owes = 0
  BY DEF Control, CallsOK, CallOK
<1> QED
  BY <1>1 DEF OwedBy

ChargeAdmitted ==
  /\ admitted < MaxStatements /\ admitted' = admitted + 1
  /\ active' = Append(active, admitted')
  /\ fate' = [fate EXCEPT ![admitted'] = [@ EXCEPT !.state = "active", !.from = xacts]]
  /\ OwedBy(calls') = OwedBy(calls)
  /\ xacts' = xacts /\ prepared' = prepared

ChargePopped ==
  /\ \E id \in 0..MaxStatements : Pop(id)
  /\ OwedBy(calls') = OwedBy(calls) \cup {Last(active)}
  /\ UNCHANGED <<admitted, xacts, prepared>>

ChargeReconciled ==
  /\ \E n \in OwedBy(calls) :
       /\ fate' = [fate EXCEPT ![n] = [@ EXCEPT !.state = "reconciled", !.until = xacts]]
       /\ OwedBy(calls') = OwedBy(calls) \ {n}
  /\ UNCHANGED <<active, admitted, xacts, prepared>>

ChargesLost ==
  /\ fate' = Closed(fate, OwedBy(calls) \ OwedBy(calls'), "lost")
  /\ OwedBy(calls') \subseteq OwedBy(calls)
  /\ UNCHANGED <<active, admitted, xacts, prepared>>

ChargesDrained ==
  /\ active' = <<>>
  /\ \E state \in {"refunded", "stands"} : fate' = Drained(state)
  /\ OwedBy(calls') = {}
  /\ xacts' = xacts + 1
  /\ UNCHANGED <<admitted, prepared>>

ChargesKept ==
  /\ OwedBy(calls') = OwedBy(calls)
  /\ UNCHANGED <<active, fate, admitted>>

\* The end of `call' over the calls `rest', of which it owes nothing.
LEMMA EndCharges ==
  ASSUME Control, ChargesOK, NEW call \in Call, CallOK(call, admitted), call.kind # "lookup",
         NEW rest \in Seq(Call), OwedBy(rest) = OwedBy(calls), Distinct(rest),
         NEW known, End(call, rest, known), UNCHANGED <<admitted, xacts, prepared>>
  PROVE  /\ Distinct(calls')
         /\ ChargePopped \/ (ChargesKept /\ UNCHANGED <<xacts, prepared>>)
<1>1. CASE Pop(call.id) /\ calls' = Append(rest, Completing(call))
  <2>1. active # <<>> /\ active \in Seq(Ids)
    BY <1>1 DEF Pop, Control, TypeOK
  <2>2. /\ Completing(call) \in Call /\ Completing(call).owes = Last(active)
        /\ Last(active) \in Ids /\ call.id \in 0..MaxStatements
    BY <2>1, CompletingCall DEF Call
  <2>3. Last(active) # 0 /\ Last(active) \notin OwedBy(calls)
    <3>1. \E k \in DOMAIN active : active[k] = Last(active)
      <4>1. Last(active) = active[Len(active)] /\ DOMAIN active = 1..Len(active)
            /\ Len(active) \in Nat \ {0}
        BY <2>1, Popped
      <4>2. Len(active) \in DOMAIN active
        BY <4>1
      <4> QED
        BY <4>1, <4>2
    <3>2. fate[Last(active)].state = "active"
      BY <2>2, <3>1 DEF ChargesOK
    <3>3. fate[Last(active)].state # "completing"
      BY <3>2
    <3> QED
      BY <2>2, <3>3 DEF ChargesOK, Ids
  <2>4. OwedBy(calls') = OwedBy(calls) \cup {Last(active)} /\ Distinct(calls')
    BY <1>1, <2>2, <2>3, OwedPushed
  <2> QED
    BY <1>1, <2>2, <2>4 DEF ChargePopped
<1>2. CASE calls' = rest /\ UNCHANGED <<active, fate>>
  BY <1>2 DEF ChargesKept
<1> QED
  BY <1>1, <1>2, EndCases

LEMMA EndingDrains ==
  ASSUME NEW aborting \in BOOLEAN, TransactionEnding(aborting), OwedBy(calls') = {},
         UNCHANGED <<admitted, prepared>>
  PROVE  ChargesDrained
<1>1. (IF aborting THEN "refunded" ELSE "stands") \in {"refunded", "stands"}
  OBVIOUS
<1> QED
  BY <1>1 DEF TransactionEnding, ChargesDrained

LEMMA ChargeSteps ==
  ASSUME Control, ChargesOK, [Next]_vars
  PROVE  /\ Distinct(calls')
         /\ \/ ChargeAdmitted \/ ChargePopped \/ ChargeReconciled \/ ChargesLost
            \/ ChargesDrained
            \/ ChargesKept /\ (UNCHANGED <<xacts, prepared>> \/ prepared')
<1>1. /\ calls \in Seq(Call) /\ Distinct(calls) /\ admitted \in Nat
      /\ calls # <<>> => Top \in Call /\ CallOK(Top, admitted)
  BY ControlFacts DEF ChargesOK
<1>2. ASSUME NEW c \in Call, c.owes = 0, calls' = Append(calls, c)
      PROVE  OwedBy(calls') = OwedBy(calls) /\ Distinct(calls')
  BY <1>1, <1>2, OwedPushed DEF OwedBy
<1>3. ASSUME calls # <<>>
      PROVE  /\ Front(calls) \in Seq(Call) /\ Distinct(Front(calls))
             /\ OwedBy(Front(calls)) = OwedBy(calls) \ {Top.owes}
             /\ Top.owes = 0 => OwedBy(Front(calls)) = OwedBy(calls)
  BY <1>1, <1>3, Popped, OwedPopped DEF Top, OwedBy
<1>4. ASSUME calls # <<>>, Top.owes = 0, NEW c \in Call, c.owes = 0,
             calls' = Append(Front(calls), c)
      PROVE  OwedBy(calls') = OwedBy(calls) /\ Distinct(calls')
  <2>1. Front(calls) \in Seq(Call) /\ Distinct(Front(calls)) /\ OwedBy(Front(calls)) = OwedBy(calls)
    BY <1>3, <1>4
  <2>2. c.owes \notin OwedBy(Front(calls)) /\ {c.owes} \ {0} = {}
    BY <1>4 DEF OwedBy
  <2>3. /\ OwedBy(Append(Front(calls), c)) = OwedBy(Front(calls)) \cup ({c.owes} \ {0})
        /\ Distinct(Append(Front(calls), c))
    BY <1>4, <2>1, <2>2, OwedPushed
  <2>4. OwedBy(Front(calls)) \cup ({c.owes} \ {0}) = OwedBy(calls)
    BY <2>1, <2>2
  <2> QED
    BY <1>4, <2>3, <2>4
<1>5. calls' = calls => OwedBy(calls') = OwedBy(calls) /\ Distinct(calls')
  BY <1>1
<1>6. CASE StartUntrackedExecutor \/ StartUntrackedUtility \/ StartLookup
  BY <1>1, <1>2, <1>6, NewCallOK
  DEF StartUntrackedExecutor, StartUntrackedUtility, StartLookup, ChargesKept
<1>7. CASE \E kind \in {"executor", "utility"} : StartAdmission(kind)
  BY <1>1, <1>2, <1>7, NewCallOK DEF StartAdmission, ChargesKept
<1>8. CASE EndLookup \/ Reject
  <2>1. calls # <<>> /\ Top.owes = 0 /\ calls' = Front(calls)
    BY <1>1, <1>8 DEF EndLookup, Reject, Admitting, CallOK
  <2> QED
    BY <1>3, <1>8, <2>1 DEF EndLookup, Reject, ChargesKept
<1>9. CASE Admit
  <2> DEFINE c == [Top EXCEPT !.phase = "running", !.id = admitted']
  <2>1. calls # <<>> /\ Top.owes = 0 /\ calls' = Append(Front(calls), c)
    BY <1>1, <1>9 DEF Admit, Admitting, CallOK
  <2>2. c \in Call /\ c.owes = 0
    <3>1. admitted' \in 0..MaxStatements
      BY <1>1, <1>9, BoundsAssumption DEF Admit
    <3> QED
      BY <1>1, <2>1, <3>1 DEF Call
  <2> HIDE DEF c
  <2> QED
    BY <1>4, <1>9, <2>1, <2>2 DEF Admit, ChargeAdmitted
<1>10. CASE FailOpen
  <2> DEFINE c == [Top EXCEPT !.phase = "running"]
  <2>1. calls # <<>> /\ Top.owes = 0 /\ calls' = Append(Front(calls), c)
    BY <1>1, <1>10 DEF FailOpen, Admitting, CallOK
  <2>2. c \in Call /\ c.owes = 0
    BY <1>1, <2>1 DEF Call
  <2> HIDE DEF c
  <2> QED
    BY <1>4, <1>10, <2>1, <2>2 DEF FailOpen, ChargesKept
<1>11. CASE OpenCursor \/ Raise
  BY <1>5, <1>11 DEF OpenCursor, Raise, ChargesKept
<1>12. CASE EndExecutor \/ EndUtility
  <2>1. /\ calls # <<>> /\ Top.phase = "running" /\ Top.kind # "lookup"
        /\ UNCHANGED <<admitted, xacts, prepared>>
    BY <1>12 DEF EndExecutor, EndUtility
  <2>2. PICK known : End(Top, Front(calls), known)
    BY <1>12 DEF EndExecutor, EndUtility, CompleteExecutor
  <2>3. Top.owes = 0
    BY <1>1, <2>1 DEF CallOK
  <2> QED
    BY <1>1, <1>3, <2>1, <2>2, <2>3, EndCharges
<1>13. CASE CloseCursor
  <2> DEFINE c == NewCall("executor", "running")
  <2>1. c \in Call /\ CallOK(c, admitted) /\ c.kind # "lookup"
    BY <1>1, NewCallOK
  <2>2. UNCHANGED <<admitted, xacts, prepared>>
    BY <1>13 DEF CloseCursor
  <2>3. PICK known : End(c, calls, known)
    BY <1>13 DEF CloseCursor, CompleteExecutor
  <2> HIDE DEF c
  <2> QED
    BY <1>1, <2>1, <2>2, <2>3, EndCharges
<1>14. CASE Reconcile
  <2>1. calls # <<>> /\ Top.phase = "completing" /\ calls' = Front(calls) /\ Top.owes # 0
    BY <1>1, <1>14 DEF Reconcile, CallOK
  <2>2. Top.owes \in OwedBy(calls)
    BY <1>1, <2>1, Popped DEF Top, OwedBy
  <2> QED
    BY <1>3, <1>14, <2>1, <2>2 DEF Reconcile, ChargeReconciled
<1>15. CASE CatchError
  <2>1. PICK n \in 0..Len(calls) :
          /\ calls' = SubSeq(calls, 1, n)
          /\ fate' = Closed(fate, OwedBy(calls) \ OwedBy(SubSeq(calls, 1, n)), "lost")
    BY <1>15 DEF CatchError
  <2>2. OwedBy(calls') \subseteq OwedBy(calls) /\ Distinct(calls')
    BY <1>1, <2>1, OwedCut
  <2> QED
    BY <1>15, <2>1, <2>2 DEF CatchError, ChargesLost
<1>16. CASE Commit \/ Abort
  <2>1. calls' = <<>> /\ UNCHANGED <<admitted, prepared>>
    BY <1>16 DEF Commit, Abort, Idle
  <2>2. PICK aborting \in BOOLEAN : TransactionEnding(aborting)
    BY <1>16 DEF Commit, Abort
  <2> QED
    BY <2>1, <2>2, OwedNone, EndingDrains
<1>17. CASE InnerEnd
  <2>1. /\ calls' = calls /\ UNCHANGED <<admitted, prepared>>
        /\ \A i \in DOMAIN calls : calls[i].phase = "running"
    BY <1>17 DEF InnerEnd
  <2>2. PICK aborting \in BOOLEAN : TransactionEnding(aborting)
    BY <1>17 DEF InnerEnd
  <2>3. OwedBy(calls') = {}
    BY <2>1, OwedRunning
  <2> QED
    BY <1>5, <2>1, <2>2, <2>3, EndingDrains
<1>18. CASE Prepare
  BY <1>5, <1>18 DEF Prepare, ChargesKept
<1>19. CASE UNCHANGED vars
  BY <1>5, <1>19 DEF vars, ChargesKept
<1>20. CASE Done
  BY <1>19, <1>20 DEF Done
<1> QED
  BY <1>6, <1>7, <1>8, <1>9, <1>10, <1>11, <1>12, <1>13, <1>14, <1>15, <1>16, <1>17,
     <1>18, <1>19, <1>20 DEF Next

\* What a step does to the charge of one statement.
ChargeStep(i) ==
  \/ fate'[i] = fate[i]
  \/ fate[i] = NoFate /\ fate'[i].state = "active" /\ fate'[i].from = xacts /\ xacts' = xacts
  \/ /\ fate[i].state = "active" /\ fate'[i].state = "completing"
     /\ fate'[i].from = fate[i].from /\ xacts' = xacts
  \/ /\ fate[i].state \in {"active", "completing"} /\ fate'[i].state \in Settled
     /\ fate'[i].from = fate[i].from /\ fate'[i].until = xacts /\ fate'[i].by = fate[i].by

LEMMA ActiveIds ==
  ASSUME Control, ChargesOK
  PROVE  /\ \A i \in DOMAIN active : active[i] \in Ids /\ fate[active[i]].state = "active"
         /\ OwedBy(calls) \subseteq Ids
         /\ \A i \in Ids : i > admitted => fate[i] = NoFate
         /\ \A i \in Ids : ~(fate[i].state = "active" /\ fate[i].state = "completing")
<1>1. active \in Seq(Ids) /\ calls \in Seq(Call)
  BY ControlFacts
<1>2. \A i \in DOMAIN active : active[i] \in Ids
  BY <1>1, ElementOfSeq, LenProperties
<1>3. \A i \in DOMAIN calls : calls[i].owes \in 0..MaxStatements
  <2>1. \A i \in DOMAIN calls : calls[i] \in Call
    BY <1>1, ElementOfSeq, LenProperties
  <2> QED
    BY <2>1 DEF Call
<1>4. OwedBy(calls) \subseteq Ids
  BY <1>3, BoundsAssumption DEF OwedBy, Ids
<1> QED
  BY <1>2, <1>4 DEF ChargesOK

LEMMA AdmittedCharge ==
  ASSUME Control, ChargesOK, ChargeAdmitted, Distinct(calls')
  PROVE  ChargesOK' /\ \A i \in Ids : ChargeStep(i)
<1> DEFINE n == admitted + 1
<1>1. /\ active \in Seq(Ids) /\ fate \in [Ids -> Fate] /\ admitted \in Nat /\ n \in Ids
      /\ admitted' = n /\ active' = Append(active, n)
  BY BoundsAssumption DEF Control, TypeOK, ChargeAdmitted, Ids
<1>2. /\ DOMAIN active = 1..Len(active) /\ DOMAIN active' = 1..(Len(active) + 1)
      /\ Len(active) \in Nat
      /\ \A i \in 1..Len(active) : active'[i] = active[i]
      /\ active'[Len(active) + 1] = n
  BY <1>1, Pushed
<1>3. \A i \in 1..Len(active) : active[i] \in Ids
  BY <1>1, ElementOfSeq
<1>4. fate[n] = NoFate
  BY <1>1 DEF ChargesOK
<1>5. \A i \in 1..Len(active) : active[i] <= admitted
  <2> SUFFICES ASSUME NEW i \in 1..Len(active), active[i] > admitted PROVE FALSE
    BY <1>1, <1>3 DEF Ids
  <2>1. fate[active[i]].state = "active" /\ fate[active[i]] = NoFate
    BY <1>2, <1>3 DEF ChargesOK
  <2> QED
    BY <2>1 DEF NoFate
<1>6. /\ \A i \in Ids \ {n} : fate'[i] = fate[i]
      /\ fate'[n] = [fate[n] EXCEPT !.state = "active", !.from = xacts]
  BY <1>1 DEF ChargeAdmitted
<1>7. fate'[n].state = "active" /\ fate'[n].from = xacts /\ xacts' = xacts
  BY <1>4, <1>6 DEF NoFate, ChargeAdmitted
<1> HIDE DEF n
<1>8. \A i \in Ids : ChargeStep(i)
  BY <1>4, <1>6, <1>7 DEF ChargeStep
<1>9. \A i, j \in DOMAIN active' : i < j => active'[i] < active'[j]
  <2>1. ASSUME NEW i \in 1..Len(active) PROVE active[i] < n
    BY <1>1, <1>3, <1>5, <2>1 DEF n, Ids
  <2> QED
    BY <1>2, <2>1 DEF ChargesOK
<1>10. ASSUME NEW i \in Ids
       PROVE  fate'[i].state = "active" <=> \E k \in DOMAIN active' : active'[k] = i
  <2>1. CASE i = n
    BY <1>2, <1>7, <2>1, Len(active) + 1 \in 1..(Len(active) + 1)
  <2>2. CASE i # n
    BY <1>2, <1>6, <1>10, <2>2 DEF ChargesOK
  <2> QED
    BY <2>1, <2>2
<1>11. \A i \in Ids : i > admitted' => fate'[i] = NoFate
  BY <1>1, <1>6 DEF ChargesOK, n, Ids
<1>12. ASSUME NEW i \in Ids PROVE fate'[i].state = "completing" <=> i \in OwedBy(calls')
  <2>1. OwedBy(calls') = OwedBy(calls)
    BY DEF ChargeAdmitted
  <2>2. n \notin OwedBy(calls)
    BY <1>1, <1>4 DEF ChargesOK, NoFate
  <2> QED
    BY <1>6, <1>7, <2>1, <2>2 DEF ChargesOK
<1> QED
  BY <1>8, <1>9, <1>10, <1>11, <1>12 DEF ChargesOK

LEMMA PoppedCharge ==
  ASSUME Control, ChargesOK, ChargePopped, Distinct(calls')
  PROVE  ChargesOK' /\ \A i \in Ids : ChargeStep(i)
<1>1. PICK id \in 0..MaxStatements : Pop(id)
  BY DEF ChargePopped
<1> DEFINE n == Last(active)
           k == Len(active)
<1>2. /\ active \in Seq(Ids) /\ active # <<>> /\ fate \in [Ids -> Fate]
      /\ admitted' = admitted /\ xacts' = xacts /\ active' = Front(active)
      /\ OwedBy(calls') = OwedBy(calls) \cup {n}
  BY <1>1 DEF Control, TypeOK, ChargePopped, Pop
<1>3. /\ DOMAIN active = 1..k /\ DOMAIN active' = 1..(k - 1) /\ k \in Nat \ {0}
      /\ \A i \in 1..(k - 1) : active'[i] = active[i]
      /\ n = active[k] /\ n \in Ids
  BY <1>2, Popped
<1>4. /\ \A i \in Ids \ {n} : fate'[i] = fate[i]
      /\ fate'[n] = [fate[n] EXCEPT !.state = "completing", !.by = id]
      /\ fate[n] \in Fate
  BY <1>1, <1>2, <1>3 DEF Pop
<1>5. fate[n].state = "active"
  BY <1>3, ActiveIds
<1>6. fate'[n].state = "completing" /\ fate'[n].from = fate[n].from
  BY <1>4 DEF Fate
<1>7. \A i \in 1..(k - 1) : active[i] # n
  <2> TAKE i \in 1..(k - 1)
  <2>1. i \in DOMAIN active /\ k \in DOMAIN active /\ i < k
    BY <1>3
  <2>2. active[i] \in Ids /\ active[i] < active[k]
    BY <2>1, ActiveIds DEF ChargesOK
  <2> QED
    BY <1>3, <2>2 DEF Ids
<1> HIDE DEF n, k
<1>8. \A i \in Ids : ChargeStep(i)
  BY <1>2, <1>4, <1>5, <1>6 DEF ChargeStep
<1>9. \A i, j \in DOMAIN active' : i < j => active'[i] < active'[j]
  BY <1>3 DEF ChargesOK
<1>10. ASSUME NEW i \in Ids
       PROVE  /\ fate'[i].state = "active" <=> \E j \in DOMAIN active' : active'[j] = i
              /\ fate'[i].state = "completing" <=> i \in OwedBy(calls')
  <2>1. CASE i = n
    BY <1>2, <1>3, <1>6, <1>7, <2>1
  <2>2. CASE i # n
    <3>1. fate[i].state = "active" <=> \E j \in 1..k : active[j] = i
      BY <1>3 DEF ChargesOK
    <3>2. (\E j \in 1..k : active[j] = i) <=> \E j \in 1..(k - 1) : active[j] = i
      BY <1>3, <2>2
    <3>3. fate[i].state = "completing" <=> i \in OwedBy(calls')
      BY <1>2, <2>2 DEF ChargesOK
    <3> QED
      BY <1>3, <1>4, <2>2, <3>1, <3>2, <3>3
  <2> QED
    BY <2>1, <2>2
<1>11. \A i \in Ids : i > admitted' => fate'[i] = NoFate
  <2>1. \A i \in Ids : i > admitted => i # n
    BY <1>5, ActiveIds DEF NoFate
  <2> QED
    BY <1>2, <1>4, <2>1, ActiveIds
<1> QED
  BY <1>8, <1>9, <1>10, <1>11 DEF ChargesOK

\* Completions that finish or are cut short: the statements of `gone' are no
\* longer owed, and their charges are closed.
LEMMA ClosedCharges ==
  ASSUME Control, ChargesOK, Distinct(calls'), NEW gone \in SUBSET OwedBy(calls),
         NEW state \in Settled, UNCHANGED <<active, admitted, xacts>>,
         OwedBy(calls') = OwedBy(calls) \ gone,
         \A i \in Ids : fate'[i] = IF i \in gone
                                   THEN [fate[i] EXCEPT !.state = state, !.until = xacts]
                                   ELSE fate[i]
  PROVE  ChargesOK' /\ \A i \in Ids : ChargeStep(i)
<1>1. ASSUME NEW i \in Ids
      PROVE  /\ ChargeStep(i)
             /\ fate'[i].state = "active" <=> fate[i].state = "active"
             /\ fate'[i].state = "completing" <=> i \in OwedBy(calls')
             /\ fate[i] = NoFate => fate'[i] = NoFate
  <2>1. CASE i \in gone
    <3>1. fate[i].state = "completing" /\ fate[i] \in Fate
      BY <2>1 DEF ChargesOK, Control, TypeOK
    <3>2. /\ fate'[i].state = state /\ fate'[i].from = fate[i].from
          /\ fate'[i].until = xacts /\ fate'[i].by = fate[i].by
      BY <2>1, <3>1 DEF Fate
    <3>3. state # "active" /\ state # "completing"
      BY DEF Settled
    <3>4. ChargeStep(i)
      BY <3>1, <3>2 DEF ChargeStep
    <3>5. i \notin OwedBy(calls')
      BY <2>1
    <3>6. NoFate.state = "none"
      BY DEF NoFate
    <3>7. fate[i].state # "active" /\ fate[i].state # NoFate.state
      BY <3>1, <3>6
    <3> QED
      BY <3>2, <3>3, <3>4, <3>5, <3>7
  <2>2. CASE i \notin gone
    BY <2>2 DEF ChargeStep, ChargesOK
  <2> QED
    BY <2>1, <2>2
<1> QED
  BY <1>1 DEF ChargesOK

LEMMA ReconciledCharge ==
  ASSUME Control, ChargesOK, ChargeReconciled, Distinct(calls')
  PROVE  ChargesOK' /\ \A i \in Ids : ChargeStep(i)
<1>1. PICK n \in OwedBy(calls) :
        /\ fate' = [fate EXCEPT ![n] = [@ EXCEPT !.state = "reconciled", !.until = xacts]]
        /\ OwedBy(calls') = OwedBy(calls) \ {n}
  BY DEF ChargeReconciled
<1>2. {n} \in SUBSET OwedBy(calls) /\ "reconciled" \in Settled
      /\ UNCHANGED <<active, admitted, xacts>>
  BY DEF ChargeReconciled, Settled
<1>3. \A i \in Ids : fate'[i] = IF i \in {n}
                                THEN [fate[i] EXCEPT !.state = "reconciled", !.until = xacts]
                                ELSE fate[i]
  BY <1>1 DEF Control, TypeOK
<1> QED
  BY <1>1, <1>2, <1>3, ClosedCharges

LEMMA LostCharges ==
  ASSUME Control, ChargesOK, ChargesLost, Distinct(calls')
  PROVE  ChargesOK' /\ \A i \in Ids : ChargeStep(i)
<1> DEFINE gone == OwedBy(calls) \ OwedBy(calls')
<1>1. /\ gone \in SUBSET OwedBy(calls) /\ OwedBy(calls') = OwedBy(calls) \ gone
      /\ "lost" \in Settled /\ UNCHANGED <<active, admitted, xacts>>
  BY DEF ChargesLost, Settled
<1>2. \A i \in Ids : fate'[i] = IF i \in gone
                                THEN [fate[i] EXCEPT !.state = "lost", !.until = xacts]
                                ELSE fate[i]
  BY DEF ChargesLost, Closed
<1> HIDE DEF gone
<1> QED
  BY <1>1, <1>2, ClosedCharges

LEMMA DrainedCharges ==
  ASSUME Control, ChargesOK, ChargesDrained, Distinct(calls')
  PROVE  ChargesOK' /\ \A i \in Ids : ChargeStep(i)
<1>1. PICK state \in {"refunded", "stands"} : fate' = Drained(state)
  BY DEF ChargesDrained
<1>2. active' = <<>> /\ admitted' = admitted /\ DOMAIN active' = {} /\ OwedBy(calls') = {}
  BY DEF ChargesDrained
<1>3. ASSUME NEW i \in Ids
      PROVE  \/ /\ fate[i].state \notin {"active", "completing"} /\ fate'[i] = fate[i]
             \/ /\ fate[i].state \in {"active", "completing"}
                /\ fate'[i].state \in {state, "lost"}
                /\ fate'[i].from = fate[i].from /\ fate'[i].until = xacts
                /\ fate'[i].by = fate[i].by
  <2>1. /\ fate[i].state = "active" <=> i \in ToSet(active)
        /\ fate[i].state = "completing" <=> i \in OwedBy(calls)
    BY DEF ChargesOK, ToSet
  <2>2. fate[i] \in Fate
    BY DEF Control, TypeOK
  <2>3. CASE i \in ToSet(active)
    <3>1. i \notin OwedBy(calls)
      BY <2>1, <2>3
    <3>2. fate'[i] = [fate[i] EXCEPT !.state = state, !.until = xacts]
      BY <1>1, <2>3, <3>1 DEF Drained, Closed
    <3> QED
      BY <2>1, <2>2, <2>3, <3>2 DEF Fate
  <2>4. CASE i \notin ToSet(active) /\ i \in OwedBy(calls)
    <3>1. fate'[i] = [fate[i] EXCEPT !.state = "lost", !.until = xacts]
      BY <1>1, <2>4 DEF Drained, Closed
    <3> QED
      BY <2>1, <2>2, <2>4, <3>1 DEF Fate
  <2>5. CASE i \notin ToSet(active) /\ i \notin OwedBy(calls)
    <3>1. fate'[i] = fate[i]
      BY <1>1, <2>5 DEF Drained, Closed
    <3> QED
      BY <2>1, <2>5, <3>1
  <2> QED
    BY <2>3, <2>4, <2>5
<1>4. \A i \in Ids : ChargeStep(i)
  BY <1>3 DEF ChargeStep, Settled
<1>5. \A i \in Ids : fate'[i].state \notin {"active", "completing"}
  BY <1>1, <1>3
<1>6. \A i \in Ids : i > admitted' => fate'[i] = NoFate
  BY <1>2, <1>3, ActiveIds DEF NoFate
<1> QED
  BY <1>2, <1>4, <1>5, <1>6 DEF ChargesOK

LEMMA ChargesInit == Init => ChargesOK
  BY OwedNone DEF Init, ChargesOK, NoFate

LEMMA ChargesNext ==
  ASSUME Control, ChargesOK, [Next]_vars
  PROVE  ChargesOK' /\ \A i \in Ids : ChargeStep(i)
<1>1. Distinct(calls')
  BY ChargeSteps
<1>2. CASE ChargesKept
  BY <1>1, <1>2 DEF ChargesKept, ChargesOK, ChargeStep
<1> QED
  BY <1>1, <1>2, ChargeSteps, AdmittedCharge, PoppedCharge, ReconciledCharge, LostCharges,
     DrainedCharges

\* Whatever the calls do and in whatever order they end, no event settles a
\* charge that another one has settled, or that an error has lost.
THEOREM ChargesSettledOnce == Spec => SettledOnce
<1>1. Init => Control /\ ChargesOK
  BY ControlInit, ChargesInit
<1>2. Control /\ ChargesOK /\ [Next]_vars => (Control /\ ChargesOK)'
  BY ControlNext, ChargesNext
<1>3. Control /\ ChargesOK /\ [Next]_vars =>
        [\A i \in Ids : fate[i].state \in Settled => fate'[i] = fate[i]]_vars
  BY ChargesNext DEF ChargeStep, Settled, NoFate
<1> QED
  BY <1>1, <1>2, <1>3, PTL DEF Spec, SettledOnce

\* Both ends of a transaction empty the stack and cut short the completions in
\* progress, so no charge is settled by an event of a later transaction, unless
\* PREPARE left the stack as it was.
THEOREM SettledWhereAdmitted == Spec => []SettledInItsTransaction
<1> DEFINE I == Control /\ ChargesOK /\ SettledInItsTransaction
<1>1. Init => I
  BY ControlInit, ChargesInit DEF Init, SettledInItsTransaction, NoFate, Settled
<1>2. ASSUME I, [Next]_vars PROVE I'
  <2>1. (Control /\ ChargesOK)' /\ \A i \in Ids : ChargeStep(i)
    BY <1>2, ControlNext, ChargesNext
  <2>2. ASSUME ~prepared', NEW i \in Ids
        PROVE  /\ fate'[i].state \in Settled => fate'[i].until = fate'[i].from
               /\ fate'[i].state \in {"active", "completing"} => fate'[i].from = xacts'
    <3>1. CASE ChargesDrained
      <4>1. fate'[i].state \notin {"active", "completing"}
        BY <2>1, <3>1 DEF ChargesDrained, ChargesOK
      <4>2. ~prepared
        BY <2>2, <3>1 DEF ChargesDrained
      <4> QED
        BY <1>2, <2>1, <4>1, <4>2 DEF ChargeStep, SettledInItsTransaction, Settled
    <3>2. CASE ~ChargesDrained
      <4>1. ~prepared /\ xacts' = xacts
        <5>1. Control /\ ChargesOK
          BY <1>2
        <5>2. \/ ChargeAdmitted \/ ChargePopped \/ ChargeReconciled \/ ChargesLost
              \/ UNCHANGED <<xacts, prepared>>
          BY <1>2, <2>2, <3>2, <5>1, ChargeSteps
        <5>3. prepared' = prepared /\ xacts' = xacts
          BY <5>2 DEF ChargeAdmitted, ChargePopped, ChargeReconciled, ChargesLost
        <5> QED
          BY <2>2, <5>3
      <4> QED
        BY <1>2, <2>1, <4>1 DEF ChargeStep, SettledInItsTransaction, Settled
    <3> QED
      BY <3>1, <3>2
  <2> QED
    BY <2>1, <2>2 DEF SettledInItsTransaction
<1> QED
  BY <1>1, <1>2, PTL DEF Spec
------------------------------------------------------------------------------
(***************************************************************************)
(* Mirrors: the calls that a stack holds the entries of, as they begin and *)
(* end.  All that is asked of a set of calls is the order of its members.  *)
(***************************************************************************)
LEMMA MirrorsNone ==
  ASSUME NEW entry
  PROVE  Mirrors(<<>>, {}, entry)
<1>1. DOMAIN <<>> = {} /\ <<>> \in [DOMAIN <<>> -> {}]
  OBVIOUS
<1> QED
  BY <1>1 DEF Mirrors

LEMMA MirrorsKept ==
  ASSUME NEW s, NEW those, NEW entry, NEW later, Mirrors(s, those, entry),
         \A k \in those : later[k] = entry[k]
  PROVE  Mirrors(s, those, later)
<1>1. PICK at \in [DOMAIN s -> those] :
        /\ \A i, j \in DOMAIN s : i < j => at[i] < at[j]
        /\ \A k \in those : \E i \in DOMAIN s : at[i] = k
        /\ \A i \in DOMAIN s : s[i] = entry[at[i]]
  BY DEF Mirrors
<1>2. \A i \in DOMAIN s : s[i] = later[at[i]]
  BY <1>1
<1> QED
  BY <1>1, <1>2 DEF Mirrors

LEMMA MirrorsPush ==
  ASSUME NEW S, NEW s \in Seq(S), NEW those \in SUBSET Nat, NEW entry, NEW later,
         Mirrors(s, those, entry), \A k \in those : later[k] = entry[k],
         NEW n \in Nat, \A k \in those : k < n, later[n] \in S,
         NEW more, more = those \cup {n}
  PROVE  Mirrors(Append(s, later[n]), more, later)
<1> DEFINE t == Append(s, later[n])
           m == Len(s)
<1>1. PICK at \in [DOMAIN s -> those] :
        /\ \A i, j \in DOMAIN s : i < j => at[i] < at[j]
        /\ \A k \in those : \E i \in DOMAIN s : at[i] = k
        /\ \A i \in DOMAIN s : s[i] = entry[at[i]]
  BY DEF Mirrors
<1>2. /\ DOMAIN s = 1..m /\ DOMAIN t = 1..(m + 1) /\ m \in Nat
      /\ \A i \in 1..m : t[i] = s[i]
      /\ t[m + 1] = later[n]
  BY Pushed
<1> DEFINE at2 == [i \in 1..(m + 1) |-> IF i = m + 1 THEN n ELSE at[i]]
<1> HIDE DEF t, m
<1>3. at2 \in [DOMAIN t -> more] /\ at2[m + 1] = n
  BY <1>1, <1>2
<1>4. \A i \in 1..m : at2[i] = at[i] /\ at2[i] \in those
  BY <1>1, <1>2
<1>5. m + 1 \in 1..(m + 1) /\ \A i \in 1..(m + 1) : i \in 1..m \/ i = m + 1
  BY <1>2
<1> HIDE DEF at2
<1>6. \A i, j \in DOMAIN t : i < j => at2[i] < at2[j]
  <2> TAKE i, j \in DOMAIN t
  <2> HAVE i < j
  <2>1. i \in 1..m
    BY <1>2
  <2>2. CASE j = m + 1
    BY <1>3, <1>4, <2>1, <2>2
  <2>3. CASE j \in 1..m
    BY <1>1, <1>2, <1>4, <2>1, <2>3
  <2> QED
    BY <1>2, <1>5, <2>2, <2>3
<1>7. \A k \in more : \E i \in DOMAIN t : at2[i] = k
  <2> TAKE k \in more
  <2>1. CASE k = n
    BY <1>2, <1>3, <1>5, <2>1
  <2>2. CASE k \in those
    BY <1>1, <1>2, <1>4, <2>2
  <2> QED
    BY <2>1, <2>2
<1>8. \A i \in DOMAIN t : t[i] = later[at2[i]]
  <2> TAKE i \in DOMAIN t
  <2>1. CASE i = m + 1
    BY <1>2, <1>3, <2>1
  <2>2. CASE i \in 1..m
    BY <1>1, <1>2, <1>4, <2>2
  <2> QED
    BY <1>2, <1>5, <2>1, <2>2
<1>9. Mirrors(t, more, later)
  BY <1>3, <1>6, <1>7, <1>8 DEF Mirrors
<1> QED
  BY <1>9 DEF t

LEMMA MirrorsPop ==
  ASSUME NEW S, NEW s \in Seq(S), NEW those \in SUBSET Nat, NEW entry, NEW later,
         Mirrors(s, those, entry),
         NEW n \in those, \A k \in those : k <= n,
         \A k \in those \ {n} : later[k] = entry[k]
  PROVE  s # <<>> /\ Last(s) = entry[n] /\ Mirrors(Front(s), those \ {n}, later)
<1> DEFINE fewer == those \ {n}
           t == Front(s)
           m == Len(s)
<1>1. PICK at \in [DOMAIN s -> those] :
        /\ \A i, j \in DOMAIN s : i < j => at[i] < at[j]
        /\ \A k \in those : \E i \in DOMAIN s : at[i] = k
        /\ \A i \in DOMAIN s : s[i] = entry[at[i]]
  BY DEF Mirrors
<1>2. PICK last \in DOMAIN s : at[last] = n
  BY <1>1
<1>3. s # <<>>
  BY <1>2
<1>4. /\ m \in Nat \ {0} /\ DOMAIN s = 1..m /\ DOMAIN t = 1..(m - 1)
      /\ \A i \in 1..(m - 1) : t[i] = s[i]
      /\ Last(s) = s[m]
  BY <1>3, Popped
<1> HIDE DEF t, m
<1>5. last = m
  <2>1. at[m] \in those /\ m \in DOMAIN s
    BY <1>1, <1>4
  <2>2. last < m => at[last] < at[m]
    BY <1>1, <2>1
  <2>3. at[m] <= n /\ n \in Nat /\ at[m] \in Nat
    BY <2>1
  <2> QED
    BY <1>2, <1>4, <2>2, <2>3
<1>6. \A i \in 1..(m - 1) : at[i] \in fewer
  <2> TAKE i \in 1..(m - 1)
  <2>1. i \in DOMAIN s /\ last \in DOMAIN s /\ i < last
    BY <1>4, <1>5
  <2>2. at[i] < at[last] /\ at[i] \in those
    BY <1>1, <2>1
  <2> QED
    BY <1>2, <2>2
<1> DEFINE at2 == [i \in 1..(m - 1) |-> at[i]]
<1>7. at2 \in [DOMAIN t -> fewer] /\ \A i \in 1..(m - 1) : at2[i] = at[i]
  BY <1>4, <1>6
<1> HIDE DEF at2
<1>8. \A i, j \in DOMAIN t : i < j => at2[i] < at2[j]
  BY <1>1, <1>4, <1>7
<1>9. \A k \in fewer : \E i \in DOMAIN t : at2[i] = k
  <2> TAKE k \in fewer
  <2>1. PICK i \in DOMAIN s : at[i] = k
    BY <1>1
  <2>2. i # m
    BY <1>2, <1>5, <2>1
  <2> QED
    BY <1>4, <1>7, <2>1, <2>2
<1>10. \A i \in DOMAIN t : t[i] = later[at2[i]]
  <2> TAKE i \in DOMAIN t
  <2>1. i \in 1..(m - 1) /\ i \in DOMAIN s
    BY <1>4
  <2>2. s[i] = entry[at[i]] /\ later[at[i]] = entry[at[i]]
    BY <1>1, <1>6, <2>1
  <2> QED
    BY <1>4, <1>7, <2>1, <2>2
<1>11. Mirrors(t, fewer, later)
  BY <1>7, <1>8, <1>9, <1>10 DEF Mirrors
<1> QED
  BY <1>1, <1>2, <1>3, <1>4, <1>5, <1>11 DEF t
------------------------------------------------------------------------------
(***************************************************************************)
(* The stacks, and how statements end, while calls end in order.           *)
(***************************************************************************)
\* Every completion in progress is that of the call's own statement.
OwnCompletions ==
  \A k \in DOMAIN calls : calls[k].phase = "completing" =>
    calls[k].owes = calls[k].id /\ fate[calls[k].id].by = calls[k].id

\* The stacks mirror the calls, and so every end finds its own statement.  A
\* cursor left open is already a call out of order.
InOrder ==
  /\ StacksMirrorCalls /\ FateMatchesEnd
  /\ ~disturbed => OwnCompletions
  /\ cursors # 0 => disturbed

\* The two stacks mirror the calls.
StacksMirror ==
  /\ Mirrors(active, AdmittedCalls, StatementOf)
  /\ Mirrors(markers, ExecutorCalls, HasStatement)

LEMMA SameButOne ==
  ASSUME NEW A, NEW B, NEW n, A \ {n} = B \ {n}
  PROVE  /\ n \notin A /\ n \notin B => A = B
         /\ n \in A /\ n \notin B => A = B \cup {n}
         /\ n \notin A /\ n \in B => A = B \ {n}
<1>1. \A x : x # n => (x \in A <=> x \in B)
  OBVIOUS
<1> QED
  BY <1>1

LEMMA Below ==
  ASSUME NEW A, NEW n, NEW S, A \ {n} \subseteq S, n \notin A
  PROVE  A \subseteq S
  OBVIOUS

\* Only the call above the first m appears, vanishes or changes.
LEMMA OnlyTopChanges ==
  ASSUME NEW m \in Nat,
         DOMAIN calls \ {m + 1} = 1..m, DOMAIN calls' \ {m + 1} = 1..m,
         \A k \in 1..m : calls'[k] = calls[k]
  PROVE  /\ AdmittedCalls' \ {m + 1} = AdmittedCalls \ {m + 1}
         /\ AdmittedCalls \ {m + 1} \subseteq 1..m
         /\ ExecutorCalls' \ {m + 1} = ExecutorCalls \ {m + 1}
         /\ ExecutorCalls \ {m + 1} \subseteq 1..m
         /\ \A k \in 1..m : StatementOf'[k] = StatementOf[k]
                         /\ HasStatement'[k] = HasStatement[k]
<1>1. \A k \in 1..m : k # m + 1 /\ k \in DOMAIN calls /\ k \in DOMAIN calls'
  OBVIOUS
<1>2. \A k \in DOMAIN calls : k # m + 1 => k \in 1..m
  OBVIOUS
<1>3. \A k \in DOMAIN calls' : k # m + 1 => k \in 1..m
  OBVIOUS
<1>4. AdmittedCalls' \ {m + 1} = AdmittedCalls \ {m + 1}
  BY <1>1, <1>2, <1>3 DEF AdmittedCalls
<1>5. ExecutorCalls' \ {m + 1} = ExecutorCalls \ {m + 1}
  BY <1>1, <1>2, <1>3 DEF ExecutorCalls
<1>6. \A k \in 1..m : StatementOf'[k] = StatementOf[k]
  BY <1>1 DEF StatementOf
<1>7. \A k \in 1..m : HasStatement'[k] = HasStatement[k]
  BY <1>1 DEF HasStatement
<1> QED
  BY <1>2, <1>4, <1>5, <1>6, <1>7 DEF AdmittedCalls, ExecutorCalls

LEMMA CallPushed ==
  ASSUME calls \in Seq(Call), NEW c \in Call, calls' = Append(calls, c)
  PROVE  /\ Len(calls) \in Nat
         /\ DOMAIN calls = 1..Len(calls) /\ DOMAIN calls' = 1..(Len(calls) + 1)
         /\ DOMAIN calls \ {Len(calls) + 1} = 1..Len(calls)
         /\ DOMAIN calls' \ {Len(calls) + 1} = 1..Len(calls)
         /\ \A k \in 1..Len(calls) : calls'[k] = calls[k]
         /\ calls'[Len(calls) + 1] = c
<1>1. /\ Len(calls) \in Nat
      /\ DOMAIN calls = 1..Len(calls) /\ DOMAIN calls' = 1..(Len(calls) + 1)
      /\ \A k \in 1..Len(calls) : calls'[k] = calls[k]
      /\ calls'[Len(calls) + 1] = c
  BY Pushed
<1> QED
  BY <1>1

LEMMA CallPopped ==
  ASSUME calls \in Seq(Call), calls # <<>>, NEW m, m = Len(calls) - 1, calls' = Front(calls)
  PROVE  /\ m \in Nat /\ m + 1 = Len(calls)
         /\ DOMAIN calls = 1..(m + 1) /\ DOMAIN calls' = 1..m
         /\ DOMAIN calls \ {m + 1} = 1..m /\ DOMAIN calls' \ {m + 1} = 1..m
         /\ \A k \in 1..m : calls'[k] = calls[k]
         /\ Top = calls[m + 1]
<1>1. /\ Len(calls) \in Nat \ {0}
      /\ DOMAIN calls = 1..Len(calls) /\ DOMAIN calls' = 1..(Len(calls) - 1)
      /\ \A k \in 1..(Len(calls) - 1) : calls'[k] = calls[k]
      /\ Top = calls[Len(calls)]
  BY Popped DEF Top
<1>2. m \in Nat /\ m + 1 = Len(calls)
  BY <1>1
<1> QED
  BY <1>1, <1>2

LEMMA CallResolved ==
  ASSUME calls \in Seq(Call), calls # <<>>, NEW m, m = Len(calls) - 1,
         NEW c \in Call, calls' = Append(Front(calls), c)
  PROVE  /\ m \in Nat /\ m + 1 = Len(calls)
         /\ DOMAIN calls = 1..(m + 1) /\ DOMAIN calls' = 1..(m + 1)
         /\ DOMAIN calls \ {m + 1} = 1..m /\ DOMAIN calls' \ {m + 1} = 1..m
         /\ \A k \in 1..m : calls'[k] = calls[k]
         /\ Top = calls[m + 1] /\ calls'[m + 1] = c
<1>1. /\ DOMAIN calls' = 1..Len(calls)
      /\ \A k \in 1..(Len(calls) - 1) : calls'[k] = calls[k]
      /\ calls'[Len(calls)] = c
  BY Replaced
<1>2. /\ Len(calls) \in Nat \ {0} /\ DOMAIN calls = 1..Len(calls)
      /\ Top = calls[Len(calls)]
  BY Popped DEF Top
<1>3. m \in Nat /\ m + 1 = Len(calls)
  BY <1>2
<1> QED
  BY <1>1, <1>2, <1>3

\* The sets of calls are sets of positions.
LEMMA Positions == Control => AdmittedCalls \subseteq Nat /\ ExecutorCalls \subseteq Nat
<1> SUFFICES ASSUME Control PROVE AdmittedCalls \subseteq Nat /\ ExecutorCalls \subseteq Nat
  OBVIOUS
<1>1. DOMAIN calls = 1..Len(calls)
  BY LenProperties DEF Control, TypeOK
<1> QED
  BY <1>1 DEF AdmittedCalls, ExecutorCalls

\* A call begins that has no statement; an executor's marker says so.
LEMMA MirrorStart ==
  ASSUME Control, StacksMirror, NEW c \in Call, c.id = 0, calls' = Append(calls, c),
         active' = active,
         markers' = IF c.kind = "executor" /\ c.phase = "running"
                    THEN Append(markers, FALSE) ELSE markers
  PROVE  StacksMirror'
<1> DEFINE m == Len(calls)
<1>1. calls \in Seq(Call) /\ markers \in Seq(BOOLEAN)
  BY DEF Control, TypeOK
<1>2. /\ m \in Nat
      /\ DOMAIN calls = 1..m /\ DOMAIN calls' = 1..(m + 1)
      /\ DOMAIN calls \ {m + 1} = 1..m
      /\ DOMAIN calls' \ {m + 1} = 1..m
      /\ \A k \in 1..m : calls'[k] = calls[k]
      /\ calls'[m + 1] = c
  BY <1>1, CallPushed
<1> HIDE DEF m
<1>3. /\ AdmittedCalls' \ {m + 1} = AdmittedCalls \ {m + 1}
      /\ AdmittedCalls \ {m + 1} \subseteq 1..m
      /\ ExecutorCalls' \ {m + 1} = ExecutorCalls \ {m + 1}
      /\ ExecutorCalls \ {m + 1} \subseteq 1..m
      /\ \A k \in 1..m : StatementOf'[k] = StatementOf[k] /\ HasStatement'[k] = HasStatement[k]
  BY <1>2, OnlyTopChanges
<1>4. m + 1 \notin AdmittedCalls /\ m + 1 \notin ExecutorCalls /\ m + 1 \notin AdmittedCalls'
  BY <1>2 DEF AdmittedCalls, ExecutorCalls
<1>5. AdmittedCalls' = AdmittedCalls /\ AdmittedCalls \subseteq 1..m
      /\ ExecutorCalls \subseteq 1..m
  BY <1>3, <1>4, SameButOne, Below
<1>6. Mirrors(active, AdmittedCalls', StatementOf')
  BY <1>3, <1>5, MirrorsKept DEF StacksMirror
<1>7. Mirrors(markers', ExecutorCalls', HasStatement')
  <2>1. CASE c.kind = "executor" /\ c.phase = "running"
    <3>1. ExecutorCalls' = ExecutorCalls \cup {m + 1}
      <4>1. m + 1 \in ExecutorCalls'
        BY <1>2, <2>1 DEF ExecutorCalls
      <4> QED
        BY <1>3, <1>4, <4>1, SameButOne
    <3>2. HasStatement'[m + 1] = FALSE
      <4>1. m + 1 \in DOMAIN calls'
        BY <1>2
      <4>2. HasStatement'[m + 1] = (calls'[m + 1].id # 0)
        BY <4>1, Zenon DEF HasStatement
      <4> QED
        BY <1>2, <4>2
    <3>3. \A k \in ExecutorCalls : k < m + 1 /\ HasStatement'[k] = HasStatement[k]
      BY <1>2, <1>3, <1>5
    <3>4. Mirrors(Append(markers, HasStatement'[m + 1]), ExecutorCalls', HasStatement')
      <4>1. ExecutorCalls \in SUBSET Nat /\ m + 1 \in Nat
        BY <1>2, <1>5
      <4>2. HasStatement'[m + 1] \in BOOLEAN
        BY <3>2
      <4>3. Mirrors(markers, ExecutorCalls, HasStatement)
        BY DEF StacksMirror
      <4> QED
        BY <1>1, <3>1, <3>3, <4>1, <4>2, <4>3, MirrorsPush
    <3> QED
      BY <2>1, <3>2, <3>4
  <2>2. CASE ~(c.kind = "executor" /\ c.phase = "running")
    <3>1. m + 1 \notin ExecutorCalls'
      BY <1>2, <2>2 DEF ExecutorCalls
    <3>2. ExecutorCalls' = ExecutorCalls
      BY <1>3, <1>4, <3>1, SameButOne
    <3> QED
      BY <1>3, <1>5, <2>2, <3>2, MirrorsKept DEF StacksMirror
  <2> QED
    BY <2>1, <2>2
<1> QED
  BY <1>6, <1>7 DEF StacksMirror

\* The admission on top ends, with a statement or without.
LEMMA MirrorResolve ==
  ASSUME Control, StacksMirror, Admitting,
         NEW c \in Call, c.phase = "running", c.id # 0 => c.id \in Ids,
         calls' = Append(Front(calls), c),
         active' = IF c.id = 0 THEN active ELSE Append(active, c.id),
         markers' = IF c.kind = "executor" THEN Append(markers, c.id # 0) ELSE markers
  PROVE  StacksMirror'
<1> DEFINE m == Len(calls) - 1
<1>1. /\ calls \in Seq(Call) /\ markers \in Seq(BOOLEAN) /\ active \in Seq(Ids)
      /\ calls # <<>> /\ Top.phase = "admitting" /\ CallsOK(calls, admitted)
  BY DEF Control, TypeOK, Admitting
<1>2. /\ m \in Nat
      /\ DOMAIN calls = 1..(m + 1) /\ DOMAIN calls' = 1..(m + 1)
      /\ DOMAIN calls \ {m + 1} = 1..m
      /\ DOMAIN calls' \ {m + 1} = 1..m
      /\ \A k \in 1..m : calls'[k] = calls[k]
      /\ Top = calls[m + 1] /\ calls'[m + 1] = c
  BY <1>1, CallResolved
<1> HIDE DEF m
<1>3. m + 1 \in DOMAIN calls /\ m + 1 \in DOMAIN calls' /\ calls[m + 1].id = 0
  <2>1. m + 1 \in DOMAIN calls /\ m + 1 \in DOMAIN calls'
    BY <1>2
  <2> QED
    BY <1>1, <1>2, <2>1 DEF CallsOK, CallOK
<1>4. /\ AdmittedCalls' \ {m + 1} = AdmittedCalls \ {m + 1}
      /\ AdmittedCalls \ {m + 1} \subseteq 1..m
      /\ ExecutorCalls' \ {m + 1} = ExecutorCalls \ {m + 1}
      /\ ExecutorCalls \ {m + 1} \subseteq 1..m
      /\ \A k \in 1..m : StatementOf'[k] = StatementOf[k] /\ HasStatement'[k] = HasStatement[k]
  BY <1>2, OnlyTopChanges
<1>5. m + 1 \notin AdmittedCalls /\ m + 1 \notin ExecutorCalls
  BY <1>1, <1>2, <1>3 DEF AdmittedCalls, ExecutorCalls
<1>6. AdmittedCalls \subseteq 1..m /\ ExecutorCalls \subseteq 1..m
  BY <1>4, <1>5, Below
<1>7. /\ AdmittedCalls \in SUBSET Nat /\ ExecutorCalls \in SUBSET Nat /\ m + 1 \in Nat
      /\ \A k \in AdmittedCalls : k < m + 1 /\ StatementOf'[k] = StatementOf[k]
      /\ \A k \in ExecutorCalls : k < m + 1 /\ HasStatement'[k] = HasStatement[k]
  BY <1>2, <1>4, <1>6
<1>8. Mirrors(active, AdmittedCalls, StatementOf) /\ Mirrors(markers, ExecutorCalls, HasStatement)
  BY DEF StacksMirror
<1>9. Mirrors(active', AdmittedCalls', StatementOf')
  <2>1. CASE c.id = 0
    <3>1. m + 1 \notin AdmittedCalls'
      BY <1>2, <2>1 DEF AdmittedCalls
    <3>2. AdmittedCalls' = AdmittedCalls
      BY <1>4, <1>5, <3>1, SameButOne
    <3> QED
      BY <1>7, <1>8, <2>1, <3>2, MirrorsKept
  <2>2. CASE c.id # 0
    <3>1. m + 1 \in AdmittedCalls'
      BY <1>2, <1>3, <2>2 DEF AdmittedCalls
    <3>2. AdmittedCalls' = AdmittedCalls \cup {m + 1}
      BY <1>4, <1>5, <3>1, SameButOne
    <3>3. StatementOf'[m + 1] = c.id /\ StatementOf'[m + 1] \in Ids
      BY <1>2, <1>3, <2>2 DEF StatementOf
    <3>4. Mirrors(Append(active, StatementOf'[m + 1]), AdmittedCalls', StatementOf')
      <4>1. /\ active \in Seq(Ids) /\ AdmittedCalls \in SUBSET Nat /\ m + 1 \in Nat
            /\ Mirrors(active, AdmittedCalls, StatementOf)
            /\ \A k \in AdmittedCalls : k < m + 1
            /\ \A k \in AdmittedCalls : StatementOf'[k] = StatementOf[k]
        BY <1>1, <1>7, <1>8
      <4> QED
        BY <3>2, <3>3, <4>1, MirrorsPush, Zenon
    <3> QED
      BY <2>2, <3>3, <3>4
  <2> QED
    BY <2>1, <2>2
<1>10. Mirrors(markers', ExecutorCalls', HasStatement')
  <2>1. CASE c.kind # "executor"
    <3>1. m + 1 \notin ExecutorCalls'
      BY <1>2, <2>1 DEF ExecutorCalls
    <3>2. ExecutorCalls' = ExecutorCalls
      BY <1>4, <1>5, <3>1, SameButOne
    <3> QED
      BY <1>7, <1>8, <2>1, <3>2, MirrorsKept
  <2>2. CASE c.kind = "executor"
    <3>1. m + 1 \in ExecutorCalls'
      BY <1>2, <1>3, <2>2 DEF ExecutorCalls
    <3>2. ExecutorCalls' = ExecutorCalls \cup {m + 1}
      BY <1>4, <1>5, <3>1, SameButOne
    <3>3. HasStatement'[m + 1] = (c.id # 0)
      <4>1. HasStatement'[m + 1] = (calls'[m + 1].id # 0)
        BY <1>3, Zenon DEF HasStatement
      <4> QED
        BY <1>2, <4>1
    <3>4. HasStatement'[m + 1] \in BOOLEAN
      BY <3>3
    <3>5. Mirrors(Append(markers, HasStatement'[m + 1]), ExecutorCalls', HasStatement')
      BY <1>1, <1>7, <1>8, <3>2, <3>4, MirrorsPush
    <3> QED
      BY <2>2, <3>3, <3>5
  <2> QED
    BY <2>1, <2>2
<1> QED
  BY <1>9, <1>10 DEF StacksMirror

\* The end of a call finds its own statement and its own marker on top, and
\* leaves those of the calls below, whether its completion follows or not.
LEMMA MirrorEnd ==
  ASSUME Control, StacksMirror, calls # <<>>,
         \/ calls' = Front(calls)
         \/ \E c \in Call : c.phase = "completing" /\ calls' = Append(Front(calls), c)
  PROVE  LET runs == Top.kind = "executor" /\ Top.phase = "running"
             holds == Top.id # 0 /\ Top.phase = "running"
         IN  /\ holds => active # <<>> /\ Last(active) = Top.id
             /\ runs => markers # <<>> /\ Last(markers) = (Top.id # 0)
             /\ /\ active' = IF holds THEN Front(active) ELSE active
                /\ markers' = IF runs THEN Front(markers) ELSE markers
                => StacksMirror'
<1> DEFINE m == Len(calls) - 1
           runs == Top.kind = "executor" /\ Top.phase = "running"
           holds == Top.id # 0 /\ Top.phase = "running"
<1>1. /\ calls \in Seq(Call) /\ markers \in Seq(BOOLEAN) /\ active \in Seq(Ids)
  BY DEF Control, TypeOK
<1>2. /\ m \in Nat
      /\ DOMAIN calls = 1..(m + 1)
      /\ DOMAIN calls \ {m + 1} = 1..m
      /\ DOMAIN calls' \ {m + 1} = 1..m
      /\ \A k \in 1..m : calls'[k] = calls[k]
      /\ Top = calls[m + 1]
      /\ m + 1 \in DOMAIN calls' => calls'[m + 1].phase = "completing"
  <2>1. CASE calls' = Front(calls)
    <3>1. DOMAIN calls' = 1..m /\ m \in Nat
      BY <1>1, <2>1, CallPopped
    <3>2. m + 1 \notin DOMAIN calls'
      BY <3>1
    <3> QED
      BY <1>1, <2>1, <3>2, CallPopped
  <2>2. CASE \E c \in Call : c.phase = "completing" /\ calls' = Append(Front(calls), c)
    <3>1. PICK c \in Call : c.phase = "completing" /\ calls' = Append(Front(calls), c)
      BY <2>2
    <3> QED
      BY <1>1, <3>1, CallResolved
  <2> QED
    BY <2>1, <2>2
<1> HIDE DEF m
<1>3. m + 1 \in DOMAIN calls
  BY <1>2
<1>4. /\ AdmittedCalls' \ {m + 1} = AdmittedCalls \ {m + 1}
      /\ AdmittedCalls \ {m + 1} \subseteq 1..m
      /\ ExecutorCalls' \ {m + 1} = ExecutorCalls \ {m + 1}
      /\ ExecutorCalls \ {m + 1} \subseteq 1..m
      /\ \A k \in 1..m : StatementOf'[k] = StatementOf[k] /\ HasStatement'[k] = HasStatement[k]
  BY <1>2, OnlyTopChanges
<1>5. m + 1 \notin AdmittedCalls' /\ m + 1 \notin ExecutorCalls'
  BY <1>2 DEF AdmittedCalls, ExecutorCalls
<1>6. AdmittedCalls' \subseteq 1..m /\ ExecutorCalls' \subseteq 1..m
  BY <1>4, <1>5, Below
<1>7. /\ \A k \in AdmittedCalls' : StatementOf'[k] = StatementOf[k]
      /\ \A k \in ExecutorCalls' : HasStatement'[k] = HasStatement[k]
  BY <1>4, <1>6
<1>8. Mirrors(active, AdmittedCalls, StatementOf) /\ Mirrors(markers, ExecutorCalls, HasStatement)
  BY DEF StacksMirror
<1>9. /\ AdmittedCalls \in SUBSET Nat /\ ExecutorCalls \in SUBSET Nat
      /\ \A k \in AdmittedCalls : k <= m + 1
      /\ \A k \in ExecutorCalls : k <= m + 1
  BY <1>2 DEF AdmittedCalls, ExecutorCalls
<1>10. /\ holds => active # <<>> /\ Last(active) = Top.id
       /\ Mirrors(IF holds THEN Front(active) ELSE active, AdmittedCalls', StatementOf')
  <2>1. CASE holds
    <3>1. m + 1 \in AdmittedCalls /\ StatementOf[m + 1] = Top.id
      BY <1>2, <1>3, <2>1 DEF AdmittedCalls, StatementOf
    <3>2. AdmittedCalls' = AdmittedCalls \ {m + 1}
      BY <1>4, <1>5, <3>1, SameButOne
    <3>3. /\ active # <<>> /\ Last(active) = StatementOf[m + 1]
          /\ Mirrors(Front(active), AdmittedCalls', StatementOf')
      <4>1. /\ active \in Seq(Ids) /\ AdmittedCalls \in SUBSET Nat
            /\ Mirrors(active, AdmittedCalls, StatementOf)
            /\ m + 1 \in AdmittedCalls /\ \A k \in AdmittedCalls : k <= m + 1
            /\ \A k \in AdmittedCalls \ {m + 1} : StatementOf'[k] = StatementOf[k]
        BY <1>1, <1>7, <1>8, <1>9, <3>1, <3>2
      <4>2. /\ active # <<>> /\ Last(active) = StatementOf[m + 1]
            /\ Mirrors(Front(active), AdmittedCalls \ {m + 1}, StatementOf')
        BY <4>1, MirrorsPop, Zenon
      <4> QED
        BY <3>2, <4>2
    <3> HIDE DEF holds
    <3> QED
      BY <2>1, <3>1, <3>3
  <2>2. CASE ~holds
    <3>1. m + 1 \notin AdmittedCalls
      BY <1>2, <2>2 DEF AdmittedCalls
    <3>2. AdmittedCalls' = AdmittedCalls
      BY <1>4, <1>5, <3>1, SameButOne
    <3> HIDE DEF holds
    <3> QED
      BY <1>7, <1>8, <2>2, <3>2, MirrorsKept
  <2> QED
    BY <2>1, <2>2
<1>11. /\ runs => markers # <<>> /\ Last(markers) = (Top.id # 0)
       /\ Mirrors(IF runs THEN Front(markers) ELSE markers, ExecutorCalls', HasStatement')
  <2>1. CASE runs
    <3>1. m + 1 \in ExecutorCalls
      BY <1>2, <1>3, <2>1 DEF ExecutorCalls
    <3>2. ExecutorCalls' = ExecutorCalls \ {m + 1}
      BY <1>4, <1>5, <3>1, SameButOne
    <3>3. HasStatement[m + 1] = (Top.id # 0)
      <4>1. HasStatement[m + 1] = (calls[m + 1].id # 0)
        BY <1>3, Zenon DEF HasStatement
      <4> QED
        BY <1>2, <4>1
    <3>4. /\ markers # <<>> /\ Last(markers) = HasStatement[m + 1]
          /\ Mirrors(Front(markers), ExecutorCalls', HasStatement')
      <4>1. /\ markers \in Seq(BOOLEAN) /\ ExecutorCalls \in SUBSET Nat
            /\ Mirrors(markers, ExecutorCalls, HasStatement)
            /\ m + 1 \in ExecutorCalls /\ \A k \in ExecutorCalls : k <= m + 1
            /\ \A k \in ExecutorCalls \ {m + 1} : HasStatement'[k] = HasStatement[k]
        BY <1>1, <1>7, <1>8, <1>9, <3>1, <3>2
      <4>2. /\ markers # <<>> /\ Last(markers) = HasStatement[m + 1]
            /\ Mirrors(Front(markers), ExecutorCalls \ {m + 1}, HasStatement')
        BY <4>1, MirrorsPop, Zenon
      <4> QED
        BY <3>2, <4>2
    <3> HIDE DEF runs
    <3> QED
      BY <2>1, <3>3, <3>4
  <2>2. CASE ~runs
    <3>1. m + 1 \notin ExecutorCalls
      BY <1>2, <2>2 DEF ExecutorCalls
    <3>2. ExecutorCalls' = ExecutorCalls
      BY <1>4, <1>5, <3>1, SameButOne
    <3> HIDE DEF runs
    <3> QED
      BY <1>7, <1>8, <2>2, <3>2, MirrorsKept
  <2> QED
    BY <2>1, <2>2
<1> QED
  BY <1>10, <1>11 DEF StacksMirror

\* No calls, no entries.
LEMMA MirrorNoCalls ==
  ASSUME calls' = <<>>, active' = <<>>, markers' = <<>>
  PROVE  StacksMirror'
<1>1. DOMAIN <<>> = {}
  OBVIOUS
<1>2. AdmittedCalls' = {} /\ ExecutorCalls' = {}
  BY <1>1 DEF AdmittedCalls, ExecutorCalls
<1> QED
  BY <1>2, MirrorsNone DEF StacksMirror

\* A step that ends no statement keeps what the ends of the earlier ones did.
LEMMA EndedEarlier ==
  ASSUME ~disturbed, FateMatchesEnd, NEW i \in Ids, ChargeStep(i), ended'[i] = ended[i]
  PROVE  /\ ended'[i] = "normally" => fate'[i].state = "reconciled" /\ fate'[i].by = i
         /\ ended'[i] = "failed" => \/ fate'[i].state = "refunded"
                                    \/ fate'[i].state = "lost" /\ fate'[i].by = i
  BY DEF FateMatchesEnd, ChargeStep, NoFate

\* The statement of a completion in progress, and its charge.
LEMMA CompletingFacts ==
  ASSUME Control, ChargesOK, OwnCompletions, NEW k \in DOMAIN calls,
         calls[k].phase = "completing"
  PROVE  /\ calls[k].id \in Ids /\ calls[k].owes = calls[k].id
         /\ calls[k].id \in OwedBy(calls)
         /\ fate[calls[k].id].state = "completing" /\ fate[calls[k].id].by = calls[k].id
<1>1. CallOK(calls[k], admitted)
  BY DEF Control, CallsOK
<1>2. calls[k].owes \in OwedBy(calls)
  BY <1>1 DEF CallOK, OwedBy
<1>3. calls[k].owes \in Ids
  BY <1>2, ActiveIds
<1> QED
  BY <1>2, <1>3 DEF OwnCompletions, ChargesOK

LEMMA CompletionsKept ==
  ASSUME Control, ChargesOK, OwnCompletions, \A i \in Ids : ChargeStep(i),
         \A k \in DOMAIN calls' : calls'[k].phase = "completing" =>
           k \in DOMAIN calls /\ calls'[k] = calls[k]
  PROVE  OwnCompletions'
<1> SUFFICES ASSUME NEW k \in DOMAIN calls', calls'[k].phase = "completing"
             PROVE  calls'[k].owes = calls'[k].id /\ fate'[calls'[k].id].by = calls'[k].id
  BY DEF OwnCompletions
<1>1. k \in DOMAIN calls /\ calls'[k] = calls[k] /\ calls[k].phase = "completing"
  OBVIOUS
<1>2. /\ calls[k].id \in Ids /\ calls[k].owes = calls[k].id
      /\ fate[calls[k].id].state = "completing" /\ fate[calls[k].id].by = calls[k].id
  BY <1>1, CompletingFacts
<1>3. fate[calls[k].id] # NoFate
  <2>1. NoFate.state = "none"
    BY DEF NoFate
  <2> QED
    BY <1>2, <2>1
<1>4. fate'[calls[k].id].by = fate[calls[k].id].by
  BY <1>2, <1>3 DEF ChargeStep
<1> QED
  BY <1>1, <1>2, <1>4

\* The top of the stack of calls changes or vanishes, the calls below stay.
LEMMA CompletionsBelow ==
  ASSUME Control, ChargesOK, OwnCompletions, \A i \in Ids : ChargeStep(i),
         \/ \E m \in 0..Len(calls) : calls' = SubSeq(calls, 1, m)
         \/ \E c \in Call : c.phase # "completing" /\ calls' = Append(calls, c)
         \/ /\ calls # <<>>
            /\ \E c \in Call : c.phase # "completing" /\ calls' = Append(Front(calls), c)
  PROVE  OwnCompletions'
<1>1. calls \in Seq(Call)
  BY ControlFacts
<1>2. CASE \E m \in 0..Len(calls) : calls' = SubSeq(calls, 1, m)
  <2>1. PICK m \in 0..Len(calls) : calls' = SubSeq(calls, 1, m)
    BY <1>2
  <2>2. \A k \in DOMAIN calls' : k \in DOMAIN calls /\ calls'[k] = calls[k]
    BY <1>1, <2>1, Cut
  <2> QED
    BY <2>2, CompletionsKept
<1>3. CASE \E c \in Call : c.phase # "completing" /\ calls' = Append(calls, c)
  <2>1. PICK c \in Call : c.phase # "completing" /\ calls' = Append(calls, c)
    BY <1>3
  <2>2. /\ DOMAIN calls = 1..Len(calls) /\ DOMAIN calls' = 1..(Len(calls) + 1)
        /\ \A k \in 1..Len(calls) : calls'[k] = calls[k]
        /\ calls'[Len(calls) + 1] = c /\ Len(calls) \in Nat
    BY <1>1, <2>1, CallPushed
  <2>3. \A k \in DOMAIN calls' : k \in 1..Len(calls) \/ k = Len(calls) + 1
    BY <2>2
  <2> QED
    BY <2>1, <2>2, <2>3, CompletionsKept
<1>4. CASE /\ calls # <<>>
           /\ \E c \in Call : c.phase # "completing" /\ calls' = Append(Front(calls), c)
  <2>1. PICK c \in Call : c.phase # "completing" /\ calls' = Append(Front(calls), c)
    BY <1>4
  <2> DEFINE m == Len(calls) - 1
  <2>2. /\ DOMAIN calls = 1..(m + 1) /\ DOMAIN calls' = 1..(m + 1) /\ m \in Nat
        /\ \A k \in 1..m : calls'[k] = calls[k]
        /\ calls'[m + 1] = c
    BY <1>1, <1>4, <2>1, CallResolved
  <2> HIDE DEF m
  <2>3. \A k \in DOMAIN calls' : k \in 1..m \/ k = m + 1
    BY <2>2
  <2>4. \A k \in 1..m : k \in DOMAIN calls
    BY <2>2
  <2> QED
    BY <2>1, <2>2, <2>3, <2>4, CompletionsKept
<1> QED
  BY <1>2, <1>3, <1>4

\* The end of the call on top pops its own statement, whose completion begins.
LEMMA EndInOrder ==
  ASSUME Control, ChargesOK, StacksMirror, OwnCompletions, ~disturbed, FateMatchesEnd,
         \A i \in Ids : ChargeStep(i),
         calls # <<>>, Top.phase = "running", Top.kind # "lookup",
         NEW known, known <=> Top.id # 0, End(Top, Front(calls), known),
         markers' = IF Top.kind = "executor" THEN Front(markers) ELSE markers
  PROVE  StacksMirror' /\ FateMatchesEnd' /\ OwnCompletions'
<1>1. /\ calls \in Seq(Call) /\ active \in Seq(Ids) /\ fate \in [Ids -> Fate]
      /\ Top \in Call /\ CallOK(Top, admitted)
  BY ControlFacts DEF Control, TypeOK
<1>2. CASE Top.id = 0
  <2>1. calls' = Front(calls) /\ ended' = ended /\ active' = active
    BY <1>2, EndCases DEF EndsNormally
  <2>2. StacksMirror'
    BY <1>2, <2>1, MirrorEnd
  <2>3. FateMatchesEnd'
    BY <2>1, EndedEarlier DEF FateMatchesEnd
  <2>4. \E m \in 0..Len(calls) : calls' = SubSeq(calls, 1, m)
    BY <1>1, <2>1, Popped
  <2>5. OwnCompletions'
    BY <2>4, CompletionsBelow
  <2> QED
    BY <2>2, <2>3, <2>5
<1>3. CASE Top.id # 0
  <2> DEFINE c == Completing(Top)
             m == Len(calls) - 1
  <2>1. active # <<>>
    <3>1. calls' = Front(calls) => active # <<>>
      BY <1>3, MirrorEnd
    <3> QED
      BY <1>3, <3>1, EndCases DEF Pop
  <2>2. Pop(Top.id) /\ calls' = Append(Front(calls), c) /\ ended' = ended
    BY <1>3, <2>1, EndCases
  <2>3. /\ c \in Call /\ c.phase = "completing" /\ c.id = Top.id
        /\ c.owes = Last(active) /\ Last(active) \in Ids
    BY <1>1, <2>1, CompletingCall
  <2>4. Last(active) = Top.id
    BY <1>3, <2>2, <2>3, MirrorEnd
  <2>5. StacksMirror'
    BY <1>3, <2>2, <2>3, MirrorEnd DEF Pop
  <2>6. FateMatchesEnd'
    BY <2>2, EndedEarlier DEF FateMatchesEnd
  <2>7. fate'[Top.id].by = Top.id
    <3>1. fate[Top.id] \in Fate
      BY <1>1, <2>3, <2>4
    <3>2. fate'[Top.id] = [fate[Top.id] EXCEPT !.state = "completing", !.by = Top.id]
      BY <1>1, <2>2, <2>3, <2>4 DEF Pop
    <3> QED
      BY <3>1, <3>2 DEF Fate
  <2>8. /\ DOMAIN calls = 1..(m + 1) /\ DOMAIN calls' = 1..(m + 1) /\ m \in Nat
        /\ \A k \in 1..m : calls'[k] = calls[k]
        /\ calls'[m + 1] = c
    BY <1>1, <2>2, <2>3, CallResolved
  <2> HIDE DEF c, m
  <2>9. ASSUME NEW k \in DOMAIN calls', calls'[k].phase = "completing"
        PROVE  calls'[k].owes = calls'[k].id /\ fate'[calls'[k].id].by = calls'[k].id
    <3>1. CASE k \in 1..m
      <4>1. k \in DOMAIN calls /\ calls'[k] = calls[k]
        BY <2>8, <3>1
      <4>2. /\ calls[k].id \in Ids /\ calls[k].owes = calls[k].id
            /\ fate[calls[k].id].state = "completing" /\ fate[calls[k].id].by = calls[k].id
        BY <2>9, <4>1, CompletingFacts
      <4>3. fate[Top.id].state = "active"
        <5>1. Last(active) = active[Len(active)] /\ DOMAIN active = 1..Len(active)
              /\ Len(active) \in Nat \ {0}
          BY <1>1, <2>1, Popped
        <5>2. Len(active) \in DOMAIN active
          BY <5>1
        <5> QED
          BY <2>4, <5>1, <5>2, ActiveIds
      <4>4. calls[k].id # Top.id
        BY <4>2, <4>3
      <4>5. fate'[calls[k].id] = fate[calls[k].id]
        BY <1>1, <2>2, <2>4, <4>2, <4>4 DEF Pop
      <4> QED
        BY <4>1, <4>2, <4>5
    <3>2. CASE k = m + 1
      BY <2>3, <2>4, <2>7, <2>8, <3>2
    <3> QED
      BY <2>8, <3>1, <3>2
  <2>10. OwnCompletions'
    BY <2>9 DEF OwnCompletions
  <2> QED
    BY <2>5, <2>6, <2>10
<1> QED
  BY <1>2, <1>3

\* The completion on top settles the charge of its own statement.
LEMMA ReconcileInOrder ==
  ASSUME Control, ChargesOK, StacksMirror, OwnCompletions, ~disturbed, FateMatchesEnd,
         \A i \in Ids : ChargeStep(i), Reconcile
  PROVE  StacksMirror' /\ FateMatchesEnd' /\ OwnCompletions'
<1>1. /\ calls \in Seq(Call) /\ fate \in [Ids -> Fate]
      /\ ended \in [Ids -> {"no", "normally", "failed"}]
      /\ calls # <<>> /\ Top.phase = "completing" /\ calls' = Front(calls)
      /\ ended' = EndsNormally(Top.id) /\ active' = active /\ markers' = markers
  BY DEF Control, TypeOK, Reconcile
<1>2. Len(calls) \in DOMAIN calls /\ Top = calls[Len(calls)]
  <2>1. Top = calls[Len(calls)] /\ DOMAIN calls = 1..Len(calls) /\ Len(calls) \in Nat \ {0}
    BY <1>1, Popped DEF Top
  <2> QED
    BY <2>1
<1>3. Top.id \in Ids /\ Top.owes = Top.id /\ fate[Top.id].by = Top.id
  BY <1>1, <1>2, CompletingFacts
<1>4. StacksMirror'
  BY <1>1, MirrorEnd
<1>5. fate'[Top.id].state = "reconciled" /\ fate'[Top.id].by = Top.id
  <2>1. fate[Top.id] \in Fate
    BY <1>1, <1>3
  <2>2. fate'[Top.id] = [fate[Top.id] EXCEPT !.state = "reconciled", !.until = xacts]
    BY <1>1, <1>3 DEF Reconcile
  <2> QED
    BY <1>3, <2>1, <2>2 DEF Fate
<1>6. ended'[Top.id] = "normally" /\ \A i \in Ids : i # Top.id => ended'[i] = ended[i]
  BY <1>1, <1>3 DEF EndsNormally, Ids
<1>7. FateMatchesEnd'
  BY <1>5, <1>6, EndedEarlier DEF FateMatchesEnd
<1>8. \E m \in 0..Len(calls) : calls' = SubSeq(calls, 1, m)
  BY <1>1, Popped
<1>9. OwnCompletions'
  BY <1>8, CompletionsBelow
<1> QED
  BY <1>4, <1>7, <1>9

\* An abort refunds the statements of all the calls that it ends, but for those
\* in their completion, whose charges it loses.
LEMMA AbortRefunds ==
  ASSUME Control, ChargesOK, StacksMirror, OwnCompletions, ~disturbed, FateMatchesEnd,
         \A i \in Ids : ChargeStep(i), fate' = Drained("refunded"), ended' = Fails(IdsOf(calls))
  PROVE  FateMatchesEnd'
<1>1. ASSUME NEW i \in IdsOf(calls)
      PROVE  \/ i \in ToSet(active)
             \/ i \in OwedBy(calls) /\ i \notin ToSet(active) /\ i \in Ids /\ fate[i].by = i
  <2>1. PICK k \in DOMAIN calls : calls[k].id = i /\ i # 0
    BY DEF IdsOf
  <2>2. CallOK(calls[k], admitted) /\ calls[k] \in Call
    BY <2>1, ElementOfSeq, LenProperties DEF Control, TypeOK, CallsOK
  <2>3. calls[k].phase = "running" \/ calls[k].phase = "completing"
    BY <2>1, <2>2 DEF CallOK, Call
  <2>4. CASE calls[k].phase = "running"
    <3>1. k \in AdmittedCalls /\ StatementOf[k] = i
      BY <2>1, <2>4 DEF AdmittedCalls, StatementOf
    <3>2. PICK at \in [DOMAIN active -> AdmittedCalls] :
            /\ \A n \in AdmittedCalls : \E j \in DOMAIN active : at[j] = n
            /\ \A j \in DOMAIN active : active[j] = StatementOf[at[j]]
      BY DEF StacksMirror, Mirrors
    <3> QED
      BY <3>1, <3>2 DEF ToSet
  <2>5. CASE calls[k].phase = "completing"
    <3>1. /\ i \in Ids /\ i \in OwedBy(calls) /\ fate[i].state = "completing"
          /\ fate[i].by = i
      BY <2>1, <2>5, CompletingFacts
    <3>2. i \notin ToSet(active)
      <4>1. fate[i].state # "active"
        BY <3>1
      <4> QED
        BY <3>1, <4>1 DEF ChargesOK, ToSet
    <3> QED
      BY <3>1, <3>2
  <2> QED
    BY <2>3, <2>4, <2>5
<1>2. ASSUME NEW i \in Ids
      PROVE  /\ ended'[i] = "normally" => fate'[i].state = "reconciled" /\ fate'[i].by = i
             /\ ended'[i] = "failed" => \/ fate'[i].state = "refunded"
                                        \/ fate'[i].state = "lost" /\ fate'[i].by = i
  <2>1. CASE i \in IdsOf(calls)
    <3>1. ended'[i] = "failed"
      BY <2>1 DEF Fails
    <3>2. fate[i] \in Fate
      BY DEF Control, TypeOK
    <3>3. CASE i \in ToSet(active) /\ i \notin OwedBy(calls)
      <4>1. fate'[i] = [fate[i] EXCEPT !.state = "refunded", !.until = xacts]
        BY <3>3 DEF Drained, Closed
      <4>2. fate'[i].state = "refunded"
        BY <3>2, <4>1 DEF Fate
      <4> QED
        BY <3>1, <4>2
    <3>4. CASE i \in OwedBy(calls) /\ i \notin ToSet(active)
      <4>1. fate'[i] = [fate[i] EXCEPT !.state = "lost", !.until = xacts]
        BY <3>4 DEF Drained, Closed
      <4>2. fate'[i].state = "lost" /\ fate'[i].by = fate[i].by /\ fate[i].by = i
        BY <1>1, <2>1, <3>2, <3>4, <4>1 DEF Fate
      <4> QED
        BY <3>1, <4>2
    <3>5. ~(i \in ToSet(active) /\ i \in OwedBy(calls))
      BY DEF ChargesOK, ToSet
    <3> QED
      BY <1>1, <2>1, <3>3, <3>4, <3>5
  <2>2. CASE i \notin IdsOf(calls)
    <3>1. ended'[i] = ended[i]
      BY <2>2 DEF Fails
    <3> QED
      BY <3>1, EndedEarlier
  <2> QED
    BY <2>1, <2>2
<1> QED
  BY <1>2 DEF FateMatchesEnd

LEMMA InOrderInit == Init => InOrder
<1> SUFFICES ASSUME Init PROVE InOrder
  OBVIOUS
<1>1. DOMAIN <<>> = {}
  OBVIOUS
<1>2. AdmittedCalls = {} /\ ExecutorCalls = {} /\ OwnCompletions
  BY <1>1 DEF Init, AdmittedCalls, ExecutorCalls, OwnCompletions
<1>3. StacksMirrorCalls
  BY <1>2, MirrorsNone DEF Init, StacksMirrorCalls
<1>4. FateMatchesEnd /\ (cursors # 0 => disturbed)
  BY DEF Init, FateMatchesEnd
<1> QED
  BY <1>2, <1>3, <1>4 DEF InOrder

LEMMA InOrderNext == Control /\ ChargesOK /\ InOrder /\ [Next]_vars => InOrder'
<1> SUFFICES ASSUME Control, ChargesOK, InOrder, [Next]_vars, ~disturbed' PROVE InOrder'
  BY DEF InOrder, StacksMirrorCalls, FateMatchesEnd
<1>1. ~disturbed
  BY DEF Next, StartUntrackedExecutor, StartUntrackedUtility, StartAdmission, StartLookup,
         EndLookup, Admit, FailOpen, Reject, EndExecutor, EndUtility, Reconcile, OpenCursor,
         CloseCursor, Raise, CatchError, Commit, Abort, InnerEnd, Prepare, Done, vars
<1>2. StacksMirror /\ FateMatchesEnd /\ OwnCompletions /\ cursors = 0
  BY <1>1 DEF InOrder, StacksMirrorCalls, StacksMirror
<1>3. \A i \in Ids : ChargeStep(i)
  BY ChargesNext
<1>4. ended' = ended => FateMatchesEnd'
  BY <1>1, <1>2, <1>3, EndedEarlier DEF FateMatchesEnd
<1>5. StacksMirror' /\ FateMatchesEnd' /\ OwnCompletions' /\ cursors' = 0 => InOrder'
  BY DEF InOrder, StacksMirrorCalls, StacksMirror
<1>6. UNCHANGED <<active, markers, calls>> => StacksMirror'
  BY <1>2 DEF StacksMirror, AdmittedCalls, ExecutorCalls, StatementOf, HasStatement
<1>7. /\ calls \in Seq(Call) /\ admitted \in Nat /\ markers \in Seq(BOOLEAN)
      /\ calls # <<>> => Top \in Call /\ CallOK(Top, admitted)
  BY ControlFacts
<1>8. calls' = calls \/ calls' = <<>> \/ (calls # <<>> /\ calls' = Front(calls))
        => OwnCompletions'
  <2>1. Len(calls) \in Nat /\ SubSeq(calls, 1, 0) = <<>>
    BY <1>7, LenProperties, SubSeqEmpty
  <2>2. calls' = calls => OwnCompletions'
    BY <1>2, <1>3, CompletionsKept
  <2>3. calls' = <<>> => OwnCompletions'
    <3>1. 0 \in 0..Len(calls)
      BY <2>1
    <3> QED
      BY <1>2, <1>3, <2>1, <3>1, CompletionsBelow
  <2>4. calls # <<>> => Len(calls) - 1 \in 0..Len(calls) /\ Front(calls) = SubSeq(calls, 1, Len(calls) - 1)
    BY <1>7, Popped
  <2> QED
    BY <1>2, <1>3, <2>2, <2>3, <2>4, CompletionsBelow
<1>9. ASSUME NEW c \in Call, c.phase # "completing",
             calls' = Append(calls, c) \/ (calls # <<>> /\ calls' = Append(Front(calls), c))
      PROVE  OwnCompletions'
  BY <1>2, <1>3, <1>9, CompletionsBelow
<1>10. CASE StartUntrackedExecutor \/ StartUntrackedUtility \/ StartLookup
  <2>1. PICK c \in Call :
          /\ c.id = 0 /\ c.phase = "running" /\ calls' = Append(calls, c)
          /\ markers' = IF c.kind = "executor" THEN Append(markers, FALSE) ELSE markers
    BY <1>7, <1>10, NewCallOK DEF StartUntrackedExecutor, StartUntrackedUtility, StartLookup
  <2>2. UNCHANGED <<active, ended, cursors>>
    BY <1>10 DEF StartUntrackedExecutor, StartUntrackedUtility, StartLookup
  <2>3. StacksMirror'
    BY <1>2, <2>1, <2>2, MirrorStart
  <2>4. OwnCompletions'
    BY <1>9, <2>1
  <2> QED
    BY <1>2, <1>4, <1>5, <2>2, <2>3, <2>4
<1>11. CASE \E kind \in {"executor", "utility"} : StartAdmission(kind)
  <2>1. PICK kind \in {"executor", "utility"} : StartAdmission(kind)
    BY <1>11
  <2>2. PICK c \in Call : c.id = 0 /\ c.phase = "admitting" /\ calls' = Append(calls, c)
    BY <1>7, <2>1, NewCallOK DEF StartAdmission
  <2>3. UNCHANGED <<active, markers, ended, cursors>>
    BY <2>1 DEF StartAdmission
  <2>4. StacksMirror'
    BY <1>2, <2>2, <2>3, MirrorStart
  <2>5. OwnCompletions'
    BY <1>9, <2>2
  <2> QED
    BY <1>2, <1>4, <1>5, <2>3, <2>4, <2>5
<1>12. CASE Admit
  <2> DEFINE c == [Top EXCEPT !.phase = "running", !.id = admitted']
  <2>1. admitted' \in Ids /\ admitted' # 0 /\ admitted' \in 0..MaxStatements
    BY <1>12, BoundsAssumption DEF Admit, Ids, Control, TypeOK
  <2>2. c \in Call /\ c.phase = "running" /\ c.id = admitted' /\ c.kind = Top.kind
    BY <1>7, <1>12, <2>1 DEF Admit, Admitting, Call
  <2>3. /\ calls' = Append(Front(calls), c) /\ Admitting /\ calls # <<>>
        /\ active' = Append(active, admitted')
        /\ markers' = IF Top.kind = "executor" THEN Append(markers, TRUE) ELSE markers
    BY <1>12 DEF Admit, Admitting
  <2> HIDE DEF c
  <2>4. /\ active' = IF c.id = 0 THEN active ELSE Append(active, c.id)
        /\ markers' = IF c.kind = "executor" THEN Append(markers, c.id # 0) ELSE markers
    BY <2>1, <2>2, <2>3
  <2>5. StacksMirror'
    BY <1>2, <2>1, <2>2, <2>3, <2>4, MirrorResolve
  <2>6. OwnCompletions'
    BY <1>9, <2>2, <2>3
  <2> QED
    BY <1>2, <1>4, <1>5, <1>12, <2>5, <2>6 DEF Admit
<1>13. CASE FailOpen
  <2> DEFINE c == [Top EXCEPT !.phase = "running"]
  <2>1. Top \in Call /\ Top.id = 0
    BY <1>7, <1>13 DEF FailOpen, Admitting, CallOK
  <2>2. c \in Call /\ c.phase = "running" /\ c.id = 0 /\ c.kind = Top.kind
    BY <2>1 DEF Call
  <2>3. /\ calls' = Append(Front(calls), c) /\ Admitting /\ calls # <<>>
        /\ active' = active
        /\ markers' = IF Top.kind = "executor" THEN Append(markers, FALSE) ELSE markers
    BY <1>13 DEF FailOpen, Admitting
  <2> HIDE DEF c
  <2>4. /\ active' = IF c.id = 0 THEN active ELSE Append(active, c.id)
        /\ markers' = IF c.kind = "executor" THEN Append(markers, c.id # 0) ELSE markers
    BY <2>2, <2>3
  <2>5. StacksMirror'
    BY <1>2, <2>2, <2>3, <2>4, MirrorResolve
  <2>6. OwnCompletions'
    BY <1>9, <2>2, <2>3
  <2> QED
    BY <1>2, <1>4, <1>5, <1>13, <2>5, <2>6 DEF FailOpen
<1>14. CASE EndLookup \/ Reject
  <2>1. /\ calls # <<>> /\ calls' = Front(calls) /\ UNCHANGED <<active, markers, ended, cursors>>
        /\ Top.kind = "lookup" \/ Top.phase = "admitting"
    BY <1>14 DEF EndLookup, Reject, Admitting
  <2>2. Top.id = 0 /\ ~(Top.kind = "executor" /\ Top.phase = "running")
    BY <1>7, <2>1 DEF CallOK
  <2>3. StacksMirror'
    BY <1>2, <2>1, <2>2, MirrorEnd
  <2> QED
    BY <1>2, <1>4, <1>5, <1>8, <2>1, <2>3
<1>15. CASE EndExecutor
  <2> DEFINE known == markers # <<>> /\ Last(markers)
  <2>1. /\ calls # <<>> /\ Top.kind = "executor" /\ Top.phase = "running"
        /\ End(Top, Front(calls), known)
        /\ markers' = IF markers = <<>> THEN <<>> ELSE Front(markers)
        /\ cursors' = cursors
    BY <1>15 DEF EndExecutor, CompleteExecutor
  <2>2. \/ calls' = Front(calls)
        \/ \E c \in Call : c.phase = "completing" /\ calls' = Append(Front(calls), c)
    <3>1. active # <<>> => Completing(Top) \in Call /\ Completing(Top).phase = "completing"
      BY <1>7, <2>1, CompletingCall
    <3> QED
      BY <2>1, <3>1, EndCases DEF Pop
  <2>3. markers # <<>> /\ Last(markers) = (Top.id # 0)
    BY <1>2, <2>1, <2>2, MirrorEnd
  <2>4. known <=> Top.id # 0
    BY <2>3
  <2>5. markers' = IF Top.kind = "executor" THEN Front(markers) ELSE markers
    BY <2>1, <2>3
  <2> HIDE DEF known
  <2> QED
    BY <1>1, <1>2, <1>3, <1>5, <2>1, <2>4, <2>5, EndInOrder
<1>16. CASE EndUtility
  <2>1. /\ calls # <<>> /\ Top.kind = "utility" /\ Top.phase = "running"
        /\ End(Top, Front(calls), Top.id # 0) /\ cursors' = cursors
        /\ markers' = IF Top.kind = "executor" THEN Front(markers) ELSE markers
    BY <1>16 DEF EndUtility
  <2> QED
    BY <1>1, <1>2, <1>3, <1>5, <2>1, EndInOrder
<1>17. CASE Reconcile
  <2>1. StacksMirror' /\ FateMatchesEnd' /\ OwnCompletions'
    BY <1>1, <1>2, <1>3, <1>17, ReconcileInOrder
  <2> QED
    BY <1>2, <1>5, <1>17, <2>1 DEF Reconcile
<1>18. CASE CloseCursor
  BY <1>2, <1>18 DEF CloseCursor
<1>19. CASE Raise
  BY <1>2, <1>4, <1>5, <1>6, <1>8, <1>19 DEF Raise
<1>20. CASE Commit
  <2>1. StacksMirror'
    BY <1>20, MirrorNoCalls DEF Commit, Idle, TransactionEnding
  <2> QED
    BY <1>2, <1>4, <1>5, <1>8, <1>20, <2>1 DEF Commit
<1>21. CASE Abort
  <2>1. StacksMirror' /\ OwnCompletions' /\ cursors' = 0
    BY <1>8, <1>21, MirrorNoCalls DEF Abort, TransactionEnding
  <2>2. fate' = Drained("refunded") /\ ended' = Fails(IdsOf(calls))
    BY <1>21 DEF Abort, TransactionEnding
  <2>3. FateMatchesEnd'
    BY <1>1, <1>2, <1>3, <2>2, AbortRefunds
  <2> QED
    BY <1>5, <2>1, <2>3
<1>22. CASE OpenCursor \/ CatchError \/ InnerEnd \/ Prepare
  BY <1>22 DEF OpenCursor, CatchError, InnerEnd, Prepare
<1>23. CASE UNCHANGED vars
  BY <1>2, <1>4, <1>5, <1>6, <1>8, <1>23 DEF vars
<1>24. CASE Done
  BY <1>23, <1>24 DEF Done
<1> QED
  BY <1>10, <1>11, <1>12, <1>13, <1>14, <1>15, <1>16, <1>17, <1>18, <1>19, <1>20,
     <1>21, <1>22, <1>23, <1>24 DEF Next

\* As long as calls end in order, the stacks hold the entries of the calls in
\* progress and no others, at any depth.
THEOREM StacksMirrorTheCalls == Spec => []StacksMirrorCalls
<1>1. Init => Control /\ ChargesOK /\ InOrder
  BY ControlInit, ChargesInit, InOrderInit
<1>2. Control /\ ChargesOK /\ InOrder /\ [Next]_vars => (Control /\ ChargesOK /\ InOrder)'
  BY ControlNext, ChargesNext, InOrderNext
<1>3. InOrder => StacksMirrorCalls
  BY DEF InOrder
<1> QED
  BY <1>1, <1>2, <1>3, PTL DEF Spec

\* As long as calls end in order, a statement that completes is reconciled by
\* its own completion, and one that fails is refunded, or loses its charge with
\* its own completion.
THEOREM FatesMatchEnds == Spec => []FateMatchesEnd
<1>1. Init => Control /\ ChargesOK /\ InOrder
  BY ControlInit, ChargesInit, InOrderInit
<1>2. Control /\ ChargesOK /\ InOrder /\ [Next]_vars => (Control /\ ChargesOK /\ InOrder)'
  BY ControlNext, ChargesNext, InOrderNext
<1>3. InOrder => FateMatchesEnd
  BY DEF InOrder
<1> QED
  BY <1>1, <1>2, <1>3, PTL DEF Spec
=============================================================================
