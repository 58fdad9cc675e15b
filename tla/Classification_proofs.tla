----------------------- MODULE Classification_proofs -----------------------
(***************************************************************************)
(* Which statements are admitted and how much WAL is ascribed to them      *)
(* (StatementWal), and to which scope they are charged                     *)
(* (ScopeClassification), for all statements and names, any depth of calls *)
(* and any length of a run.                                                *)
(***************************************************************************)
EXTENDS ScopeClassification, StatementWal, FiniteFolds, SequenceTheorems

-----------------------------------------------------------------------------
(* The WAL of statements.                                                  *)

Classes == {"read_only", "write", "utility", "copy", "unknown"}
Calls ==
  [statement : Plans \cup Utilities, class : Classes, executes : BOOLEAN, start : Nat]

CountersOK == begun \in Nat /\ wal \in Nat /\ ascribed \in Nat /\ unseen \in Nat

\* The calls, each with the WAL position of a moment in the past.
CallsOK ==
  /\ calls \in Seq(Calls)
  /\ \A i \in DOMAIN calls : calls[i].start <= wal

\* What is ascribed and what was unseen cover all WAL up to the start of the
\* outermost admitted statement; without one, all WAL.  (The end of that
\* statement ascribes the rest.)
Covered ==
  \/ /\ \A i \in DOMAIN calls : ~IsAdmitted(calls[i])
     /\ ascribed + unseen >= wal
  \/ \E i \in DOMAIN calls :
       /\ IsAdmitted(calls[i]) /\ \A j \in 1..(i - 1) : ~IsAdmitted(calls[j])
       /\ ascribed + unseen >= calls[i].start

WalInv == CountersOK /\ CallsOK /\ Covered

LEMMA PlanHasClass == \A plan : ClassOfPlan(plan) \in Classes
  BY DEF ClassOfPlan, Classes, Writing

LEMMA UtilityHasClass == \A utility, tree : ClassOfUtility(utility, tree) \in Classes
  BY DEF ClassOfUtility, Classes

LEMMA WalInvInit == WalInit => WalInv
  BY DEF WalInit, WalInv, CountersOK, CallsOK, Covered

LEMMA StartsAreNatural ==
  ASSUME CallsOK
  PROVE  \A i \in DOMAIN calls : calls[i].start \in Nat
<1>1. \A i \in DOMAIN calls : calls[i] \in Calls
  BY DEF CallsOK
<1> QED
  BY <1>1 DEF Calls

\* A call begins: it is the innermost, at the WAL position of now.
LEMMA BeginKeepsWalInv ==
  ASSUME WalInv, NEW statement \in Plans \cup Utilities, NEW class \in Classes,
         NEW executes \in BOOLEAN, Begin(statement, class, executes)
  PROVE  WalInv'
<1> DEFINE call == Call(statement, class, executes)
<1>1. call \in Calls /\ call.start = wal
  BY DEF Call, Calls, WalInv, CountersOK
<1>2. /\ calls' = Append(calls, call) /\ calls \in Seq(Calls)
      /\ wal' = wal /\ ascribed' = ascribed /\ unseen' = unseen /\ begun' = begun + 1
  BY DEF Begin, WalInv, CallsOK
<1> HIDE DEF call
<1>3. /\ calls' \in Seq(Calls) /\ Len(calls') = Len(calls) + 1
      /\ DOMAIN calls' = 1..(Len(calls) + 1) /\ DOMAIN calls = 1..Len(calls)
      /\ Len(calls) \in Nat
      /\ calls'[Len(calls) + 1] = call
      /\ \A i \in 1..Len(calls) : calls'[i] = calls[i]
  BY <1>1, <1>2
<1>4. CountersOK'
  BY <1>2 DEF WalInv, CountersOK
<1>5. CallsOK'
  BY <1>1, <1>2, <1>3 DEF WalInv, CountersOK, CallsOK
<1>6. Covered'
  <2>1. CASE \E i \in DOMAIN calls :
               /\ IsAdmitted(calls[i]) /\ \A j \in 1..(i - 1) : ~IsAdmitted(calls[j])
               /\ ascribed + unseen >= calls[i].start
    <3>1. PICK i \in 1..Len(calls) :
            /\ IsAdmitted(calls[i]) /\ \A j \in 1..(i - 1) : ~IsAdmitted(calls[j])
            /\ ascribed + unseen >= calls[i].start
      BY <1>3, <2>1
    <3>2. \A j \in 1..(i - 1) : j \in 1..Len(calls)
      BY <1>3
    <3>3. i \in DOMAIN calls' /\ calls'[i] = calls[i]
      BY <1>3
    <3> QED
      BY <1>2, <1>3, <3>1, <3>2, <3>3 DEF Covered, IsAdmitted
  <2>2. CASE (\A i \in DOMAIN calls : ~IsAdmitted(calls[i])) /\ ascribed + unseen >= wal
    <3>1. CASE IsAdmitted(call)
      <4>1. \A j \in 1..(Len(calls) + 1 - 1) : ~IsAdmitted(calls'[j])
        BY <1>3, <2>2
      <4> QED
        BY <1>1, <1>2, <1>3, <2>2, <3>1, <4>1 DEF Covered, IsAdmitted
    <3>2. CASE ~IsAdmitted(call)
      <4>1. \A i \in DOMAIN calls' : ~IsAdmitted(calls'[i])
        BY <1>3, <2>2, <3>2
      <4> QED
        BY <1>2, <2>2, <4>1 DEF Covered, IsAdmitted
    <3> QED
      BY <3>1, <3>2
  <2> QED
    BY <2>1, <2>2 DEF WalInv, Covered
<1> QED
  BY <1>4, <1>5, <1>6 DEF WalInv

LEMMA WrittenKeepsWalInv ==
  ASSUME WalInv, NEW writers, Written(writers)
  PROVE  WalInv'
<1>1. /\ calls' = calls /\ wal' = wal + 1 /\ ascribed' = ascribed /\ begun' = begun
      /\ unseen' = IF \E i \in DOMAIN calls : IsAdmitted(calls[i]) THEN unseen ELSE unseen + 1
  BY DEF Written, IsSeen
<1>2. CountersOK'
  BY <1>1 DEF WalInv, CountersOK
<1>3. CallsOK'
  <2>1. \A i \in DOMAIN calls : calls[i].start \in Nat
    BY StartsAreNatural DEF WalInv
  <2> QED
    BY <1>1, <2>1 DEF WalInv, CallsOK, CountersOK
<1>4. Covered'
  <2>1. CASE \E i \in DOMAIN calls : IsAdmitted(calls[i])
    <3>1. PICK i \in DOMAIN calls :
            /\ IsAdmitted(calls[i]) /\ \A j \in 1..(i - 1) : ~IsAdmitted(calls[j])
            /\ ascribed + unseen >= calls[i].start
      BY <2>1 DEF WalInv, Covered
    <3> QED
      BY <1>1, <2>1, <3>1 DEF Covered, IsAdmitted
  <2>2. CASE ~\E i \in DOMAIN calls : IsAdmitted(calls[i])
    <3>1. ascribed + unseen >= wal
      BY <2>2 DEF WalInv, Covered
    <3>2. ascribed' + unseen' >= wal'
      BY <1>1, <2>2, <3>1 DEF WalInv, CountersOK
    <3> QED
      BY <1>1, <2>2, <3>2 DEF Covered, IsAdmitted
  <2> QED
    BY <2>1, <2>2
<1> QED
  BY <1>2, <1>3, <1>4 DEF WalInv

\* A call ends: when it was the outermost admitted one, what it is ascribed
\* reaches from its start to now.
LEMMA CompleteKeepsWalInv ==
  ASSUME WalInv, Complete
  PROVE  WalInv'
<1> DEFINE n == Len(calls)
<1>1. /\ calls \in Seq(Calls) /\ calls # <<>>
      /\ calls' = Front(calls) /\ wal' = wal /\ unseen' = unseen /\ begun' = begun
      /\ ascribed' = ascribed + (IF IsAdmitted(calls[n]) THEN wal - calls[n].start ELSE 0)
  BY DEF Complete, WalInv, CallsOK, Last, Actual
<1>2. /\ n \in Nat \ {0} /\ DOMAIN calls = 1..n
      /\ calls' \in Seq(Calls) /\ DOMAIN calls' = 1..(n - 1)
      /\ \A i \in 1..(n - 1) : calls'[i] = calls[i]
  BY <1>1 DEF Front
<1>3. calls[n].start \in Nat /\ calls[n].start <= wal /\ wal \in Nat
  BY <1>2, StartsAreNatural DEF WalInv, CallsOK, CountersOK
<1> HIDE DEF n
<1>4. CountersOK'
  BY <1>1, <1>3 DEF WalInv, CountersOK
<1>5. CallsOK'
  BY <1>1, <1>2 DEF WalInv, CallsOK
<1>6. Covered'
  <2>1. CASE (\A i \in DOMAIN calls : ~IsAdmitted(calls[i])) /\ ascribed + unseen >= wal
    <3>1. ~IsAdmitted(calls[n])
      BY <1>2, <2>1
    <3>2. \A i \in DOMAIN calls' : ~IsAdmitted(calls'[i])
      BY <1>2, <2>1
    <3> QED
      BY <1>1, <2>1, <3>1, <3>2 DEF Covered, IsAdmitted, WalInv, CountersOK
  <2>2. CASE \E i \in DOMAIN calls :
               /\ IsAdmitted(calls[i]) /\ \A j \in 1..(i - 1) : ~IsAdmitted(calls[j])
               /\ ascribed + unseen >= calls[i].start
    <3>1. PICK i \in 1..n :
            /\ IsAdmitted(calls[i]) /\ \A j \in 1..(i - 1) : ~IsAdmitted(calls[j])
            /\ ascribed + unseen >= calls[i].start
      BY <1>2, <2>2
    <3>2. CASE i = n
      <4>1. \A j \in DOMAIN calls' : ~IsAdmitted(calls'[j])
        BY <1>2, <3>1, <3>2
      <4>2. ascribed' + unseen' >= wal'
        BY <1>1, <1>3, <3>1, <3>2 DEF WalInv, CountersOK
      <4> QED
        BY <4>1, <4>2 DEF Covered, IsAdmitted
    <3>3. CASE i # n
      <4>1. i \in DOMAIN calls' /\ calls'[i] = calls[i]
        BY <1>2, <3>3
      <4>2. \A j \in 1..(i - 1) : calls'[j] = calls[j]
        BY <1>2, <3>3
      <4>3. calls[i].start \in Nat
        BY <1>2, StartsAreNatural DEF WalInv
      <4>4. ascribed' + unseen' >= calls'[i].start
        <5>1. ascribed + unseen >= calls[i].start
          BY <3>1
        <5>2. ascribed' >= ascribed /\ ascribed' \in Nat /\ unseen' = unseen
          BY <1>1, <1>3 DEF WalInv, CountersOK
        <5> QED
          BY <4>1, <4>3, <5>1, <5>2 DEF WalInv, CountersOK
      <4> QED
        BY <3>1, <4>1, <4>2, <4>4 DEF Covered, IsAdmitted
    <3> QED
      BY <3>2, <3>3
  <2> QED
    BY <2>1, <2>2 DEF WalInv, Covered
<1> QED
  BY <1>4, <1>5, <1>6 DEF WalInv

\* What WalNext is about: a call begins, WAL is written, by the innermost statement
\* or by none, or a call ends.
LEMMA WalSteps ==
  ASSUME WalNext
  PROVE  \/ \E statement \in Plans \cup Utilities, class \in Classes, executes \in BOOLEAN :
              /\ Begin(statement, class, executes)
              /\ \/ statement \in Plans /\ class = ClassOfPlan(statement)
                 \/ \E readOnlyTree \in CachedTree :
                      /\ statement \in Utilities
                      /\ class = ClassOfUtility(statement, readOnlyTree)
         \/ WriteWal \/ EndTransaction
         \/ Complete
<1>1. ASSUME NEW plan \in Plans, BeginPlan(plan)
      PROVE  /\ Begin(plan, ClassOfPlan(plan), TRUE)
             /\ ClassOfPlan(plan) \in Classes
  BY <1>1, PlanHasClass DEF BeginPlan
<1>2. ASSUME NEW utility \in Utilities, NEW readOnlyTree \in CachedTree,
             BeginUtility(utility, readOnlyTree)
      PROVE  /\ Begin(utility, ClassOfUtility(utility, readOnlyTree), utility.node # "explain")
             /\ ClassOfUtility(utility, readOnlyTree) \in Classes
             /\ (utility.node # "explain") \in BOOLEAN
  BY <1>2, UtilityHasClass DEF BeginUtility
<1>3. ASSUME BeginExplained
      PROVE  \E plan \in Plans, executes \in BOOLEAN :
               Begin(plan, ClassOfPlan(plan), executes) /\ ClassOfPlan(plan) \in Classes
  <2> DEFINE explain == Last(calls).statement
  <2>1. /\ explain \in Utilities /\ explain.node = "explain"
        /\ Begin(explain.query, ClassOfPlan(explain.query), Analyzes(explain.options))
    BY <1>3 DEF BeginExplained
  <2>2. Analyzes(explain.options) \in BOOLEAN
    BY DEF Analyzes
  <2>3. explain.query \in Plans
    BY <2>1, StatementsAssumption
  <2> HIDE DEF explain
  <2> QED
    BY <2>1, <2>2, <2>3, PlanHasClass
<1>4. CASE \E plan \in Plans : BeginPlan(plan)
  <2>1. PICK plan \in Plans : BeginPlan(plan)
    BY <1>4
  <2> QED
    BY <2>1, <1>1
<1>5. CASE \E utility \in Utilities, readOnlyTree \in CachedTree :
             BeginUtility(utility, readOnlyTree)
  <2>1. PICK utility \in Utilities, readOnlyTree \in CachedTree :
          BeginUtility(utility, readOnlyTree)
    BY <1>5
  <2> QED
    BY <2>1, <1>2
<1>6. CASE BeginExplained
  <2>1. PICK plan \in Plans, executes \in BOOLEAN :
          Begin(plan, ClassOfPlan(plan), executes) /\ ClassOfPlan(plan) \in Classes
    BY <1>3, <1>6
  <2> QED
    BY <2>1
<1> QED
  BY <1>4, <1>5, <1>6 DEF WalNext

LEMMA WalNextKeepsWalInv == WalInv /\ [WalNext]_walVars => WalInv'
<1> SUFFICES ASSUME WalInv, [WalNext]_walVars PROVE WalInv'
  OBVIOUS
<1>1. CASE WalNext
  BY <1>1, WalSteps, BeginKeepsWalInv, WrittenKeepsWalInv, CompleteKeepsWalInv
     DEF WriteWal, EndTransaction
<1>2. CASE UNCHANGED walVars
  BY <1>2 DEF walVars, WalInv, CountersOK, CallsOK, Covered, IsAdmitted
<1> QED
  BY <1>1, <1>2

\* Whatever statements run inside each other, to any depth and in any order,
\* all the WAL that is written under an admitted statement is ascribed to one
\* by the time all have ended (reconcile_completed_statement).
THEOREM WalIsAscribed == WalSpec => []AscribedCoversWal
<1>1. WalInv => AscribedCoversWal
  <2> SUFFICES ASSUME WalInv, calls = <<>> PROVE ascribed >= wal - unseen
    BY DEF AscribedCoversWal
  <2>1. DOMAIN calls = {}
    OBVIOUS
  <2>2. ascribed + unseen >= wal
    BY <2>1 DEF WalInv, Covered
  <2> QED
    BY <2>2 DEF WalInv, CountersOK
<1> QED
  BY WalInvInit, WalNextKeepsWalInv, <1>1, PTL DEF WalSpec

\* The statements that the extension knows by name or by their plan to write WAL.
IsCandidate(statement) ==
  statement \in Plans \/ statement.node \in {"copy", "explain"} \cup KnownCandidates

\* Every call in progress that writes WAL itself was admitted, if it is a candidate;
\* and none of them wrote unseen.
CandidatesOK ==
  /\ \A i \in DOMAIN calls :
       WritesWal(calls[i].statement) /\ IsCandidate(calls[i].statement) => IsAdmitted(calls[i])
  /\ \A statement \in unseenBy : statement \in Utilities /\ ~IsCandidate(statement)

LEMMA WritingPlanIsAdmitted ==
  ASSUME NEW plan \in Plans, WritesWal(plan)
  PROVE  ClassOfPlan(plan) # "read_only"
<1>1. plan.command \in Writing \/ plan.modifyingCTE
  BY StatementsAssumption DEF WritesWal, Writing
<1> QED
  BY <1>1 DEF ClassOfPlan, Writing

LEMMA WritingUtilityIsAdmitted ==
  ASSUME NEW utility \in Utilities, NEW readOnlyTree, WritesWal(utility), IsCandidate(utility)
  PROVE  ClassOfUtility(utility, readOnlyTree) # "read_only"
<1>1. utility \notin Plans
  BY StatementsAssumption
<1>2. \/ utility.node \in {"create index", "create table as"}
      \/ utility.node = "copy" /\ utility.is_from
  BY <1>1 DEF WritesWal, Writers, IsCandidate, KnownCandidates
<1> QED
  BY <1>2 DEF ClassOfUtility, KnownReadOnly, KnownCandidates

LEMMA WalNextKeepsCandidates ==
  ASSUME WalInv, CandidatesOK, [WalNext]_walVars
  PROVE  CandidatesOK'
<1>0. calls \in Seq(Calls)
  BY DEF WalInv, CallsOK
<1>1. ASSUME NEW statement \in Plans \cup Utilities, NEW class \in Classes,
             NEW executes \in BOOLEAN, Begin(statement, class, executes),
             \/ statement \in Plans /\ class = ClassOfPlan(statement)
             \/ \E readOnlyTree \in CachedTree :
                  /\ statement \in Utilities
                  /\ class = ClassOfUtility(statement, readOnlyTree)
      PROVE  CandidatesOK'
  <2> DEFINE call == Call(statement, class, executes)
  <2>1. call \in Calls /\ call.statement = statement /\ call.class = class
    BY DEF Call, Calls, WalInv, CountersOK
  <2>2. calls' = Append(calls, call) /\ unseenBy' = unseenBy
    BY <1>1 DEF Begin
  <2>3. WritesWal(statement) /\ IsCandidate(statement) => class # "read_only"
    BY <1>1, WritingPlanIsAdmitted, WritingUtilityIsAdmitted
  <2> HIDE DEF call
  <2>4. /\ DOMAIN calls' = 1..(Len(calls) + 1) /\ DOMAIN calls = 1..Len(calls)
        /\ Len(calls) \in Nat /\ calls'[Len(calls) + 1] = call
        /\ \A i \in 1..Len(calls) : calls'[i] = calls[i]
    BY <1>0, <2>1, <2>2
  <2>5. ASSUME NEW i \in DOMAIN calls',
               WritesWal(calls'[i].statement), IsCandidate(calls'[i].statement)
        PROVE  calls'[i].class # "read_only"
    <3>1. CASE i \in 1..Len(calls)
      BY <2>4, <2>5, <3>1 DEF CandidatesOK, IsAdmitted
    <3>2. CASE i = Len(calls) + 1
      BY <2>1, <2>3, <2>4, <2>5, <3>2
    <3> QED
      BY <2>4, <3>1, <3>2
  <2> QED
    BY <2>2, <2>5 DEF CandidatesOK, IsAdmitted, WritesWal, IsCandidate
<1>2. ASSUME WriteWal PROVE CandidatesOK'
  <2> DEFINE writer == calls[Len(calls)].statement
  <2>1. /\ calls # <<>> /\ WritesWal(writer) /\ calls' = calls
        /\ unseenBy' = IF IsSeen THEN unseenBy ELSE unseenBy \cup {writer}
    BY <1>2 DEF WriteWal, Written, Running, Last
  <2>2. Len(calls) \in DOMAIN calls /\ writer \in Plans \cup Utilities
    <3>1. Len(calls) \in DOMAIN calls
      BY <1>0, <2>1
    <3>2. calls[Len(calls)] \in Calls
      BY <1>0, <3>1
    <3> QED
      BY <3>1, <3>2 DEF Calls
  <2> HIDE DEF writer
  <2>3. ~IsSeen => ~IsCandidate(writer)
    BY <2>1, <2>2 DEF CandidatesOK, IsSeen, writer
  <2>4. ~IsSeen => writer \in Utilities
    BY <2>2, <2>3 DEF IsCandidate
  <2> QED
    BY <2>1, <2>3, <2>4 DEF CandidatesOK, WritesWal, IsAdmitted, IsCandidate
<1>3. ASSUME EndTransaction PROVE CandidatesOK'
  <2>1. calls' = calls /\ unseenBy' = unseenBy
    BY <1>3 DEF EndTransaction, Written
  <2> QED
    BY <2>1 DEF CandidatesOK, WritesWal, IsAdmitted, IsCandidate
<1>4. ASSUME Complete PROVE CandidatesOK'
  <2>1. calls # <<>> /\ calls' = SubSeq(calls, 1, Len(calls) - 1) /\ unseenBy' = unseenBy
    BY <1>4 DEF Complete, Front
  <2>2. \A i \in DOMAIN calls' : i \in DOMAIN calls /\ calls'[i] = calls[i]
    BY <1>0, <2>1
  <2> QED
    BY <2>1, <2>2 DEF CandidatesOK, WritesWal, IsAdmitted, IsCandidate
<1>5. ASSUME UNCHANGED walVars PROVE CandidatesOK'
  BY <1>5 DEF walVars, CandidatesOK, WritesWal, IsAdmitted, IsCandidate
<1> QED
  BY <1>1, <1>2, <1>3, <1>4, <1>5, WalSteps

\* No plan, no COPY, no EXPLAIN and no command of the list of candidates writes WAL
\* under no admitted statement, at whatever depth it runs, from whatever tree, also
\* as the query of an EXPLAIN (classify_planned_statement,
\* classify_utility_node_tag).
THEOREM CandidatesAlwaysAdmitted == WalSpec => []CandidatesAreAdmitted
<1> DEFINE Inv == WalInv /\ CandidatesOK
<1>1. WalInit => Inv
  BY WalInvInit DEF WalInit, CandidatesOK
<1>2. Inv /\ [WalNext]_walVars => Inv'
  BY WalNextKeepsWalInv, WalNextKeepsCandidates
<1>3. Inv => CandidatesAreAdmitted
  BY DEF CandidatesOK, CandidatesAreAdmitted, IsCandidate
<1> QED
  BY <1>1, <1>2, <1>3, PTL DEF WalSpec

-----------------------------------------------------------------------------
(* FlattenSeq is defined by a recursive function, which exists.            *)

IsFlattened(flat, seqs, n) ==
  flat = [i \in 1..n |-> IF i = 1 THEN seqs[i] ELSE flat[i - 1] \o seqs[i]]

Flattened(seqs) == CHOOSE flat : IsFlattened(flat, seqs, Len(seqs))

LEMMA FlattenIsFlattened ==
  ASSUME NEW seqs, Len(seqs) # 0
  PROVE  FlattenSeq(seqs) = Flattened(seqs)[Len(seqs)]
  BY DEF FlattenSeq, Flattened, IsFlattened

\* flat[i] is the value that the definition gives it.
UnfoldsAt(flat, seqs, i) ==
  flat[i] = IF i = 1 THEN seqs[i] ELSE flat[i - 1] \o seqs[i]

LEMMA FlattenedUnfolds ==
  ASSUME NEW flat, NEW seqs, NEW n, IsFlattened(flat, seqs, n), NEW i \in 1..n
  PROVE  UnfoldsAt(flat, seqs, i)
  BY DEF IsFlattened, UnfoldsAt

LEMMA FlattenedExists ==
  ASSUME NEW seqs, NEW n \in Nat
  PROVE  \E flat : IsFlattened(flat, seqs, n)
<1> DEFINE bad == {m \in Nat : ~\E flat : IsFlattened(flat, seqs, m)}
<1> SUFFICES ASSUME bad # {} PROVE FALSE
  OBVIOUS
<1>1. PICK m \in bad : \A k \in bad : m <= k
  <2>1. bad \subseteq Nat
    OBVIOUS
  <2> HIDE DEF bad
  <2> QED
    BY <2>1, LeastNatural
<1>2. CASE m = 0
  <2>1. IsFlattened([i \in 1..m |-> seqs[i]], seqs, m)
    BY <1>2 DEF IsFlattened
  <2> QED
    BY <2>1
<1>3. CASE m # 0
  <2>1. PICK flat : IsFlattened(flat, seqs, m - 1)
    BY <1>1, <1>3
  <2> DEFINE more == [i \in 1..m |-> IF i = m THEN IF m = 1 THEN seqs[1] ELSE flat[m - 1] \o seqs[m]
                                     ELSE flat[i]]
             again == [i \in 1..m |-> IF i = 1 THEN seqs[i] ELSE more[i - 1] \o seqs[i]]
  <2>2. ASSUME NEW i \in 1..m PROVE more[i] = again[i]
    <3>1. CASE i = m
      BY <3>1
    <3>2. CASE i # m
      <4>1. i \in 1..(m - 1)
        BY <3>2
      <4>2. more[i] = flat[i] /\ (i # 1 => more[i - 1] = flat[i - 1])
        BY <4>1
      <4>3. again[i] = IF i = 1 THEN seqs[i] ELSE more[i - 1] \o seqs[i]
        OBVIOUS
      <4> HIDE DEF more, again
      <4>4. UnfoldsAt(flat, seqs, i)
        BY <2>1, <4>1, FlattenedUnfolds
      <4> QED
        BY <4>1, <4>2, <4>3, <4>4 DEF UnfoldsAt
    <3> QED
      BY <3>1, <3>2
  <2>3. more = again
    <3>1. more = [i \in 1..m |-> more[i]] /\ again = [i \in 1..m |-> again[i]]
      OBVIOUS
    <3> HIDE DEF more, again
    <3> QED
      BY <2>2, <3>1
  <2> HIDE DEF more
  <2>4. IsFlattened(more, seqs, m)
    BY <2>3 DEF IsFlattened
  <2> QED
    BY <2>4
<1> QED
  BY <1>2, <1>3

\* What is flattened of a prefix depends on the prefix alone.
LEMMA FlattenedAgree ==
  ASSUME NEW flat, NEW seqs, NEW n \in Nat, IsFlattened(flat, seqs, n),
         NEW other, NEW more, NEW m \in Nat, IsFlattened(other, more, m),
         n <= m, \A i \in 1..n : more[i] = seqs[i]
  PROVE  \A i \in 1..n : other[i] = flat[i]
<1> DEFINE bad == {i \in 1..n : other[i] # flat[i]}
<1> SUFFICES ASSUME bad # {} PROVE FALSE
  OBVIOUS
<1>1. PICK i \in bad : \A k \in bad : i <= k
  <2>1. bad \subseteq Nat
    OBVIOUS
  <2> HIDE DEF bad
  <2> QED
    BY <2>1, LeastNatural
<1>2. i \in 1..n /\ other[i] # flat[i] /\ i \in 1..m
  OBVIOUS
<1>3. i # 1 => i - 1 \in 1..n /\ other[i - 1] = flat[i - 1]
  <2> SUFFICES ASSUME i # 1, other[i - 1] # flat[i - 1] PROVE FALSE
    BY <1>2
  <2>1. i - 1 \in bad
    BY <1>2
  <2> QED
    BY <1>1, <2>1
<1>4. UnfoldsAt(flat, seqs, i) /\ UnfoldsAt(other, more, i)
  BY <1>2, FlattenedUnfolds
<1>5. more[i] = seqs[i]
  BY <1>2
<1> HIDE DEF bad
<1> QED
  BY <1>2, <1>3, <1>4, <1>5 DEF UnfoldsAt

LEMMA FlattenOfOne ==
  ASSUME NEW s
  PROVE  FlattenSeq(<<s>>) = s
<1> DEFINE seqs == <<s>>
<1>1. Len(seqs) = 1 /\ seqs[1] = s
  OBVIOUS
<1> HIDE DEF seqs
<1>2. IsFlattened(Flattened(seqs), seqs, 1)
  BY <1>1, FlattenedExists, 1 \in Nat DEF Flattened
<1>3. UnfoldsAt(Flattened(seqs), seqs, 1)
  BY <1>2, FlattenedUnfolds, 1 \in 1..1
<1>4. FlattenSeq(seqs) = Flattened(seqs)[1]
  <2>1. Len(seqs) # 0
    BY <1>1
  <2>2. FlattenSeq(seqs) = Flattened(seqs)[Len(seqs)]
    BY <2>1, FlattenIsFlattened
  <2> QED
    BY <1>1, <2>2
<1>5. FlattenSeq(seqs) = s
  BY <1>1, <1>3, <1>4 DEF UnfoldsAt
<1> QED
  BY <1>5 DEF seqs

LEMMA FlattenOfMore ==
  ASSUME NEW S, NEW seqs \in Seq(S), seqs # <<>>, NEW s \in S
  PROVE  FlattenSeq(Append(seqs, s)) = FlattenSeq(seqs) \o s
<1> DEFINE more == Append(seqs, s)
           n == Len(seqs)
<1>1. /\ n \in Nat /\ n # 0 /\ Len(more) = n + 1 /\ more[n + 1] = s
      /\ \A i \in 1..n : more[i] = seqs[i]
  OBVIOUS
<1> HIDE DEF more, n
<1>2. IsFlattened(Flattened(seqs), seqs, n) /\ IsFlattened(Flattened(more), more, n + 1)
  BY <1>1, FlattenedExists, n + 1 \in Nat DEF Flattened, n
<1>3. Flattened(more)[n] = Flattened(seqs)[n]
  BY <1>1, <1>2, FlattenedAgree, n + 1 \in Nat, n \in 1..n
<1>4. Flattened(more)[n + 1] = Flattened(more)[n] \o s
  <2>1. n + 1 \in 1..(n + 1) /\ n + 1 # 1 /\ (n + 1) - 1 = n
    BY <1>1
  <2>2. UnfoldsAt(Flattened(more), more, n + 1)
    BY <1>2, <2>1, FlattenedUnfolds
  <2> QED
    BY <1>1, <2>1, <2>2 DEF UnfoldsAt
<1>5. FlattenSeq(seqs) = Flattened(seqs)[n] /\ FlattenSeq(more) = Flattened(more)[n + 1]
  BY <1>1, FlattenIsFlattened DEF n
<1> QED
  BY <1>3, <1>4, <1>5 DEF more

-----------------------------------------------------------------------------
(* The text of a composite scope.                                          *)

Kinds == {"tenant", "role", "database", "application"}

AtomsOf(text) == {text[i] : i \in DOMAIN text}

NameAtoms ==
  UNION {AtomsOf(text) : text \in Roles \cup Databases \cup Applications \cup TenantTexts}

Atoms == NameAtoms \cup Kinds \cup Delimiters

Texts == Seq(Atoms)
Parts == [kind : Kinds, value : Texts]

LEMMA AtomsAre == Bar \in Atoms /\ Equals \in Atoms /\ Kinds \subseteq Atoms
  BY DEF Atoms, Delimiters

LEMMA NamesAreTexts ==
  Roles \cup Databases \cup Applications \cup TenantTexts \subseteq Texts
<1> SUFFICES ASSUME NEW text \in Roles \cup Databases \cup Applications \cup TenantTexts
             PROVE  text \in Texts
  OBVIOUS
<1>1. text \in Seq(AtomsOf(text))
  BY NamesAssumption DEF AtomsOf
<1>2. AtomsOf(text) \subseteq Atoms
  BY DEF Atoms, NameAtoms
<1> QED
  BY <1>1, <1>2 DEF Texts

\* The first and the last of the kept positions are positions.
LEMMA BoundsAreKept ==
  ASSUME NEW n \in Nat, NEW kept, kept \subseteq 1..n, kept # {}
  PROVE  Min(kept) \in kept /\ Max(kept) \in kept
<1>1. \E x \in kept : \A y \in kept : x =< y
  BY LeastNatural, kept \subseteq Nat
<1>2. \E x \in kept : \A y \in kept : x >= y
  <2> DEFINE back == {n - x : x \in kept}
  <2>1. back \subseteq Nat /\ back # {}
    <3>1. \A x \in kept : n - x \in Nat
      OBVIOUS
    <3> QED
      BY <3>1
  <2>2. PICK m \in back : \A k \in back : m <= k
    <3> HIDE DEF back
    <3> QED
      BY <2>1, LeastNatural
  <2>3. PICK x \in kept : m = n - x
    OBVIOUS
  <2>4. \A y \in kept : n - x <= n - y
    BY <2>2, <2>3
  <2>5. \A y \in kept : x >= y
    BY <2>4
  <2> QED
    BY <2>5
<1> QED
  BY <1>1, <1>2 DEF Min, Max

LEMMA TrimIsPart ==
  ASSUME NEW text \in Texts
  PROVE  /\ Trim(text) \in Texts
         /\ \A atoms : HasAny(Trim(text), atoms) => HasAny(text, atoms)
<1> DEFINE kept == {i \in DOMAIN text : text[i] # Blank}
<1>1. CASE kept = {}
  <2>1. Trim(text) = <<>>
    BY <1>1 DEF Trim
  <2> QED
    BY <2>1 DEF Texts, HasAny
<1>2. CASE kept # {}
  <2> DEFINE first == Min(kept)
             last == Max(kept)
  <2>1. kept \subseteq 1..Len(text) /\ Len(text) \in Nat /\ text \in Seq(Atoms)
    BY DEF Texts
  <2>2. first \in kept /\ last \in kept
    <3> HIDE DEF kept
    <3> QED
      BY <1>2, <2>1, BoundsAreKept
  <2>3. Trim(text) = SubSeq(text, first, last)
    BY <1>2 DEF Trim
  <2>4. first \in 1..Len(text) /\ last \in 1..Len(text)
    BY <2>1, <2>2
  <2> HIDE DEF kept, first, last
  <2>5. Trim(text) \in Texts
    BY <2>1, <2>3, <2>4 DEF Texts
  <2>6. ASSUME NEW atoms, NEW i \in DOMAIN Trim(text), Trim(text)[i] \in atoms
        PROVE  HasAny(text, atoms)
    <3>1. first + i - 1 \in DOMAIN text /\ Trim(text)[i] = text[first + i - 1]
      BY <2>1, <2>3, <2>4
    <3> QED
      BY <2>6, <3>1 DEF HasAny
  <2> QED
    BY <2>5, <2>6 DEF HasAny
<1> QED
  BY <1>1, <1>2

\* A component as it appears in the text, with the bar before it.
Part(kind, value) ==
  IF value = <<>> THEN <<>> ELSE <<Bar, kind, Equals>> \o value

\* The text, with a bar before it.
Joined(components) ==
  IF components = <<>> THEN <<>> ELSE <<Bar>> \o CompositeValue(components)

LEMMA PartIsText ==
  ASSUME NEW kind \in Kinds, NEW value \in Texts
  PROVE  Part(kind, value) \in Texts
  BY AtomsAre DEF Part, Texts

\* What is flattened for the text.
Pieces(components) ==
  [i \in DOMAIN components |->
     (IF i = 1 THEN <<>> ELSE <<Bar>>)
       \o <<components[i].kind, Equals>> \o components[i].value]

LEMMA PiecesAreTexts ==
  ASSUME NEW components \in Seq(Parts)
  PROVE  Pieces(components) \in Seq(Texts) /\ Len(Pieces(components)) = Len(components)
<1>1. ASSUME NEW i \in DOMAIN components PROVE Pieces(components)[i] \in Texts
  <2>1. components[i] \in Parts
    OBVIOUS
  <2>2. components[i].kind \in Atoms /\ components[i].value \in Texts
    BY <2>1, AtomsAre DEF Parts
  <2>3. Bar \in Atoms /\ Equals \in Atoms
    BY AtomsAre
  <2> QED
    BY <2>2, <2>3 DEF Pieces, Texts
<1>2. DOMAIN Pieces(components) = 1..Len(components) /\ Len(components) \in Nat
  BY DEF Pieces
<1> QED
  BY <1>1, <1>2 DEF Pieces

LEMMA CompositeOfOne ==
  ASSUME NEW kind \in Kinds, NEW value \in Texts
  PROVE  CompositeValue(<<[kind |-> kind, value |-> value]>>) = <<kind, Equals>> \o value
<1> DEFINE components == <<[kind |-> kind, value |-> value]>>
<1>1. Pieces(components) = << <<>> \o <<kind, Equals>> \o value >>
  BY DEF Pieces
<1>2. <<>> \o <<kind, Equals>> \o value = <<kind, Equals>> \o value
  BY DEF Texts
<1>3. CompositeValue(components) = FlattenSeq(Pieces(components))
  BY DEF CompositeValue, Pieces
<1> QED
  BY <1>1, <1>2, <1>3, FlattenOfOne

LEMMA CompositeOfMore ==
  ASSUME NEW components \in Seq(Parts), components # <<>>, NEW component \in Parts
  PROVE  CompositeValue(Append(components, component))
           = CompositeValue(components)
               \o (<<Bar>> \o <<component.kind, Equals>> \o component.value)
<1> DEFINE more == Append(components, component)
           piece == <<Bar>> \o <<component.kind, Equals>> \o component.value
<1>1. Pieces(components) \in Seq(Texts) /\ Len(Pieces(components)) = Len(components)
  BY PiecesAreTexts
<1>2. more \in Seq(Parts) /\ Len(more) = Len(components) + 1 /\ Len(components) \in Nat
      /\ Len(components) # 0
  OBVIOUS
<1>3. Pieces(more) \in Seq(Texts) /\ Len(Pieces(more)) = Len(components) + 1
  BY <1>2, PiecesAreTexts
<1>4. Pieces(more)[Len(components) + 1] = piece
  <2>1. Len(components) + 1 \in DOMAIN more /\ Len(components) + 1 # 1
        /\ more[Len(components) + 1] = component
    BY <1>2
  <2> HIDE DEF more
  <2> QED
    BY <2>1 DEF Pieces
<1>5. \A i \in 1..Len(components) : Pieces(more)[i] = Pieces(components)[i]
  BY <1>2 DEF Pieces
<1>6. piece \in Texts
  <2>1. Len(components) + 1 \in DOMAIN Pieces(more)
    BY <1>2, <1>3
  <2>2. Pieces(more)[Len(components) + 1] \in Texts
    BY <1>3, <2>1
  <2> HIDE DEF piece, more
  <2> QED
    BY <1>4, <2>2
<1> HIDE DEF piece, more
<1>7. Pieces(more) = Append(Pieces(components), piece)
  BY <1>1, <1>2, <1>3, <1>4, <1>5, <1>6, SeqEqual
<1>8. Pieces(components) # <<>>
  BY <1>1, <1>2
<1>9. FlattenSeq(Append(Pieces(components), piece)) = FlattenSeq(Pieces(components)) \o piece
  BY <1>1, <1>6, <1>8, FlattenOfMore
<1>10. CompositeValue(components) = FlattenSeq(Pieces(components))
       /\ CompositeValue(more) = FlattenSeq(Pieces(more))
  BY DEF CompositeValue, Pieces
<1> QED
  BY <1>7, <1>9, <1>10 DEF more, piece

LEMMA SubSeqOfOne ==
  ASSUME NEW S, NEW seq \in Seq(S), seq # <<>>
  PROVE  SubSeq(seq, 1, 1) = <<seq[1]>>
<1>1. SubSeq(seq, 1, 1) \in Seq(S) /\ Len(SubSeq(seq, 1, 1)) = 1 /\ SubSeq(seq, 1, 1)[1] = seq[1]
  OBVIOUS
<1>2. seq[1] \in S
  OBVIOUS
<1> DEFINE one == SubSeq(seq, 1, 1)
           item == <<seq[1]>>
<1>3. item \in Seq(S) /\ Len(item) = 1 /\ item[1] = seq[1]
  BY <1>2
<1>4. one \in Seq(S) /\ Len(one) = Len(item) /\ \A i \in 1..Len(one) : one[i] = item[i]
  BY <1>1, <1>3
<1> HIDE DEF one, item
<1>5. one = item
  BY <1>3, <1>4, SeqEqual
<1> QED
  BY <1>5 DEF one, item

\* Where the items of a concatenation are.
ItemsOf(st, s, t) ==
  /\ Len(s) \in Nat /\ Len(t) \in Nat /\ Len(st) = Len(s) + Len(t)
  /\ \A i \in 1..Len(s) : st[i] = s[i]
  /\ \A i \in 1..Len(t) : st[Len(s) + i] = t[i]

LEMMA ConcatItems ==
  ASSUME NEW S, NEW s \in Seq(S), NEW t \in Seq(S)
  PROVE  s \o t \in Seq(S) /\ ItemsOf(s \o t, s, t)
<1>1. Len(s) \in Nat /\ Len(t) \in Nat
  OBVIOUS
<1>2. \A i \in 1..Len(t) :
        Len(s) + i \in 1..(Len(s) + Len(t)) /\ ~(Len(s) + i <= Len(s))
          /\ Len(s) + i - Len(s) = i
  BY <1>1
<1> QED
  BY <1>1, <1>2, ConcatProperties DEF ItemsOf

LEMMA ItemsAfterHead ==
  ASSUME NEW S, NEW head \in Seq(S), Len(head) = 3, NEW v \in Seq(S), NEW r \in Seq(S)
  PROVE  /\ Len((head \o v) \o r) = 3 + Len(v) + Len(r)
         /\ \A i \in 1..Len(v) : ((head \o v) \o r)[3 + i] = v[i]
         /\ \A i \in 1..Len(r) : ((head \o v) \o r)[3 + Len(v) + i] = r[i]
<1> DEFINE start == head \o v
<1>1. start \in Seq(S) /\ ItemsOf(start, head, v)
  BY ConcatItems
<1> HIDE DEF start
<1>2. ItemsOf(start \o r, start, r)
  BY <1>1, ConcatItems
<1>3. \A i \in 1..Len(v) : 3 + i \in 1..Len(start)
  BY <1>1 DEF ItemsOf
<1> QED
  BY <1>1, <1>2, <1>3 DEF start, ItemsOf

LEMMA TextsConcat ==
  ASSUME NEW text \in Texts, NEW other \in Texts
  PROVE  text \o other \in Texts
  BY DEF Texts

LEMMA TextsAssociate ==
  ASSUME NEW u \in Texts, NEW v \in Texts, NEW w \in Texts
  PROVE  (u \o v) \o w = u \o (v \o w)
<1>1. u \in Seq(Atoms) /\ v \in Seq(Atoms) /\ w \in Seq(Atoms)
  BY DEF Texts
<1> QED
  BY <1>1, ConcatAssociative

LEMMA JoinedIsText ==
  ASSUME NEW components \in Seq(Parts), components # <<>>
  PROVE  CompositeValue(components) \in Texts
<1> DEFINE n == Len(components)
           bad == {k \in Nat : k # 0 /\ k <= n
                                 /\ CompositeValue(SubSeq(components, 1, k)) \notin Texts}
<1> SUFFICES ASSUME bad # {} PROVE FALSE
  <2>1. n \in Nat /\ n # 0 /\ SubSeq(components, 1, n) = components
    OBVIOUS
  <2>2. CASE CompositeValue(SubSeq(components, 1, n)) \in Texts
    BY <2>1, <2>2
  <2>3. CASE CompositeValue(SubSeq(components, 1, n)) \notin Texts
    <3>1. n \in bad
      BY <2>1, <2>3
    <3> QED
      BY <3>1
  <2> QED
    BY <2>2, <2>3
<1>1. PICK k \in bad : \A j \in bad : k <= j
  <2>1. bad \subseteq Nat
    OBVIOUS
  <2> HIDE DEF bad
  <2> QED
    BY <2>1, LeastNatural
<1>2. n \in Nat /\ k \in 1..n
  OBVIOUS
<1> DEFINE last == components[k]
<1>3. last \in Parts /\ last.kind \in Kinds /\ last.value \in Texts
  <2>1. last \in Parts
    BY <1>2
  <2> HIDE DEF last
  <2> QED
    BY <2>1 DEF Parts
<1>4. <<last.kind, Equals>> \o last.value \in Texts
      /\ <<Bar>> \o <<last.kind, Equals>> \o last.value \in Texts
  <2> HIDE DEF last
  <2> QED
    BY <1>3, AtomsAre DEF Texts
<1>5. CASE k = 1
  <2>1. SubSeq(components, 1, k) = <<last>> /\ last = [kind |-> last.kind, value |-> last.value]
    <3>1. SubSeq(components, 1, k) = <<last>>
      <4>1. SubSeq(components, 1, 1) = <<components[1]>>
        BY <1>2, SubSeqOfOne
      <4> QED
        BY <1>5, <4>1
    <3>2. last = [kind |-> last.kind, value |-> last.value]
      <4> HIDE DEF last
      <4> QED
        BY <1>3 DEF Parts
    <3> QED
      BY <3>1, <3>2
  <2> HIDE DEF last
  <2>2. CompositeValue(SubSeq(components, 1, k)) = <<last.kind, Equals>> \o last.value
    BY <1>3, <2>1, CompositeOfOne
  <2>3. CompositeValue(SubSeq(components, 1, k)) \in Texts
    BY <1>4, <2>2
  <2> QED
    BY <2>3
<1>6. CASE k # 1
  <2> DEFINE before == SubSeq(components, 1, k - 1)
  <2>1. before \in Seq(Parts) /\ before # <<>> /\ SubSeq(components, 1, k) = Append(before, last)
    BY <1>2, <1>6
  <2>2. CompositeValue(before) \in Texts
    <3>1. k - 1 \notin bad
      BY <1>1
    <3> QED
      BY <1>2, <1>6, <3>1
  <2> HIDE DEF before, last
  <2>3. CompositeValue(SubSeq(components, 1, k))
          = CompositeValue(before) \o (<<Bar>> \o <<last.kind, Equals>> \o last.value)
    BY <1>3, <2>1, CompositeOfMore
  <2>4. CompositeValue(SubSeq(components, 1, k)) \in Texts
    BY <1>4, <2>2, <2>3, TextsConcat
  <2> QED
    BY <2>4
<1> QED
  BY <1>5, <1>6

\* Another component is another part of the text; one that is not available is
\* none.
LEMMA JoinedWithAvailable ==
  ASSUME NEW components \in Seq(Parts), NEW kind \in Kinds, NEW value \in Texts
  PROVE  /\ components \o Available(kind, value) \in Seq(Parts)
         /\ Joined(components) \in Texts
         /\ Joined(components \o Available(kind, value)) = Joined(components) \o Part(kind, value)
<1> DEFINE component == [kind |-> kind, value |-> value]
<1>1. component \in Parts /\ component.kind = kind /\ component.value = value
  BY DEF Parts
<1>2. Joined(components) \in Texts
  <2>1. <<>> \in Texts
    BY DEF Texts
  <2>2. components # <<>> => CompositeValue(components) \in Texts
    BY JoinedIsText
  <2> QED
    BY <2>1, <2>2, AtomsAre DEF Joined, Texts
<1>3. CASE value = <<>>
  <2>1. components \o Available(kind, value) = components
    BY <1>3 DEF Available
  <2>2. Joined(components) \o Part(kind, value) = Joined(components)
    BY <1>2, <1>3 DEF Part, Texts
  <2> QED
    BY <1>2, <2>1, <2>2
<1>4. CASE value # <<>> /\ components = <<>>
  <2>1. components \o Available(kind, value) = <<component>> /\ <<component>> \in Seq(Parts)
    BY <1>1, <1>4 DEF Available
  <2>2. CompositeValue(<<component>>) = <<kind, Equals>> \o value
    BY CompositeOfOne
  <2> HIDE DEF component
  <2>3. Joined(<<component>>) = <<Bar>> \o (<<kind, Equals>> \o value)
    BY <2>2 DEF Joined
  <2>4. <<Bar>> \o (<<kind, Equals>> \o value) = Part(kind, value)
    BY <1>4, AtomsAre DEF Part, Texts
  <2>5. Joined(components) \o Part(kind, value) = Part(kind, value)
    BY <1>4, PartIsText DEF Joined, Texts
  <2> QED
    BY <1>2, <2>1, <2>3, <2>4, <2>5
<1>5. CASE value # <<>> /\ components # <<>>
  <2> DEFINE more == Append(components, component)
  <2>1. components \o Available(kind, value) = more /\ more \in Seq(Parts) /\ more # <<>>
    BY <1>1, <1>5 DEF Available
  <2> HIDE DEF component
  <2>2. CompositeValue(more)
          = CompositeValue(components) \o (<<Bar>> \o <<component.kind, Equals>> \o component.value)
    BY <1>1, <1>5, CompositeOfMore
  <2> HIDE DEF more
  <2>3. <<Bar>> \o <<component.kind, Equals>> \o component.value = Part(kind, value)
    BY <1>1, <1>5, AtomsAre DEF Part, Texts
  <2>4. CompositeValue(more) = CompositeValue(components) \o Part(kind, value)
    BY <2>2, <2>3
  <2>5. CompositeValue(components) \in Texts /\ Part(kind, value) \in Texts /\ <<Bar>> \in Texts
    BY <1>5, JoinedIsText, PartIsText, AtomsAre DEF Texts
  <2>6. <<Bar>> \o (CompositeValue(components) \o Part(kind, value))
          = (<<Bar>> \o CompositeValue(components)) \o Part(kind, value)
    BY <2>5, TextsAssociate
  <2>7. Joined(more) = <<Bar>> \o CompositeValue(more)
        /\ Joined(components) = <<Bar>> \o CompositeValue(components)
    BY <1>5, <2>1 DEF Joined
  <2>8. Joined(more) = Joined(components) \o Part(kind, value)
    BY <2>4, <2>6, <2>7
  <2> QED
    BY <1>2, <2>1, <2>8
<1> QED
  BY <1>3, <1>4, <1>5

\* A text that goes on with a component of another kind, or ends.
GoesOn(rest, kind) ==
  rest # <<>> => Len(rest) >= 2 /\ rest[1] = Bar /\ rest[2] # kind

\* The first component can be read off the text: up to the next bar.
LEMMA PartIsRead ==
  ASSUME NEW kind \in Kinds, NEW value \in Texts, NEW other \in Texts,
         ~HasAny(value, {Bar}), ~HasAny(other, {Bar}),
         NEW rest \in Texts, NEW remains \in Texts,
         GoesOn(rest, kind), GoesOn(remains, kind),
         Part(kind, value) \o rest = Part(kind, other) \o remains
  PROVE  value = other /\ rest = remains
<1> USE DEF Texts
<1>1. Bar \in Atoms /\ Equals \in Atoms /\ kind \in Atoms
  BY AtomsAre
<1>2. CASE value = <<>> /\ other = <<>>
  BY <1>2 DEF Part
<1>3. ASSUME NEW v \in Texts, NEW r \in Texts, NEW s \in Texts, v # <<>>, GoesOn(s, kind),
             (<<Bar, kind, Equals>> \o v) \o r = s
      PROVE  FALSE
  <2>1. /\ s # <<>> /\ s[2] = kind
    BY <1>1, <1>3
  <2> QED
    BY <1>3, <2>1 DEF GoesOn
<1>4. CASE value = <<>> /\ other # <<>>
  <2>1. (<<Bar, kind, Equals>> \o other) \o remains = rest
    BY <1>4 DEF Part
  <2> QED
    BY <1>3, <1>4, <2>1
<1>5. CASE value # <<>> /\ other = <<>>
  <2>1. (<<Bar, kind, Equals>> \o value) \o rest = remains
    BY <1>5 DEF Part
  <2> QED
    BY <1>3, <1>5, <2>1
<1>6. CASE value # <<>> /\ other # <<>>
  <2> DEFINE left == (<<Bar, kind, Equals>> \o value) \o rest
             right == (<<Bar, kind, Equals>> \o other) \o remains
  <2>1. left = right
    BY <1>6 DEF Part
  <2>2. ASSUME NEW v \in Texts, NEW r \in Texts
        PROVE  /\ Len((<<Bar, kind, Equals>> \o v) \o r) = 3 + Len(v) + Len(r)
               /\ \A i \in 1..Len(v) : ((<<Bar, kind, Equals>> \o v) \o r)[3 + i] = v[i]
               /\ \A i \in 1..Len(r) :
                    ((<<Bar, kind, Equals>> \o v) \o r)[3 + Len(v) + i] = r[i]
    <3>1. <<Bar, kind, Equals>> \in Seq(Atoms) /\ Len(<<Bar, kind, Equals>>) = 3
      BY <1>1
    <3> QED
      BY <3>1, ItemsAfterHead
  <2>3. /\ Len(left) = 3 + Len(value) + Len(rest)
        /\ \A i \in 1..Len(value) : left[3 + i] = value[i]
        /\ \A i \in 1..Len(rest) : left[3 + Len(value) + i] = rest[i]
    BY <2>2
  <2>4. /\ Len(right) = 3 + Len(other) + Len(remains)
        /\ \A i \in 1..Len(other) : right[3 + i] = other[i]
        /\ \A i \in 1..Len(remains) : right[3 + Len(other) + i] = remains[i]
    BY <2>2
  <2> HIDE DEF left, right
  <2>5. /\ Len(value) \in Nat /\ Len(other) \in Nat /\ Len(rest) \in Nat /\ Len(remains) \in Nat
        /\ Len(value) + Len(rest) = Len(other) + Len(remains)
    <3>1. /\ Len(value) \in Nat /\ Len(other) \in Nat
          /\ Len(rest) \in Nat /\ Len(remains) \in Nat
      OBVIOUS
    <3>2. 3 + Len(value) + Len(rest) = 3 + Len(other) + Len(remains)
      BY <2>1, <2>3, <2>4
    <3>3. Len(value) + Len(rest) = Len(other) + Len(remains)
      <4> DEFINE a == Len(value)
                 b == Len(rest)
                 c == Len(other)
                 d == Len(remains)
      <4>1. a \in Nat /\ b \in Nat /\ c \in Nat /\ d \in Nat /\ 3 + a + b = 3 + c + d
        BY <3>1, <3>2
      <4> HIDE DEF a, b, c, d
      <4>2. a + b = c + d
        BY <4>1
      <4> QED
        BY <4>2 DEF a, b, c, d
    <3> QED
      BY <3>1, <3>3
  <2>6. ~(Len(value) < Len(other))
    <3> SUFFICES ASSUME Len(value) < Len(other) PROVE FALSE
      OBVIOUS
    <3> DEFINE i == Len(value) + 1
    <3>1. i \in 1..Len(other) /\ 1 \in 1..Len(rest) /\ rest # <<>>
      BY <2>5
    <3>2. right[3 + i] = other[i]
      BY <2>4, <3>1
    <3>3. left[3 + Len(value) + 1] = rest[1] /\ 3 + Len(value) + 1 = 3 + i
      BY <2>3, <2>5, <3>1
    <3>4. other[i] = Bar
      BY <2>1, <3>1, <3>2, <3>3 DEF GoesOn
    <3> QED
      BY <3>1, <3>4 DEF HasAny
  <2>7. ~(Len(other) < Len(value))
    <3> SUFFICES ASSUME Len(other) < Len(value) PROVE FALSE
      OBVIOUS
    <3> DEFINE i == Len(other) + 1
    <3>1. i \in 1..Len(value) /\ 1 \in 1..Len(remains) /\ remains # <<>>
      BY <2>5
    <3>2. left[3 + i] = value[i]
      BY <2>3, <3>1
    <3>3. right[3 + Len(other) + 1] = remains[1] /\ 3 + Len(other) + 1 = 3 + i
      BY <2>4, <2>5, <3>1
    <3>4. value[i] = Bar
      BY <2>1, <3>1, <3>2, <3>3 DEF GoesOn
    <3> QED
      BY <3>1, <3>4 DEF HasAny
  <2>8. Len(value) = Len(other) /\ Len(rest) = Len(remains)
    BY <2>5, <2>6, <2>7
  <2>9. \A i \in 1..Len(value) : value[i] = other[i]
    BY <2>1, <2>3, <2>4, <2>8
  <2>10. \A i \in 1..Len(rest) : rest[i] = remains[i]
    BY <2>1, <2>3, <2>4, <2>8
  <2> QED
    BY <2>8, <2>9, <2>10, SeqEqual
<1> QED
  BY <1>2, <1>4, <1>5, <1>6

\* The last component can be read whatever is in it.
LEMMA LastPartIsRead ==
  ASSUME NEW kind \in Kinds, NEW value \in Texts, NEW other \in Texts,
         Part(kind, value) = Part(kind, other)
  PROVE  value = other
<1> USE DEF Texts
<1>1. <<Bar, kind, Equals>> \in Seq(Atoms)
  BY AtomsAre
<1>2. ASSUME NEW v \in Texts
      PROVE  Len(<<Bar, kind, Equals>> \o v) = 3 + Len(v)
             /\ \A i \in 1..Len(v) : (<<Bar, kind, Equals>> \o v)[3 + i] = v[i]
  BY <1>1
<1>3. value = <<>> <=> other = <<>>
  <2>1. \A v \in Texts : <<Bar, kind, Equals>> \o v # <<>>
    BY <1>1
  <2> QED
    BY <2>1 DEF Part
<1>4. CASE value # <<>>
  <2>1. <<Bar, kind, Equals>> \o value = <<Bar, kind, Equals>> \o other
    BY <1>3, <1>4 DEF Part
  <2>2. Len(value) = Len(other) /\ \A i \in 1..Len(value) : value[i] = other[i]
    BY <1>2, <2>1
  <2> QED
    BY <2>2, SeqEqual
<1> QED
  BY <1>3, <1>4

-----------------------------------------------------------------------------
(* The scope of a session.                                                 *)

Tenants == {NoTenant} \cup {Trim(text) : text \in {t \in TenantTexts : ValidTenant(t)}}

Sessions ==
  [tenant : Tenants, outer : Roles, role : Roles, database : Databases,
   application : Applications]

LEMMA NamesOfSession ==
  ASSUME NEW s \in Sessions
  PROVE  /\ s.tenant \in Texts /\ ~HasAny(s.tenant, {Bar})
         /\ Trim(s.role) \in Texts /\ Trim(s.database) \in Texts /\ Trim(s.application) \in Texts
<1>1. s.tenant \in Tenants /\ s.role \in Texts /\ s.database \in Texts /\ s.application \in Texts
  BY NamesAreTexts DEF Sessions
<1>2. ASSUME NEW tenant \in Tenants PROVE tenant \in Texts /\ ~HasAny(tenant, {Bar})
  <2>1. CASE tenant = NoTenant
    BY <2>1 DEF NoTenant, HasAny, Texts
  <2>2. CASE \E text \in TenantTexts : ValidTenant(text) /\ tenant = Trim(text)
    <3>1. PICK text \in TenantTexts : ValidTenant(text) /\ tenant = Trim(text)
      BY <2>2
    <3>2. ~HasAny(tenant, Delimiters) /\ Bar \in Delimiters
      BY <3>1 DEF ValidTenant, Delimiters
    <3>3. text \in Texts
      BY NamesAreTexts
    <3> QED
      BY <3>1, <3>2, <3>3, TrimIsPart DEF HasAny
  <2> QED
    BY <2>1, <2>2 DEF Tenants
<1> QED
  BY <1>1, <1>2, TrimIsPart

LEMMA AvailableIsParts ==
  ASSUME NEW kind \in Kinds, NEW value \in Texts
  PROVE  /\ Available(kind, value) \in Seq(Parts)
         /\ Available(kind, value) = <<>> <=> value = <<>>
         /\ value # <<>> => Head(Available(kind, value)) = [kind |-> kind, value |-> value]
<1>1. [kind |-> kind, value |-> value] \in Parts
  BY DEF Parts
<1> QED
  BY <1>1 DEF Available

LEMMA HeadOfConcat ==
  ASSUME NEW S, NEW s \in Seq(S), NEW t \in Seq(S)
  PROVE  /\ s \o t \in Seq(S)
         /\ s # <<>> => s \o t # <<>> /\ Head(s \o t) = Head(s)
         /\ s = <<>> => s \o t = t
  OBVIOUS

\* By precedence: the first of the names that is not blank.
Preferred(tenant, role, database, application) ==
  IF tenant # <<>> THEN [kind |-> "tenant", value |-> tenant]
  ELSE IF role # <<>> THEN [kind |-> "role", value |-> role]
  ELSE IF database # <<>> THEN [kind |-> "database", value |-> database]
  ELSE [kind |-> "application", value |-> application]

JoinedParts(tenant, role, database, application) ==
  Part("tenant", tenant)
    \o (Part("role", role) \o (Part("database", database) \o Part("application", application)))

LEMMA ComponentsAre ==
  ASSUME NEW s \in Sessions
  PROVE  /\ Components(s) \in Seq(Parts)
         /\ Components(s) = <<>>
              <=> /\ s.tenant = <<>> /\ Trim(s.role) = <<>> /\ Trim(s.database) = <<>>
                  /\ Trim(s.application) = <<>>
         /\ Components(s) # <<>>
              => Head(Components(s))
                   = Preferred(s.tenant, Trim(s.role), Trim(s.database), Trim(s.application))
         /\ Joined(Components(s))
              = JoinedParts(s.tenant, Trim(s.role), Trim(s.database), Trim(s.application))
<1> DEFINE t == s.tenant
           r == Trim(s.role)
           d == Trim(s.database)
           a == Trim(s.application)
           one == Available("tenant", t)
           two == Available("role", r)
           three == Available("database", d)
           four == Available("application", a)
<1>1. t \in Texts /\ r \in Texts /\ d \in Texts /\ a \in Texts
  BY NamesOfSession
<1>2. Components(s) = ((one \o two) \o three) \o four
  BY DEF Components
<1> HIDE DEF t, r, d, a
<1>3. "tenant" \in Kinds /\ "role" \in Kinds /\ "database" \in Kinds /\ "application" \in Kinds
  BY DEF Kinds
<1>4. one \in Seq(Parts) /\ two \in Seq(Parts) /\ three \in Seq(Parts) /\ four \in Seq(Parts)
  BY <1>1, <1>3, AvailableIsParts
<1>5. /\ one = <<>> <=> t = <<>>
      /\ two = <<>> <=> r = <<>>
      /\ three = <<>> <=> d = <<>>
      /\ four = <<>> <=> a = <<>>
  BY <1>1, <1>3, AvailableIsParts
<1>6. /\ t # <<>> => Head(one) = [kind |-> "tenant", value |-> t]
      /\ r # <<>> => Head(two) = [kind |-> "role", value |-> r]
      /\ d # <<>> => Head(three) = [kind |-> "database", value |-> d]
      /\ a # <<>> => Head(four) = [kind |-> "application", value |-> a]
  BY <1>1, <1>3, AvailableIsParts
<1>7. Joined(((one \o two) \o three) \o four)
        = ((Part("tenant", t) \o Part("role", r)) \o Part("database", d)) \o Part("application", a)
  <2>1. <<>> \in Seq(Parts) /\ <<>> \o one = one
    BY <1>4
  <2>2. Joined(one) = Joined(<<>>) \o Part("tenant", t)
    <3>1. Joined(<<>> \o Available("tenant", t)) = Joined(<<>>) \o Part("tenant", t)
      BY <1>1, <1>3, <2>1, JoinedWithAvailable
    <3> QED
      BY <2>1, <3>1
  <2>3. Joined(one) = Part("tenant", t)
    BY <1>1, <1>3, <2>2, PartIsText DEF Joined, Texts
  <2>4. one \o two \in Seq(Parts) /\ Joined(one \o two) = Joined(one) \o Part("role", r)
    BY <1>1, <1>3, <1>4, JoinedWithAvailable
  <2> HIDE DEF one, two
  <2>5. (one \o two) \o three \in Seq(Parts)
        /\ Joined((one \o two) \o three) = Joined(one \o two) \o Part("database", d)
    BY <1>1, <1>3, <2>4, JoinedWithAvailable
  <2> HIDE DEF three
  <2>6. Joined(((one \o two) \o three) \o four)
          = Joined((one \o two) \o three) \o Part("application", a)
    BY <1>1, <1>3, <2>5, JoinedWithAvailable
  <2> QED
    BY <2>3, <2>4, <2>5, <2>6
<1>8. ((Part("tenant", t) \o Part("role", r)) \o Part("database", d)) \o Part("application", a)
        = JoinedParts(t, r, d, a)
  <2> DEFINE p == Part("tenant", t)
             q == Part("role", r)
             x == Part("database", d)
             y == Part("application", a)
  <2>1. p \in Texts /\ q \in Texts /\ x \in Texts /\ y \in Texts
    BY <1>1, <1>3, PartIsText
  <2> HIDE DEF p, q, x, y
  <2>2. x \o y \in Texts /\ p \o q \in Texts
    BY <2>1, TextsConcat
  <2>3. ((p \o q) \o x) \o y = (p \o q) \o (x \o y)
    BY <2>1, <2>2, TextsAssociate
  <2>4. (p \o q) \o (x \o y) = p \o (q \o (x \o y))
    BY <2>1, <2>2, TextsAssociate
  <2> QED
    BY <2>3, <2>4 DEF JoinedParts, p, q, x, y
<1> HIDE DEF one, two, three, four
<1>9. one \o two \in Seq(Parts) /\ (one \o two) \o three \in Seq(Parts)
  BY <1>4, HeadOfConcat
<1>10. Components(s) \in Seq(Parts)
  BY <1>2, <1>4, <1>9, HeadOfConcat
<1>11. /\ one # <<>> => Components(s) # <<>> /\ Head(Components(s)) = Head(one)
       /\ one = <<>> => Components(s) = (two \o three) \o four
  <2>1. one # <<>> => one \o two # <<>> /\ Head(one \o two) = Head(one)
    BY <1>4, HeadOfConcat
  <2>2. one # <<>> => (one \o two) \o three # <<>> /\ Head((one \o two) \o three) = Head(one)
    BY <1>4, <1>9, <2>1, HeadOfConcat
  <2>3. one # <<>> => Components(s) # <<>> /\ Head(Components(s)) = Head(one)
    BY <1>2, <1>4, <1>9, <2>2, HeadOfConcat
  <2>4. one = <<>> => one \o two = two
    BY <1>4, HeadOfConcat
  <2> QED
    BY <1>2, <2>3, <2>4
<1>12. /\ two # <<>> => (two \o three) \o four # <<>> /\ Head((two \o three) \o four) = Head(two)
       /\ two = <<>> => (two \o three) \o four = three \o four
  <2>1. two # <<>> => two \o three # <<>> /\ Head(two \o three) = Head(two)
    BY <1>4, HeadOfConcat
  <2>2. two \o three \in Seq(Parts) /\ (two = <<>> => two \o three = three)
    BY <1>4, HeadOfConcat
  <2>3. two \o three # <<>>
          => (two \o three) \o four # <<>> /\ Head((two \o three) \o four) = Head(two \o three)
    BY <1>4, <2>2, HeadOfConcat
  <2> QED
    BY <2>1, <2>2, <2>3
<1>13. /\ three # <<>> => three \o four # <<>> /\ Head(three \o four) = Head(three)
       /\ three = <<>> => three \o four = four
  BY <1>4, HeadOfConcat
<1>14. Components(s) = <<>> <=> t = <<>> /\ r = <<>> /\ d = <<>> /\ a = <<>>
  BY <1>5, <1>11, <1>12, <1>13
<1>15. Components(s) # <<>> => Head(Components(s)) = Preferred(t, r, d, a)
  BY <1>5, <1>6, <1>11, <1>12, <1>13, <1>14 DEF Preferred
<1>16. Joined(Components(s)) = JoinedParts(t, r, d, a)
  BY <1>2, <1>7, <1>8
<1> QED
  BY <1>10, <1>14, <1>15, <1>16 DEF t, r, d, a

LEMMA GoesOnWithPart ==
  ASSUME NEW of \in Kinds, NEW value \in Texts, NEW rest \in Texts, NEW kind,
         of # kind, GoesOn(rest, kind)
  PROVE  Part(of, value) \o rest \in Texts /\ GoesOn(Part(of, value) \o rest, kind)
<1>1. Part(of, value) \in Texts
  BY PartIsText
<1>2. Part(of, value) \o rest \in Texts
  BY <1>1, TextsConcat
<1>3. CASE value = <<>>
  <2>1. Part(of, value) \o rest = rest
    BY <1>3 DEF Part, Texts
  <2> QED
    BY <1>2, <2>1
<1>4. CASE value # <<>>
  <2> DEFINE part == <<Bar, of, Equals>> \o value
  <2>1. part \in Seq(Atoms) /\ Len(part) >= 3 /\ part[1] = Bar /\ part[2] = of
    BY AtomsAre DEF Texts
  <2>2. Part(of, value) = part
    BY <1>4 DEF Part
  <2> HIDE DEF part
  <2>3. rest \in Seq(Atoms)
    BY DEF Texts
  <2>4. ItemsOf(part \o rest, part, rest)
    BY <2>1, <2>3, ConcatItems
  <2>5. Len(part \o rest) >= 2 /\ (part \o rest)[1] = Bar /\ (part \o rest)[2] = of
    BY <2>1, <2>4 DEF ItemsOf
  <2> QED
    BY <1>2, <2>2, <2>5 DEF GoesOn
<1> QED
  BY <1>3, <1>4

-----------------------------------------------------------------------------
(* Scopes of sessions.                                                     *)

ScopesOK ==
  /\ scope = [b \in Backends |-> scope[b]]
  /\ \A b \in Backends : scope[b] \in {NoScope, Classified(session[b])}

ScopeInv == session \in [Backends -> Sessions] /\ composite \in Composite /\ ScopesOK

LEMMA FreshIsSession == FreshSessions \subseteq Sessions
  BY DEF FreshSessions, Sessions, Tenants

LEMMA ScopeInvInit == Init => ScopeInv
<1> SUFFICES ASSUME Init PROVE ScopeInv
  OBVIOUS
<1>1. session \in [Backends -> Sessions]
  BY FreshIsSession DEF Init
<1> QED
  BY <1>1 DEF Init, ScopeInv, ScopesOK

LEMMA ChangedKeepsScopeInv ==
  ASSUME ScopeInv, NEW b \in Backends, NEW changed \in Sessions, Changed(b, changed)
  PROVE  ScopeInv'
<1>1. /\ session' \in [Backends -> Sessions]
      /\ \A c \in Backends : c # b => session'[c] = session[c]
  BY DEF ScopeInv, Changed
<1>2. /\ scope' = [c \in Backends |-> scope'[c]] /\ scope'[b] = NoScope
      /\ \A c \in Backends : c # b => scope'[c] = scope[c]
  BY DEF ScopeInv, ScopesOK, Changed
<1>3. composite' = composite
  BY DEF Changed
<1>4. \A c \in Backends : c # b => Classified(session[c])' = Classified(session[c])
  BY <1>1, <1>3 DEF Classified
<1> QED
  BY <1>1, <1>2, <1>3, <1>4 DEF ScopeInv, ScopesOK

LEMMA NextKeepsScopeInv == ScopeInv /\ [Next]_vars => ScopeInv'
<1> SUFFICES ASSUME ScopeInv, [Next]_vars PROVE ScopeInv'
  OBVIOUS
<1>1. \A b \in Backends : session[b] \in Sessions
  BY DEF ScopeInv
<1>2. ASSUME NEW b \in Backends, NEW text \in TenantTexts, SetTenant(b, text) PROVE ScopeInv'
  <2>1. Trim(text) \in Tenants
    BY <1>2 DEF SetTenant, Tenants
  <2>2. [session[b] EXCEPT !.tenant = Trim(text)] \in Sessions
    BY <1>1, <2>1 DEF Sessions
  <2> QED
    BY <1>2, <2>2, ChangedKeepsScopeInv DEF SetTenant
<1>3. ASSUME NEW b \in Backends, ClearTenant(b) PROVE ScopeInv'
  <2>1. [session[b] EXCEPT !.tenant = NoTenant] \in Sessions
    BY <1>1 DEF Sessions, Tenants
  <2> QED
    BY <1>3, <2>1, ChangedKeepsScopeInv DEF ClearTenant
<1>4. ASSUME NEW b \in Backends, LeaveDefiner(b) PROVE ScopeInv'
  <2>1. [session[b] EXCEPT !.role = session[b].outer] \in Sessions
    BY <1>1 DEF Sessions
  <2> QED
    BY <1>4, <2>1, ChangedKeepsScopeInv DEF LeaveDefiner
<1>5. ASSUME NEW b \in Backends, NEW role \in Roles, SetRole(b, role) \/ EnterDefiner(b, role)
      PROVE  ScopeInv'
  <2>1. /\ [session[b] EXCEPT !.outer = role, !.role = role] \in Sessions
        /\ [session[b] EXCEPT !.role = role] \in Sessions
    BY <1>1 DEF Sessions
  <2> QED
    BY <1>5, <2>1, ChangedKeepsScopeInv DEF SetRole, EnterDefiner
<1>6. ASSUME NEW b \in Backends, NEW application \in Applications, SetApplication(b, application)
      PROVE  ScopeInv'
  <2>1. [session[b] EXCEPT !.application = application] \in Sessions
    BY <1>1 DEF Sessions
  <2> QED
    BY <1>6, <2>1, ChangedKeepsScopeInv DEF SetApplication
<1>7. ASSUME NEW b \in Backends, NEW fresh \in FreshSessions, Reconnect(b, fresh) PROVE ScopeInv'
  BY <1>7, FreshIsSession, ChangedKeepsScopeInv DEF Reconnect
<1>8. ASSUME NEW b \in Backends, Admit(b) PROVE ScopeInv'
  <2>1. session' = session /\ composite' = composite
    BY <1>8 DEF Admit
  <2>2. /\ scope' = [c \in Backends |-> scope'[c]] /\ scope'[b] = Classified(session[b])
        /\ \A c \in Backends : c # b => scope'[c] = scope[c]
    BY <1>8 DEF Admit, ScopeInv, ScopesOK
  <2>3. \A c \in Backends : Classified(session[c])' = Classified(session[c])
    BY <2>1 DEF Classified
  <2> QED
    BY <2>1, <2>2, <2>3 DEF ScopeInv, ScopesOK
<1>9. ASSUME UNCHANGED vars PROVE ScopeInv'
  <2>1. session' = session /\ composite' = composite /\ scope' = scope
    BY <1>9 DEF vars
  <2>2. \A c \in Backends : Classified(session[c])' = Classified(session[c])
    BY <2>1 DEF Classified
  <2> QED
    BY <2>1, <2>2 DEF ScopeInv, ScopesOK
<1> QED
  BY <1>2, <1>3, <1>4, <1>5, <1>6, <1>7, <1>8, <1>9 DEF Next

LEMMA ScopeInvHolds == Spec => []ScopeInv
  BY ScopeInvInit, NextKeepsScopeInv, PTL DEF Spec

\* The scope of a session is its preferred name or, of several names, the text
\* of all.
LEMMA ScopeOf ==
  ASSUME NEW s \in Sessions, Classified(s) # NoScope
  PROVE  /\ Components(s) # <<>>
         /\ \/ /\ Classified(s).kind = "composite" /\ composite
               /\ Classified(s).value = CompositeValue(Components(s))
            \/ /\ Classified(s).kind \in Kinds
               /\ Classified(s)
                    = Preferred(s.tenant, Trim(s.role), Trim(s.database), Trim(s.application))
<1>1. Components(s) # <<>>
  BY DEF Classified
<1>2. CASE composite /\ Len(Components(s)) >= 2
  <2>1. Classified(s) = [kind |-> "composite", value |-> CompositeValue(Components(s))]
    BY <1>1, <1>2 DEF Classified
  <2> QED
    BY <1>1, <1>2, <2>1
<1>3. CASE ~(composite /\ Len(Components(s)) >= 2)
  <2>1. Classified(s) = Preferred(s.tenant, Trim(s.role), Trim(s.database), Trim(s.application))
    BY <1>1, <1>3, ComponentsAre DEF Classified
  <2>2. Classified(s).kind \in Kinds
    BY <2>1 DEF Preferred, Kinds
  <2> QED
    BY <1>1, <2>1, <2>2
<1> QED
  BY <1>2, <1>3

LEMMA AdmittedScope ==
  ASSUME ScopeInv, NEW b \in Backends, Admitted(b)
  PROVE  session[b] \in Sessions /\ scope[b] = Classified(session[b]) /\ Classified(session[b]) # NoScope
  BY DEF ScopeInv, ScopesOK, Admitted

LEMMA CompositesRead ==
  ASSUME NEW s \in Sessions, NEW t \in Sessions,
         Components(s) # <<>>, Components(t) # <<>>,
         CompositeValue(Components(s)) = CompositeValue(Components(t))
  PROVE  /\ s.tenant = t.tenant
         /\ ~HasAny(s.role, {Bar}) /\ ~HasAny(s.database, {Bar})
              /\ ~HasAny(t.role, {Bar}) /\ ~HasAny(t.database, {Bar})
              => Components(s) = Components(t)
<1> DEFINE last(x) == Part("application", Trim(x.application))
           third(x) == Part("database", Trim(x.database)) \o last(x)
           second(x) == Part("role", Trim(x.role)) \o third(x)
<1>1. "tenant" \in Kinds /\ "role" \in Kinds /\ "database" \in Kinds /\ "application" \in Kinds
  BY DEF Kinds
<1>2. ASSUME NEW x \in Sessions
      PROVE  /\ last(x) \in Texts /\ third(x) \in Texts /\ second(x) \in Texts
             /\ GoesOn(last(x), "database") /\ GoesOn(third(x), "role")
             /\ GoesOn(second(x), "tenant")
  <2>1. /\ Trim(x.role) \in Texts /\ Trim(x.database) \in Texts /\ Trim(x.application) \in Texts
    BY NamesOfSession
  <2>2. <<>> \in Texts /\ \A kind : GoesOn(<<>>, kind)
    BY DEF Texts, GoesOn
  <2>3. last(x) \in Texts /\ last(x) \o <<>> = last(x)
    <3>1. last(x) \in Texts
      BY <1>1, <2>1, PartIsText
    <3> HIDE DEF last
    <3> QED
      BY <3>1 DEF Texts
  <2>4. ASSUME NEW kind, kind # "application" PROVE GoesOn(last(x), kind)
    <3>1. GoesOn(last(x) \o <<>>, kind)
      BY <1>1, <2>1, <2>2, <2>4, GoesOnWithPart
    <3> HIDE DEF last
    <3> QED
      BY <2>3, <3>1
  <2> HIDE DEF last
  <2>5. ASSUME NEW kind, kind # "application", kind # "database"
        PROVE  third(x) \in Texts /\ GoesOn(third(x), kind)
    BY <1>1, <2>1, <2>3, <2>4, <2>5, GoesOnWithPart
  <2> HIDE DEF third
  <2>6. third(x) \in Texts /\ GoesOn(third(x), "role") /\ GoesOn(third(x), "tenant")
    BY <2>5
  <2>7. second(x) \in Texts /\ GoesOn(second(x), "tenant")
    BY <1>1, <2>1, <2>6, GoesOnWithPart
  <2> QED
    BY <2>3, <2>4, <2>6, <2>7
<1>3. Part("tenant", s.tenant) \o second(s) = Part("tenant", t.tenant) \o second(t)
  <2>1. Joined(Components(s)) = Joined(Components(t))
    BY DEF Joined
  <2> QED
    BY <2>1, ComponentsAre DEF JoinedParts
<1>4. s.tenant = t.tenant /\ second(s) = second(t)
  <2> HIDE DEF second
  <2> QED
    BY <1>1, <1>2, <1>3, NamesOfSession, PartIsRead
<1>5. ASSUME ~HasAny(s.role, {Bar}), ~HasAny(s.database, {Bar}),
             ~HasAny(t.role, {Bar}), ~HasAny(t.database, {Bar})
      PROVE  Components(s) = Components(t)
  <2>1. /\ s.role \in Texts /\ s.database \in Texts /\ t.role \in Texts /\ t.database \in Texts
    BY NamesAreTexts DEF Sessions
  <2>2. /\ ~HasAny(Trim(s.role), {Bar}) /\ ~HasAny(Trim(s.database), {Bar})
        /\ ~HasAny(Trim(t.role), {Bar}) /\ ~HasAny(Trim(t.database), {Bar})
    BY <1>5, <2>1, TrimIsPart
  <2>3. /\ Trim(s.role) \in Texts /\ Trim(s.database) \in Texts /\ Trim(s.application) \in Texts
        /\ Trim(t.role) \in Texts /\ Trim(t.database) \in Texts /\ Trim(t.application) \in Texts
    BY NamesOfSession
  <2>4. Trim(s.role) = Trim(t.role) /\ third(s) = third(t)
    <3>1. Part("role", Trim(s.role)) \o third(s) = Part("role", Trim(t.role)) \o third(t)
      BY <1>4
    <3>2. /\ third(s) \in Texts /\ third(t) \in Texts
          /\ GoesOn(third(s), "role") /\ GoesOn(third(t), "role")
      BY <1>2
    <3> HIDE DEF third
    <3> QED
      BY <1>1, <2>2, <2>3, <3>1, <3>2, PartIsRead
  <2>5. Trim(s.database) = Trim(t.database) /\ last(s) = last(t)
    <3>1. Part("database", Trim(s.database)) \o last(s)
            = Part("database", Trim(t.database)) \o last(t)
      BY <2>4
    <3>2. /\ last(s) \in Texts /\ last(t) \in Texts
          /\ GoesOn(last(s), "database") /\ GoesOn(last(t), "database")
      BY <1>2
    <3> DEFINE mine == Trim(s.database)
               yours == Trim(t.database)
    <3>3. /\ mine \in Texts /\ yours \in Texts
          /\ ~HasAny(mine, {Bar}) /\ ~HasAny(yours, {Bar})
      BY <2>2, <2>3
    <3> DEFINE rest == last(s)
               remains == last(t)
    <3>4. /\ rest \in Texts /\ remains \in Texts
          /\ GoesOn(rest, "database") /\ GoesOn(remains, "database")
          /\ Part("database", mine) \o rest = Part("database", yours) \o remains
      BY <3>1, <3>2
    <3>5. "database" \in Kinds
      BY <1>1
    <3> HIDE DEF last, mine, yours, rest, remains
    <3>6. mine = yours /\ rest = remains
      BY <3>3, <3>4, <3>5, PartIsRead
    <3> QED
      BY <3>6 DEF mine, yours, rest, remains
  <2>6. Trim(s.application) = Trim(t.application)
    BY <1>1, <2>3, <2>5, LastPartIsRead
  <2> QED
    BY <1>4, <2>4, <2>5, <2>6 DEF Components
<1> QED
  BY <1>4, <1>5

\* Two sessions whose statements share a scope have the same tenant, or both
\* none, for all names: what normalize_tenant_value refuses is enough for the
\* text of composite_scope_value to be read as far as the tenant.
THEOREM TenantsAreSeparated == Spec => []TenantSeparated
<1>1. ScopeInv => TenantSeparated
  <2> SUFFICES ASSUME ScopeInv, NEW b \in Backends, NEW c \in Backends,
                      Admitted(b), Admitted(c), scope[b] = scope[c]
               PROVE  session[b].tenant = session[c].tenant
    BY DEF TenantSeparated
  <2> DEFINE s == session[b]
             t == session[c]
  <2>1. s \in Sessions /\ t \in Sessions /\ Classified(s) = Classified(t) /\ Classified(s) # NoScope
    BY AdmittedScope
  <2> HIDE DEF s, t
  <2>2. CASE Classified(s).kind = "composite"
    <3>1. CompositeValue(Components(s)) = CompositeValue(Components(t))
          /\ Components(s) # <<>> /\ Components(t) # <<>>
      BY <2>1, <2>2, ScopeOf DEF Kinds
    <3> QED
      BY <2>1, <3>1, CompositesRead DEF s, t
  <2>3. CASE Classified(s).kind # "composite"
    <3>1. Preferred(s.tenant, Trim(s.role), Trim(s.database), Trim(s.application))
            = Preferred(t.tenant, Trim(t.role), Trim(t.database), Trim(t.application))
      BY <2>1, <2>3, ScopeOf
    <3>2. s.tenant = t.tenant
      BY <3>1 DEF Preferred
    <3> QED
      BY <3>2 DEF s, t
  <2> QED
    BY <2>2, <2>3
<1> QED
  BY ScopeInvHolds, <1>1, PTL

\* Where role and database names have no bar, the text of a composite scope
\* (composite_scope_value) tells all of its components apart.
THEOREM ClientNamesAreSeparated == Spec => []ClientNamesSeparated
<1>1. ScopeInv => ClientNamesSeparated
  <2> SUFFICES ASSUME ScopeInv, NEW b \in Backends, NEW c \in Backends,
                      Admitted(b), Admitted(c), scope[b] = scope[c],
                      scope[b].kind = "composite",
                      \A s \in {session[b], session[c]} :
                        ~HasAny(s.role, {Bar}) /\ ~HasAny(s.database, {Bar})
               PROVE  Components(session[b]) = Components(session[c])
    BY DEF ClientNamesSeparated
  <2> DEFINE s == session[b]
             t == session[c]
  <2>1. /\ s \in Sessions /\ t \in Sessions /\ Classified(s) = Classified(t)
        /\ Classified(s) # NoScope /\ Classified(s).kind = "composite"
    BY AdmittedScope
  <2>2. /\ ~HasAny(s.role, {Bar}) /\ ~HasAny(s.database, {Bar})
        /\ ~HasAny(t.role, {Bar}) /\ ~HasAny(t.database, {Bar})
    OBVIOUS
  <2> HIDE DEF s, t
  <2>3. CompositeValue(Components(s)) = CompositeValue(Components(t))
        /\ Components(s) # <<>> /\ Components(t) # <<>>
    BY <2>1, ScopeOf DEF Kinds
  <2> QED
    BY <2>1, <2>2, <2>3, CompositesRead DEF s, t
<1> QED
  BY ScopeInvHolds, <1>1, PTL

\* A policy made for a name as PostgreSQL reports it governs the statements
\* classified by that name (normalize_scope_value, policy_matches_scope).
THEOREM PoliciesGovernTheirNames == Spec => []PolicyGovernsItsName
<1>1. ScopeInv => PolicyGovernsItsName
  <2> SUFFICES ASSUME ScopeInv, NEW b \in Backends, Admitted(b)
               PROVE  /\ scope[b].kind = "role" =>
                           Governs([kind |-> "role", value |-> session[b].role], scope[b])
                      /\ scope[b].kind = "tenant" =>
                           \A text \in TenantTexts :
                             Governs([kind |-> "tenant", value |-> text], scope[b])
                               <=> Trim(text) \in {<<>>, session[b].tenant}
    BY DEF PolicyGovernsItsName
  <2>1. /\ session[b] \in Sessions /\ scope[b] = Classified(session[b])
        /\ Classified(session[b]) # NoScope
    BY AdmittedScope
  <2>2. /\ scope[b].kind = "role" => scope[b].value = Trim(session[b].role)
        /\ scope[b].kind = "tenant" => scope[b].value = session[b].tenant
    BY <2>1, ScopeOf DEF Preferred
  <2> QED
    BY <2>2 DEF Governs
<1> QED
  BY ScopeInvHolds, <1>1, PTL
=============================================================================
