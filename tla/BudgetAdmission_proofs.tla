------------------------ MODULE BudgetAdmission_proofs ------------------------
(***************************************************************************)
(* Proofs about BudgetAdmission for every set of backends, scopes and      *)
(* policies, every prediction and every clock: the arithmetic of a bucket, *)
(* the books, the queue, and (BudgetRefinement) that the admission, queue  *)
(* and settlement code implements the abstract budget.                     *)
(***************************************************************************)
EXTENDS BudgetRefinement, FiniteFolds

-----------------------------------------------------------------------------
(* The arithmetic of a bucket.                                             *)

\* Integer division rounds down to within one divisor.
LEMMA DivisionBounds ==
  ASSUME NEW n \in Nat, NEW d \in Nat \ {0}
  PROVE  /\ n \div d \in Nat
         /\ d * (n \div d) <= n
         /\ n < d * (n \div d) + d
  BY Z3

\* A refill never credits more than the rate earns in the interval
\* (refill_available_bytes truncates and saturates).
LEMMA RefillBound ==
  ASSUME NEW rate \in Nat, NEW elapsed \in Nat
  PROVE  /\ Refill(rate, elapsed) \in Bytes
         /\ 1000 * Refill(rate, elapsed) <= rate * elapsed
<1>1. rate * elapsed \in Nat
  OBVIOUS
<1>2. /\ (rate * elapsed) \div 1000 \in Nat
      /\ 1000 * ((rate * elapsed) \div 1000) <= rate * elapsed
  BY <1>1, DivisionBounds
<1> QED
  BY <1>2, MaxBytesAssumption DEF Refill, Smaller, Bytes

\* What is earned by the thousandth is earned in whole bytes.
LEMMA WholeBytesEarned ==
  ASSUME NEW x \in Int, NEW n \in Nat, 1000 * x <= n
  PROVE  x <= n \div 1000
<1>1. n \div 1000 \in Nat /\ n < 1000 * (n \div 1000) + 1000
  BY DivisionBounds
<1> QED
  BY <1>1

\* A product of naturals is monotone in its first factor.
LEMMA ProductMonotone ==
  ASSUME NEW a \in Nat, NEW b \in Nat, NEW c \in Nat, a <= b
  PROVE  a * c <= b * c
  BY Z3

\* The refresh of a bucket: the policy's burst and rate, an amount within the
\* burst, a refill time that only moves forward and only to the reading, and
\* no more credit than the rate earns (refresh_bucket).
LEMMA RefreshBucketFacts ==
  ASSUME NEW bucket \in Bucket, NEW policy, NEW now \in Nat,
         policy.rate \in Bytes, policy.burst \in Bytes
  PROVE  LET fresh == RefreshBucket(bucket, policy, now) IN
         /\ fresh \in Bucket
         /\ fresh.occupied = bucket.occupied
         /\ fresh.debt = bucket.debt
         /\ fresh.rate = policy.rate
         /\ fresh.max_burst = policy.burst
         /\ fresh.available <= policy.burst
         /\ fresh.last_refill >= bucket.last_refill
         /\ fresh.last_refill \in {bucket.last_refill, now}
         /\ 1000 * (fresh.available - bucket.available)
              <= policy.rate * (fresh.last_refill - bucket.last_refill)
<1> DEFINE edited == RefreshBucketPolicy(bucket, policy)
           fresh == RefreshBucket(bucket, policy, now)
           elapsed == now - bucket.last_refill
           refill == Refill(policy.rate, elapsed)
<1>1. /\ edited \in Bucket
      /\ edited.occupied = bucket.occupied
      /\ edited.debt = bucket.debt
      /\ edited.rate = policy.rate
      /\ edited.max_burst = policy.burst
      /\ edited.last_refill = bucket.last_refill
      /\ edited.available <= bucket.available
      /\ edited.available <= policy.burst
  <2>1. /\ bucket.available \in Bytes
        /\ Smaller(bucket.available, policy.burst) \in Bytes
        /\ Smaller(bucket.available, policy.burst) <= bucket.available
        /\ Smaller(bucket.available, policy.burst) <= policy.burst
    BY MaxBytesAssumption DEF Bucket, Bytes, Smaller
  <2>2. edited = [bucket EXCEPT !.max_burst = policy.burst, !.rate = policy.rate,
                                !.available = Smaller(bucket.available, policy.burst)]
    BY DEF RefreshBucketPolicy
  <2> HIDE DEF edited
  <2> QED
    BY <2>1, <2>2 DEF Bucket
<1>2. fresh = IF now <= edited.last_refill \/ refill = 0
              THEN edited
              ELSE [edited EXCEPT
                      !.available = Smaller(SaturatingAdd(@, refill), edited.max_burst),
                      !.last_refill = now]
  BY <1>1 DEF RefreshBucket, RefillAvailableBytes
<1> HIDE DEF edited, fresh
<1>3. CASE now <= edited.last_refill \/ refill = 0
  <2>1. fresh = edited
    BY <1>2, <1>3
  <2>2. policy.rate * (fresh.last_refill - bucket.last_refill) = 0
    BY <2>1, <1>1, MaxBytesAssumption DEF Bucket, Bytes
  <2> QED
    BY <2>1, <2>2, <1>1, MaxBytesAssumption DEF Bucket, Bytes, fresh
<1>4. CASE ~(now <= edited.last_refill \/ refill = 0)
  <2>1. elapsed \in Nat
    BY <1>1, <1>4 DEF Bucket
  <2>2. refill \in Bytes /\ 1000 * refill <= policy.rate * elapsed
    <3>1. policy.rate \in Nat
      BY MaxBytesAssumption DEF Bytes
    <3> HIDE DEF elapsed
    <3> QED
      BY <2>1, <3>1, RefillBound
  <2>3. fresh = [edited EXCEPT
                   !.available = Smaller(SaturatingAdd(@, refill), edited.max_burst),
                   !.last_refill = now]
    BY <1>2, <1>4
  <2> HIDE DEF refill
  <2>4. /\ Smaller(SaturatingAdd(edited.available, refill), edited.max_burst) \in Bytes
        /\ Smaller(SaturatingAdd(edited.available, refill), edited.max_burst)
             <= policy.burst
        /\ Smaller(SaturatingAdd(edited.available, refill), edited.max_burst)
             <= bucket.available + refill
    BY <1>1, <2>2, MaxBytesAssumption DEF Smaller, SaturatingAdd, Bytes, Bucket
  <2>5. /\ fresh \in Bucket
        /\ fresh.occupied = bucket.occupied
        /\ fresh.debt = bucket.debt
        /\ fresh.rate = policy.rate
        /\ fresh.max_burst = policy.burst
        /\ fresh.last_refill = now
        /\ fresh.available <= policy.burst
        /\ fresh.available <= bucket.available + refill
    BY <1>1, <2>3, <2>4 DEF Bucket
  <2>6. now > bucket.last_refill
    BY <1>1, <1>4 DEF Bucket
  <2>7. 1000 * (fresh.available - bucket.available) <= policy.rate * elapsed
    <3>1. /\ policy.rate * elapsed \in Nat /\ refill \in Nat
          /\ fresh.available \in Nat /\ bucket.available \in Nat
      BY <2>1, <2>2, <2>5, MaxBytesAssumption DEF Bucket, Bytes
    <3> QED
      BY <3>1, <2>2, <2>5
  <2> QED
    BY <2>5, <2>6, <2>7 DEF Bucket, fresh
<1> QED
  BY <1>3, <1>4

\* The wait computed for a deficit is long enough to earn it
\* (wait_ms_for_deficit rounds up).
LEMMA WaitEarnsDeficit ==
  ASSUME NEW rate \in Nat \ {0}, NEW deficit \in Nat
  PROVE  /\ WaitMsForDeficit(deficit, rate) \in Nat
         /\ rate * WaitMsForDeficit(deficit, rate) >= 1000 * deficit
<1> DEFINE n == deficit * 1000 + rate - 1
           q == rate * (n \div rate)
<1>1. n \in Nat
  OBVIOUS
<1>2. n \div rate \in Nat /\ n < q + rate
  BY <1>1, DivisionBounds
<1>3. q \in Nat
  <2> HIDE DEF n
  <2> QED
    BY <1>2
<1> HIDE DEF q
<1>4. q >= 1000 * deficit
  BY <1>2, <1>3
<1>5. deficit = 0 => rate * 0 >= 1000 * deficit
  OBVIOUS
<1> QED
  BY <1>2, <1>4, <1>5 DEF WaitMsForDeficit, q

\* The wait for a deficit is no longer than the wait for a larger one.
LEMMA WaitMonotone ==
  ASSUME NEW rate \in Nat \ {0}, NEW deficit \in Nat, NEW most \in Nat,
         deficit <= most
  PROVE  WaitMsForDeficit(deficit, rate) <= (most * 1000 + rate - 1) \div rate
<1> DEFINE n == deficit * 1000 + rate - 1
           m == most * 1000 + rate - 1
           q == n \div rate
           p == m \div rate
<1>1. n \in Nat /\ m \in Nat /\ n <= m
  OBVIOUS
<1>2. q \in Nat /\ rate * q <= n
  BY <1>1, DivisionBounds
<1>3. p \in Nat /\ m < rate * p + rate
  BY <1>1, DivisionBounds
<1>4. q <= p
  <2> HIDE DEF n, m, q, p
  <2>1. SUFFICES ASSUME p + 1 <= q PROVE FALSE
    BY <1>2, <1>3
  <2>2. (p + 1) * rate <= q * rate
    BY <1>2, <1>3, <2>1, ProductMonotone
  <2>3. /\ (p + 1) * rate = rate * p + rate /\ q * rate = rate * q
        /\ rate * p \in Nat /\ rate * q \in Nat
    BY <1>2, <1>3
  <2> QED
    BY <1>1, <1>2, <1>3, <2>2, <2>3
<1> QED
  BY <1>3, <1>4 DEF WaitMsForDeficit

\* A bucket that its policy left as it was, and whose deficit has been earned
\* since the last refill, covers the prediction after its refresh: neither the
\* truncation of the refill nor its saturation loses the byte that was waited
\* for (refill_available_bytes, wait_ms_for_deficit).
LEMMA EarnedRefreshAffords ==
  ASSUME NEW bucket \in Bucket, NEW policy, NEW now \in Nat, NEW predicted \in Bytes,
         policy.rate = bucket.rate, policy.burst = bucket.max_burst,
         bucket.available <= bucket.max_burst, predicted <= bucket.max_burst,
         bucket.last_refill <= now,
         1000 * (predicted - bucket.available)
           <= bucket.rate * (now - bucket.last_refill)
  PROVE  CanAfford(RefreshBucket(bucket, policy, now).available, predicted)
<1> DEFINE edited == RefreshBucketPolicy(bucket, policy)
           fresh == RefreshBucket(bucket, policy, now)
           elapsed == now - bucket.last_refill
           earned == (bucket.rate * elapsed) \div 1000
           refill == Refill(bucket.rate, elapsed)
           deficit == predicted - bucket.available
<1>1. /\ bucket.available \in Nat /\ bucket.rate \in Nat /\ bucket.max_burst \in Nat
      /\ bucket.available <= MaxBytes /\ bucket.max_burst <= MaxBytes
      /\ predicted \in Nat /\ predicted <= MaxBytes /\ MaxBytes \in Nat
      /\ elapsed \in Nat /\ deficit \in Int
  BY MaxBytesAssumption DEF Bucket, Bytes
<1>2. bucket.rate * elapsed \in Nat /\ 1000 * deficit <= bucket.rate * elapsed
  <2>1. \A r \in Nat, e \in Nat : r * e \in Nat
    OBVIOUS
  <2> QED
    BY <1>1, <2>1
<1>3. deficit <= earned /\ earned \in Nat
  <2> DEFINE n == bucket.rate * elapsed
  <2>1. n \in Nat /\ 1000 * deficit <= n
    BY <1>2
  <2> HIDE DEF n, deficit
  <2>2. deficit <= n \div 1000 /\ n \div 1000 \in Nat
    BY <1>1, <2>1, WholeBytesEarned, DivisionBounds
  <2> QED
    BY <2>2 DEF n
<1>4. edited.available = bucket.available /\ edited.rate = bucket.rate
      /\ edited.max_burst = bucket.max_burst /\ edited.last_refill = bucket.last_refill
      /\ edited \in Bucket
  BY <1>1 DEF RefreshBucketPolicy, Smaller, Bucket
<1>5. fresh = IF now <= bucket.last_refill \/ refill = 0
              THEN edited
              ELSE [edited EXCEPT
                      !.available = Smaller(SaturatingAdd(bucket.available, refill),
                                            bucket.max_burst),
                      !.last_refill = now]
  BY <1>4 DEF RefreshBucket, RefillAvailableBytes
<1>6. refill = Smaller(earned, MaxBytes)
  BY DEF Refill
<1> HIDE DEF edited, earned, refill
<1>7. CASE now <= bucket.last_refill
  <2>1. elapsed = 0
    BY <1>1, <1>7 DEF Bucket
  <2>2. deficit <= 0
    BY <1>1, <1>2, <2>1
  <2>3. fresh = edited
    BY <1>5, <1>7
  <2> QED
    BY <1>1, <1>4, <2>2, <2>3 DEF CanAfford
<1>8. CASE refill = 0
  <2>1. earned = 0
    BY <1>3, <1>6, <1>8, MaxBytesAssumption DEF Smaller
  <2>2. fresh = edited
    BY <1>5, <1>8
  <2> QED
    BY <1>1, <1>3, <1>4, <2>1, <2>2 DEF CanAfford
<1>9. CASE now > bucket.last_refill /\ refill # 0
  <2>1. fresh = [edited EXCEPT
                   !.available = Smaller(SaturatingAdd(bucket.available, refill),
                                         bucket.max_burst),
                   !.last_refill = now]
    BY <1>5, <1>9 DEF Bucket
  <2>2. fresh.available = Smaller(SaturatingAdd(bucket.available, refill), bucket.max_burst)
    BY <1>4, <2>1 DEF Bucket
  <2>3. predicted <= SaturatingAdd(bucket.available, refill)
    BY <1>1, <1>3, <1>6 DEF SaturatingAdd, Smaller
  <2> HIDE DEF fresh
  <2>4. predicted <= fresh.available
    BY <2>2, <2>3 DEF Smaller
  <2> QED
    BY <2>4 DEF CanAfford, fresh
<1> QED
  BY <1>1, <1>7, <1>8, <1>9 DEF Bucket

-----------------------------------------------------------------------------
(* Policies, statements and buckets.                                       *)

\* A captured policy has a key, and rates and bursts in range; a zero rate
\* means that no policy matched.
LEMMA PolicyFacts ==
  ASSUME NEW p \in PolicyConfigs \cup {NoPolicy}
  PROVE  /\ p.policy_id \in PolicyIds
         /\ p.rate \in Bytes
         /\ p.burst \in Bytes
         /\ RateCeiling[p.policy_id] \in Nat
         /\ p.rate <= RateCeiling[p.policy_id]
         /\ p.mode = "queue" => p.rate \in Nat \ {0}
<1>1. CASE p \in PolicyConfigs
  BY <1>1, PolicyAssumption, MaxBytesAssumption DEF PolicyIds, Bytes
<1>2. CASE p = NoPolicy
  <2>1. NoPolicy.policy_id \in PolicyIds
    <3>1. \E i : i \in PolicyIds
      BY PolicyAssumption DEF PolicyIds
    <3> QED
      BY <3>1 DEF NoPolicy
  <2>2. RateCeiling[NoPolicy.policy_id] \in Nat
    BY <2>1, PolicyAssumption DEF PolicyIds
  <2>3. NoPolicy.rate = 0 /\ NoPolicy.burst = 0 /\ NoPolicy.mode = "unmatched"
    BY DEF NoPolicy
  <2> QED
    BY <1>2, <2>1, <2>2, <2>3, MaxBytesAssumption DEF Bytes
<1> QED
  BY <1>1, <1>2

LEMMA IdleIsStatement == IdleStatement \in Statement
<1>1. (CHOOSE s \in Scopes : TRUE) \in Scopes
  BY StatementAssumption
<1> QED
  BY <1>1, MaxBytesAssumption DEF IdleStatement, Statement, Phases, Bytes

LEMMA EmptySlotIsBucket == EmptySlot \in Bucket
  BY MaxBytesAssumption DEF EmptySlot, Bucket, Bytes

LEMMA KeyOfStatement ==
  ASSUME NEW s \in Statement
  PROVE  Key(s) \in Keys
  BY PolicyFacts DEF Statement, Key, Keys

\* What an attempt sees: the stored or the new bucket, and its refresh.
LEMMA AttemptFacts ==
  ASSUME TypeOK, NEW b \in Backends
  PROVE  LET s == stmt[b] IN
         /\ s \in Statement
         /\ Key(s) \in Keys
         /\ BucketFor(s) \in Bucket /\ BucketFor(s).occupied
         /\ LedgerFor(s) \in Ledger
         /\ Refreshed(s) \in Bucket /\ Refreshed(s).occupied
         /\ Refreshed(s).debt = BucketFor(s).debt
         /\ Refreshed(s).rate = s.policy.rate
         /\ Refreshed(s).max_burst = s.policy.burst
         /\ Refreshed(s).available <= s.policy.burst
         /\ Refreshed(s).last_refill >= BucketFor(s).last_refill
         /\ Refreshed(s).last_refill \in {BucketFor(s).last_refill, s.now}
         /\ 1000 * (Refreshed(s).available - BucketFor(s).available)
              <= s.policy.rate * (Refreshed(s).last_refill - BucketFor(s).last_refill)
<1> DEFINE s == stmt[b]
<1>1. s \in Statement
  BY DEF TypeOK
<1>2. Key(s) \in Keys
  BY <1>1, KeyOfStatement
<1>3. /\ s.policy \in PolicyConfigs \cup {NoPolicy}
      /\ s.now \in Nat
  BY <1>1 DEF Statement
<1>4. s.policy.rate \in Bytes /\ s.policy.burst \in Bytes
  BY <1>3, PolicyFacts
<1>5. BucketFor(s) \in Bucket /\ BucketFor(s).occupied
  <2>1. InitialBucketState(s.policy, s.now) \in Bucket
    BY <1>3, <1>4, MaxBytesAssumption DEF InitialBucketState, Bucket, Bytes
  <2>2. InitialBucketState(s.policy, s.now).occupied
    BY DEF InitialBucketState
  <2>3. buckets[Key(s)] \in Bucket
    BY <1>2 DEF TypeOK
  <2> QED
    BY <2>1, <2>2, <2>3 DEF BucketFor
<1>6. LedgerFor(s) \in Ledger
  <2>1. ledger[Key(s)] \in Ledger
    BY <1>2 DEF TypeOK
  <2>2. NewLedger(s.policy.burst, s.now) \in Ledger
    BY <1>3, <1>4, MaxBytesAssumption DEF NewLedger, Ledger, Bytes
  <2> QED
    BY <2>1, <2>2 DEF LedgerFor
<1> HIDE DEF s
<1>7. /\ Refreshed(s) \in Bucket /\ Refreshed(s).occupied = BucketFor(s).occupied
      /\ Refreshed(s).debt = BucketFor(s).debt
      /\ Refreshed(s).rate = s.policy.rate
      /\ Refreshed(s).max_burst = s.policy.burst
      /\ Refreshed(s).available <= s.policy.burst
      /\ Refreshed(s).last_refill >= BucketFor(s).last_refill
      /\ Refreshed(s).last_refill \in {BucketFor(s).last_refill, s.now}
      /\ 1000 * (Refreshed(s).available - BucketFor(s).available)
           <= s.policy.rate * (Refreshed(s).last_refill - BucketFor(s).last_refill)
  <2>1. Refreshed(s) = RefreshBucket(BucketFor(s), s.policy, s.now)
    BY DEF Refreshed
  <2> DEFINE bucket == BucketFor(s)
             policy == s.policy
             now == s.now
  <2>2. /\ bucket \in Bucket /\ now \in Nat
        /\ policy.rate \in Bytes /\ policy.burst \in Bytes
    BY <1>3, <1>4, <1>5
  <2> HIDE DEF bucket, policy, now
  <2>3. LET fresh == RefreshBucket(bucket, policy, now) IN
        /\ fresh \in Bucket
        /\ fresh.occupied = bucket.occupied
        /\ fresh.debt = bucket.debt
        /\ fresh.rate = policy.rate
        /\ fresh.max_burst = policy.burst
        /\ fresh.available <= policy.burst
        /\ fresh.last_refill >= bucket.last_refill
        /\ fresh.last_refill \in {bucket.last_refill, now}
        /\ 1000 * (fresh.available - bucket.available)
             <= policy.rate * (fresh.last_refill - bucket.last_refill)
    BY <2>2, RefreshBucketFacts
  <2> QED
    BY <2>1, <2>3 DEF bucket, policy, now
<1> QED
  BY <1>1, <1>2, <1>5, <1>6, <1>7 DEF s

LEMMA RefundFacts ==
  ASSUME NEW bucket \in Bucket, NEW bytes \in Nat
  PROVE  LET after == RefundBudgetCharge(bucket, bytes) IN
         /\ after \in Bucket
         /\ after.occupied = bucket.occupied
         /\ after.max_burst = bucket.max_burst
         /\ after.last_refill = bucket.last_refill
         /\ after.debt = bucket.debt
         /\ after.available <= bucket.max_burst
         /\ after.available <= bucket.available + bytes
<1>1. /\ Smaller(SaturatingAdd(bucket.available, bytes), bucket.max_burst) \in Bytes
      /\ Smaller(SaturatingAdd(bucket.available, bytes), bucket.max_burst)
           <= bucket.max_burst
      /\ Smaller(SaturatingAdd(bucket.available, bytes), bucket.max_burst)
           <= bucket.available + bytes
  BY MaxBytesAssumption DEF Smaller, SaturatingAdd, Bucket, Bytes
<1> QED
  BY <1>1 DEF RefundBudgetCharge, Bucket

LEMMA DebtFacts ==
  ASSUME NEW bucket \in Bucket, NEW bytes \in Nat
  PROVE  LET after == RecordBudgetDebt(bucket, bytes) IN
         /\ after \in Bucket
         /\ after.occupied = bucket.occupied
         /\ after.available = bucket.available
         /\ after.max_burst = bucket.max_burst
         /\ after.last_refill = bucket.last_refill
<1>1. SaturatingAdd(bucket.debt, bytes) \in Bytes
  BY MaxBytesAssumption DEF Smaller, SaturatingAdd, Bucket, Bytes
<1> QED
  BY <1>1 DEF RecordBudgetDebt, Bucket

\* The settlement of a charge gives back at most what was not written, and
\* touches nothing but the available bytes and the debt.
LEMMA ReconcileFacts ==
  ASSUME NEW bucket \in Bucket, NEW charged \in Nat, NEW actual \in Nat
  PROVE  LET after == ReconcileBudget(bucket, charged, actual) IN
         /\ after \in Bucket
         /\ after.occupied = bucket.occupied
         /\ after.max_burst = bucket.max_burst
         /\ after.last_refill = bucket.last_refill
         /\ bucket.available <= bucket.max_burst => after.available <= bucket.max_burst
         /\ after.available
              <= bucket.available + (charged - Smaller(actual, charged))
<1>1. CASE ~bucket.occupied \/ actual = charged
  BY <1>1, MaxBytesAssumption DEF ReconcileBudget, Bucket, Bytes, Smaller
<1>2. CASE bucket.occupied /\ actual < charged
  <2>1. charged - actual \in Nat /\ Smaller(actual, charged) = actual
    BY <1>2 DEF Smaller
  <2>2. ReconcileBudget(bucket, charged, actual)
          = RefundBudgetCharge(bucket, charged - actual)
    BY <1>2 DEF ReconcileBudget
  <2> QED
    BY <2>1, <2>2, RefundFacts
<1>3. CASE bucket.occupied /\ actual > charged
  <2>1. actual - charged \in Nat /\ charged - Smaller(actual, charged) = 0
    BY <1>3 DEF Smaller
  <2>2. ReconcileBudget(bucket, charged, actual)
          = RecordBudgetDebt(bucket, actual - charged)
    BY <1>3 DEF ReconcileBudget
  <2> QED
    <3> DEFINE after == RecordBudgetDebt(bucket, actual - charged)
    <3>1. /\ after \in Bucket
          /\ after.occupied = bucket.occupied
          /\ after.available = bucket.available
          /\ after.max_burst = bucket.max_burst
          /\ after.last_refill = bucket.last_refill
      BY <2>1, DebtFacts
    <3>2. bucket.available \in Nat
      BY MaxBytesAssumption DEF Bucket, Bytes
    <3> HIDE DEF after
    <3>3. after.available <= bucket.available + (charged - Smaller(actual, charged))
      BY <2>1, <3>1, <3>2
    <3> QED
      BY <2>2, <3>1, <3>3 DEF after
<1> QED
  BY <1>1, <1>2, <1>3

\* What a settlement returns is at most the charge, and never less than nothing.
LEMMA SettlementReturns ==
  ASSUME NEW bucket \in Bucket, bucket.available <= bucket.max_burst,
         NEW charged \in Nat, NEW actual \in Nat
  PROVE  LET after == ReconcileBudget(bucket, charged, actual)
         IN  /\ after.occupied = bucket.occupied
             /\ after.last_refill = bucket.last_refill
             /\ after.max_burst = bucket.max_burst
             /\ after.available <= bucket.max_burst
             /\ bucket.available <= after.available
             /\ after.available <= bucket.available + charged
             /\ after.available \in Nat /\ bucket.available \in Nat
<1> DEFINE after == ReconcileBudget(bucket, charged, actual)
<1>1. /\ after \in Bucket /\ after.occupied = bucket.occupied
      /\ after.last_refill = bucket.last_refill
      /\ after.max_burst = bucket.max_burst
      /\ after.available <= bucket.max_burst
      /\ after.available <= bucket.available + (charged - Smaller(actual, charged))
  BY ReconcileFacts
<1>2. after.available \in Nat /\ bucket.available \in Nat /\ bucket.available <= MaxBytes
      /\ bucket.max_burst \in Nat
  BY <1>1, MaxBytesAssumption DEF Bucket, Bytes
<1>3. charged - Smaller(actual, charged) <= charged
      /\ charged - Smaller(actual, charged) \in Nat
  BY DEF Smaller
<1>4. bucket.available <= after.available
  <2>1. CASE bucket.occupied /\ actual < charged
    <3>1. after = RefundBudgetCharge(bucket, charged - actual) /\ charged - actual \in Nat
      BY <2>1 DEF ReconcileBudget
    <3>2. after.available =
            Smaller(SaturatingAdd(bucket.available, charged - actual), bucket.max_burst)
      BY <3>1 DEF RefundBudgetCharge, Bucket
    <3> HIDE DEF after
    <3> QED
      BY <1>2, <3>1, <3>2, MaxBytesAssumption DEF Smaller, SaturatingAdd
  <2>2. CASE ~(bucket.occupied /\ actual < charged)
    <3>1. after.available = bucket.available
      BY <2>2, DebtFacts DEF ReconcileBudget, RecordBudgetDebt, Bucket
    <3> QED
      BY <1>2, <3>1
  <2> QED
    BY <2>1, <2>2
<1> HIDE DEF after
<1>5. after.available <= bucket.available + charged
  BY <1>1, <1>2, <1>3
<1> QED
  BY <1>1, <1>2, <1>4, <1>5 DEF after
------------------------------------------------------------------------------
LEMMA RunningIsStatement ==
  ASSUME NEW s \in Statement, NEW charged \in Bytes,
         NEW kind \in {"Allowed", "WouldReject"}
  PROVE  Running(s, kind, charged) \in Statement
<1>1. charged \in Bytes /\ 0 \in Nat
  OBVIOUS
<1> QED
  BY <1>1 DEF Running, Statement, Phases

LEMMA TypeInit == Init => TypeOK
<1>1. NewLedger(0, 0) \in Ledger
  BY DEF NewLedger, Ledger
<1> QED
  BY <1>1, IdleIsStatement, EmptySlotIsBucket DEF Init, TypeOK

\* Admission: the attempts of a backend under the lock, and the errors.
LEMMA TypeAttempt ==
  ASSUME TypeOK, NEW b \in Backends, Attempt(b)
  PROVE  TypeOK'
<1> DEFINE s == stmt[b]
<1> USE DEF TypeOK
<1>1. /\ s \in Statement /\ Key(s) \in Keys
      /\ LedgerFor(s) \in Ledger /\ Refreshed(s) \in Bucket
      /\ Refreshed(s).rate = s.policy.rate
  BY AttemptFacts
<1>2. IdleStatement \in Statement
  BY IdleIsStatement
<1>3. /\ s.predicted \in Bytes /\ s.policy \in PolicyConfigs \cup {NoPolicy}
      /\ 0 \in Bytes
  BY <1>1, MaxBytesAssumption DEF Statement, Bytes
<1>4. CASE AdmitUncharged(b)
  <2>1. Running(s, "Allowed", 0) \in Statement
    BY <1>1, <1>3, RunningIsStatement
  <2> QED
    BY <2>1, <1>4 DEF AdmitUncharged
<1>5. CASE AdmitShadow(b)
  <2>1. /\ Running(s, "Allowed", 0) \in Statement
        /\ Running(s, "WouldReject", s.predicted) \in Statement
    BY <1>1, <1>3, RunningIsStatement
  <2>2. stmt' \in [Backends -> Statement]
    BY <2>1, <1>5 DEF AdmitShadow
  <2>3. buckets' \in [Keys -> Bucket] /\ sole' \subseteq Backends
    BY <1>1, <1>5 DEF AdmitShadow, Undisturbed
  <2> QED
    BY <2>2, <2>3, <1>5 DEF AdmitShadow
<1>6. CASE AdmitCharged(b)
  <2>1. Running(s, "Allowed", s.predicted) \in Statement
    BY <1>1, <1>3, RunningIsStatement
  <2>2. ChargeAvailable(Refreshed(s), s.predicted) \in Bucket
    <3>1. Refreshed(s).available - s.predicted \in Bytes
      BY <1>1, <1>3, <1>6, MaxBytesAssumption
         DEF AdmitCharged, CanAfford, Bucket, Bytes
    <3> HIDE DEF s
    <3> QED
      BY <1>1, <3>1 DEF ChargeAvailable, Bucket
  <2>3. [LedgerFor(s) EXCEPT !.granted = @ + s.predicted] \in Ledger
    <3> DEFINE old == LedgerFor(s)
               granted == old.granted + s.predicted
    <3>1. old \in Ledger /\ granted \in Int
      BY <1>1, <1>3, MaxBytesAssumption DEF Ledger, Bytes
    <3> HIDE DEF old, granted
    <3>2. [old EXCEPT !.granted = granted] \in Ledger
      BY <3>1 DEF Ledger
    <3> QED
      BY <3>2 DEF old, granted
  <2> QED
    BY <2>1, <2>2, <2>3, <1>1, <1>6 DEF AdmitCharged, Undisturbed
<1>7. CASE RejectOverBudget(b)
  BY <1>2, <1>7 DEF RejectOverBudget
<1>8. CASE RejectOverBurst(b)
  BY <1>2, <1>8 DEF RejectOverBurst
<1>9. CASE BucketCapacityExhausted(b)
  <2>1. [IdleStatement EXCEPT !.phase = IF FailOpen THEN "untracked" ELSE "idle"]
          \in Statement
    BY <1>2 DEF Statement, Phases
  <2> QED
    BY <2>1, <1>9 DEF BucketCapacityExhausted
<1>10. CASE QueueWouldWait(b)
  <2> DEFINE deficit == s.predicted - Refreshed(s).available
             rate == Refreshed(s).rate
             wait == WaitMsForDeficit(deficit, rate)
  <2>1. deficit \in Nat
    BY <1>1, <1>3, <1>10, MaxBytesAssumption
       DEF QueueWouldWait, CanAfford, Bucket, Bytes
  <2>2. rate \in Nat \ {0}
    BY <1>1, <1>3, <1>10, PolicyFacts DEF QueueWouldWait
  <2>3. wait \in Nat
    <3> HIDE DEF deficit, rate
    <3> QED
      BY <2>1, <2>2, WaitEarnsDeficit
  <2>4. [s EXCEPT !.phase = "queued", !.now = 0, !.sleep = wait] \in Statement
    <3> HIDE DEF wait, s
    <3> QED
      BY <1>1, <2>3 DEF Statement, Phases
  <2>5. stmt' = [stmt EXCEPT ![b] =
                   [s EXCEPT !.phase = "queued", !.now = 0, !.sleep = wait]]
    BY <1>10 DEF QueueWouldWait
  <2>6. /\ buckets' = [buckets EXCEPT ![Key(s)] = Refreshed(s)]
        /\ ledger' = [ledger EXCEPT ![Key(s)] = LedgerFor(s)]
        /\ sole' \subseteq Backends
        /\ UNCHANGED <<wall, started, stepBacks, crashes>>
    BY <1>10 DEF QueueWouldWait, Undisturbed
  <2> HIDE DEF wait
  <2>7. stmt' \in [Backends -> Statement]
    BY <2>4, <2>5
  <2>8. buckets' \in [Keys -> Bucket] /\ ledger' \in [Keys -> Ledger]
    BY <2>6, <1>1
  <2> QED
    BY <2>6, <2>7, <2>8
<1> QED
  BY <1>4, <1>5, <1>6, <1>7, <1>8, <1>9, <1>10 DEF Attempt

LEMMA SleepShortened ==
  ASSUME NEW s \in Statement, NEW d \in Nat
  PROVE  /\ [s EXCEPT !.sleep = @ - Smaller(@, d)] \in Statement
         /\ s.sleep - Smaller(s.sleep, d) \in Nat
         /\ s.sleep - Smaller(s.sleep, d) <= s.sleep
<1>1. /\ s.sleep - Smaller(s.sleep, d) \in Nat
      /\ s.sleep - Smaller(s.sleep, d) <= s.sleep
  BY DEF Statement, Smaller
<1> QED
  BY <1>1 DEF Statement

LEMMA TypeNext == TypeOK /\ [Next]_vars => TypeOK'
<1> SUFFICES ASSUME TypeOK, [Next]_vars PROVE TypeOK'
  OBVIOUS
<1>0. IdleStatement \in Statement
  BY IdleIsStatement
<1>1. ASSUME NEW b \in Backends, Start(b) PROVE TypeOK'
  <2>1. PICK policy \in PolicyConfigs \cup {NoPolicy}, scope \in Scopes,
             predicted \in Predictions :
          stmt' = [stmt EXCEPT ![b] =
                    [IdleStatement EXCEPT !.phase = "admit", !.policy = policy,
                       !.scope = scope, !.predicted = predicted, !.now = wall]]
    BY <1>1 DEF Start
  <2> DEFINE new == [IdleStatement EXCEPT !.phase = "admit", !.policy = policy,
                       !.scope = scope, !.predicted = predicted, !.now = wall]
  <2>2. new \in Statement
    <3>1. predicted \in Bytes /\ wall \in Nat
      BY StatementAssumption DEF TypeOK
    <3> QED
      BY <1>0, <3>1 DEF Statement, Phases
  <2> HIDE DEF new
  <2>3. stmt' \in [Backends -> Statement]
    BY <2>1, <2>2 DEF TypeOK, new
  <2> QED
    BY <1>1, <2>3 DEF Start, TypeOK
<1>2. ASSUME NEW b \in Backends, Attempt(b) PROVE TypeOK'
  BY <1>2, TypeAttempt
<1>3. ASSUME NEW b \in Backends, Wake(b) PROVE TypeOK'
  <2>1. [stmt[b] EXCEPT !.phase = "retry", !.now = wall] \in Statement
    BY DEF TypeOK, Statement, Phases
  <2>2. stmt' \in [Backends -> Statement]
    BY <1>3, <2>1 DEF Wake, TypeOK
  <2> QED
    BY <1>3, <2>2 DEF Wake, TypeOK
<1>4. ASSUME NEW b \in Backends, LatchSet(b) PROVE TypeOK'
  <2>1. [stmt[b] EXCEPT !.sleep = @ - Smaller(@, SleepChunkMs)] \in Statement
    BY SleepShortened, ClockAssumption DEF TypeOK
  <2> QED
    BY <1>4, <2>1 DEF LatchSet, TypeOK
<1>5. ASSUME NEW b \in Backends, CancelQueued(b) PROVE TypeOK'
  BY <1>0, <1>5 DEF CancelQueued, TypeOK
<1>6. ASSUME NEW b \in Backends, Complete(b) PROVE TypeOK'
  <2>1. stmt' \in [Backends -> Statement]
    BY <1>0, <1>6 DEF Complete, TypeOK
  <2>2. CASE ~HoldsCharge(stmt[b])
    BY <1>6, <2>1, <2>2 DEF Complete, TypeOK
  <2>3. CASE HoldsCharge(stmt[b])
    <3> DEFINE s == stmt[b]
               k == Key(s)
    <3>1. PICK actual \in Actuals :
            /\ buckets' = [buckets EXCEPT ![k] = ReconcileBudget(@, s.charged, actual)]
            /\ ledger' = [ledger EXCEPT
                 ![k].granted = @ - (s.charged - Smaller(actual, s.charged)),
                 ![k].used = @ + actual]
      BY <1>6, <2>3 DEF Complete
    <3>2. /\ actual \in Nat /\ s.charged \in Nat /\ k \in Keys
          /\ buckets[k] \in Bucket /\ ledger[k] \in Ledger
      BY KeyOfStatement, StatementAssumption, MaxBytesAssumption
         DEF TypeOK, Statement, Bytes
    <3>3. buckets' \in [Keys -> Bucket]
      BY <3>1, <3>2, ReconcileFacts DEF TypeOK
    <3>4. ledger' \in [Keys -> Ledger]
      BY <3>1, <3>2 DEF TypeOK, Ledger, Smaller
    <3> QED
      BY <1>6, <2>1, <3>3, <3>4 DEF Complete, TypeOK
  <2> QED
    BY <2>2, <2>3
<1>7. ASSUME NEW b \in Backends, AbortRunning(b) PROVE TypeOK'
  <2>1. stmt' \in [Backends -> Statement]
    BY <1>0, <1>7 DEF AbortRunning, TypeOK
  <2>2. CASE ~HoldsCharge(stmt[b])
    BY <1>7, <2>1, <2>2 DEF AbortRunning, TypeOK
  <2>3. CASE HoldsCharge(stmt[b])
    <3> DEFINE s == stmt[b]
               k == Key(s)
    <3>1. /\ buckets' = [buckets EXCEPT ![k] = ReconcileBudget(@, s.charged, 0)]
          /\ ledger' = [ledger EXCEPT ![k].granted = @ - s.charged]
      BY <1>7, <2>3 DEF AbortRunning
    <3>2. /\ 0 \in Nat /\ s.charged \in Nat /\ k \in Keys
          /\ buckets[k] \in Bucket /\ ledger[k] \in Ledger
      BY KeyOfStatement, MaxBytesAssumption DEF TypeOK, Statement, Bytes
    <3>3. buckets' \in [Keys -> Bucket]
      BY <3>1, <3>2, ReconcileFacts DEF TypeOK
    <3>4. ledger' \in [Keys -> Ledger]
      BY <3>1, <3>2 DEF TypeOK, Ledger
    <3> QED
      BY <1>7, <2>1, <3>3, <3>4 DEF AbortRunning, TypeOK
  <2> QED
    BY <2>2, <2>3
<1>8. ASSUME NEW b \in Backends, CompletionRaises(b) \/ CommitUnmeasured(b) PROVE TypeOK'
  <2>1. /\ stmt[b].charged \in Nat /\ Key(stmt[b]) \in Keys
        /\ ledger[Key(stmt[b])] \in Ledger
    BY KeyOfStatement, MaxBytesAssumption DEF TypeOK, Statement, Bytes
  <2>2. ledger' \in [Keys -> Ledger]
    <3>1. CASE CompletionRaises(b)
      BY <3>1, <2>1 DEF CompletionRaises, TypeOK, Ledger
    <3>2. CASE CommitUnmeasured(b)
      BY <3>2, <2>1 DEF CommitUnmeasured, TypeOK, Ledger
    <3> QED
      BY <1>8, <3>1, <3>2
  <2> QED
    BY <1>0, <1>8, <2>2 DEF CompletionRaises, CommitUnmeasured, TypeOK
<1>9. ASSUME NEW b \in Backends, FinishUntracked(b) PROVE TypeOK'
  BY <1>0, <1>9 DEF FinishUntracked, TypeOK
<1>10. ASSUME Tick PROVE TypeOK'
  <2>1. PICK d \in Ticks :
          /\ wall' = wall + d
          /\ stmt' = [b \in Backends |->
                        [stmt[b] EXCEPT !.sleep = @ - Smaller(@, d)]]
    BY <1>10 DEF Tick
  <2>2. d \in Nat
    BY ClockAssumption
  <2>3. stmt' \in [Backends -> Statement]
    BY <2>1, <2>2, SleepShortened DEF TypeOK
  <2> QED
    BY <1>10, <2>1, <2>2, <2>3 DEF Tick, TypeOK
<1>11. ASSUME ClockStepBack PROVE TypeOK'
  BY <1>11, ClockAssumption DEF ClockStepBack, TypeOK
<1>12. ASSUME CrashRestart PROVE TypeOK'
  BY <1>0, <1>12, EmptySlotIsBucket DEF CrashRestart, TypeOK, NewLedger, Ledger
<1>13. ASSUME UNCHANGED vars PROVE TypeOK'
  BY <1>13 DEF vars, TypeOK
<1> QED
  BY <1>1, <1>2, <1>3, <1>4, <1>5, <1>6, <1>7, <1>8, <1>9, <1>10, <1>11, <1>12,
     <1>13 DEF Next, StatementEnds, Finished

\* Type correctness: in particular no charge ever makes the unsigned
\* available_bytes negative, and no wait is computed from a zero rate.
THEOREM TypeCorrect == Spec => []TypeOK
<1>1. Init => TypeOK
  BY TypeInit
<1>2. TypeOK /\ [Next]_vars => TypeOK'
  BY TypeNext
<1> QED
  BY <1>1, <1>2, PTL DEF Spec
------------------------------------------------------------------------------
(***************************************************************************)
(* The token-bucket bound.  BucketBounds and IssueBound are inductive once *)
(* the readings of the clock that backends hold are known to be past.      *)
(***************************************************************************)
AccountOK(k, bucket, entry) ==
  /\ bucket.available <= bucket.max_burst
  /\ entry.created <= bucket.last_refill
  /\ stepBacks = 0 => bucket.last_refill <= wall
  /\ 1000 * (bucket.available + entry.granted - entry.initial)
       <= RateCeiling[k[1]] * (bucket.last_refill - entry.created)

AccountsOK ==
  \A k \in Keys : buckets[k].occupied => AccountOK(k, buckets[k], ledger[k])

ReadingsPast == stepBacks = 0 => \A b \in Backends : stmt[b].now <= wall

IInv == TypeOK /\ AccountsOK /\ ReadingsPast

\* Credit for an interval that follows another adds up under one ceiling.
LEMMA CreditAddsUp ==
  ASSUME NEW c \in Nat, NEW r \in Nat, r <= c,
         NEW t0 \in Nat, NEW t1 \in Nat, NEW t2 \in Nat, t0 <= t1, t1 <= t2,
         NEW x \in Int, NEW y \in Int,
         1000 * x <= c * (t1 - t0), 1000 * (y - x) <= r * (t2 - t1)
  PROVE  1000 * y <= c * (t2 - t0)
<1>1. r * (t2 - t1) <= c * (t2 - t1)
  BY ProductMonotone
<1>2. c * (t1 - t0) + c * (t2 - t1) = c * (t2 - t0)
  BY Z3
<1>3. /\ c * (t1 - t0) \in Int /\ c * (t2 - t1) \in Int
      /\ c * (t2 - t0) \in Int /\ r * (t2 - t1) \in Int
  OBVIOUS
<1> QED
  BY <1>1, <1>2, <1>3

\* Bringing a bucket forward, or creating one, keeps its account in order,
\* whichever policy and reading of the clock the backend captured.
LEMMA RefreshKeepsAccount ==
  ASSUME IInv, NEW b \in Backends
  PROVE  AccountOK(Key(stmt[b]), Refreshed(stmt[b]), LedgerFor(stmt[b]))
<1> DEFINE s == stmt[b]
           k == Key(s)
           old == BucketFor(s)
           new == Refreshed(s)
           entry == LedgerFor(s)
           c == RateCeiling[k[1]]
           r == s.policy.rate
<1>1. /\ s \in Statement /\ k \in Keys
      /\ old \in Bucket /\ new \in Bucket /\ entry \in Ledger
      /\ new.max_burst = s.policy.burst
      /\ new.available <= s.policy.burst
      /\ new.last_refill >= old.last_refill
      /\ new.last_refill \in {old.last_refill, s.now}
      /\ 1000 * (new.available - old.available)
           <= r * (new.last_refill - old.last_refill)
  BY AttemptFacts DEF IInv
<1>2. c \in Nat /\ r \in Nat /\ r <= c /\ s.policy.burst \in Nat
  BY <1>1, PolicyFacts, MaxBytesAssumption DEF Statement, Key, Bytes
<1>3. stepBacks = 0 => s.now <= wall
  BY DEF IInv, ReadingsPast
<1>4. CASE buckets[k].occupied
  <2>1. old = buckets[k] /\ entry = ledger[k]
    BY <1>4 DEF BucketFor, LedgerFor
  <2>2. AccountOK(k, old, entry)
    BY <1>1, <1>4, <2>1 DEF IInv, AccountsOK
  <2> DEFINE x == old.available + entry.granted - entry.initial
             y == new.available + entry.granted - entry.initial
             t0 == entry.created
             t1 == old.last_refill
             t2 == new.last_refill
  <2>3. /\ t0 \in Nat /\ t1 \in Nat /\ t2 \in Nat /\ t0 <= t1 /\ t1 <= t2
        /\ x \in Int /\ y \in Int /\ y - x = new.available - old.available
    BY <1>1, <2>2, MaxBytesAssumption DEF Bucket, Ledger, Bytes, AccountOK
  <2>4. 1000 * x <= c * (t1 - t0) /\ 1000 * (y - x) <= r * (t2 - t1)
    BY <1>1, <2>2, <2>3 DEF AccountOK
  <2>5. 1000 * y <= c * (t2 - t0)
    <3> HIDE DEF x, y, t0, t1, t2, c, r
    <3> QED
      BY <1>2, <2>3, <2>4, CreditAddsUp
  <2>6. stepBacks = 0 => new.last_refill <= wall
    BY <1>1, <1>3, <2>2 DEF AccountOK
  <2> QED
    BY <1>1, <2>3, <2>5, <2>6 DEF AccountOK
<1>5. CASE ~buckets[k].occupied
  <2>1. /\ old = InitialBucketState(s.policy, s.now)
        /\ entry = NewLedger(s.policy.burst, s.now)
    BY <1>5 DEF BucketFor, LedgerFor
  <2>2. /\ new.last_refill = s.now /\ entry.created = s.now
        /\ entry.granted = 0 /\ entry.initial = s.policy.burst
    BY <1>1, <2>1 DEF InitialBucketState, NewLedger
  <2>3. s.now \in Nat /\ new.available \in Nat
    BY <1>1, MaxBytesAssumption DEF Statement, Bucket, Bytes
  <2>4. c * (new.last_refill - entry.created) = 0
    BY <1>2, <2>2, <2>3
  <2>5. 1000 * (new.available + entry.granted - entry.initial) <= 0
    BY <1>1, <1>2, <2>2, <2>3
  <2> QED
    BY <1>1, <1>3, <2>2, <2>3, <2>4, <2>5 DEF AccountOK
<1> QED
  BY <1>4, <1>5

\* One bucket is written; the clock and its history stand still.
LEMMA WriteKeepsAccounts ==
  ASSUME IInv, NEW k \in Keys, NEW bucket, NEW entry,
         buckets' = [buckets EXCEPT ![k] = bucket],
         ledger' = [ledger EXCEPT ![k] = entry],
         UNCHANGED <<wall, stepBacks>>,
         bucket.occupied => AccountOK(k, bucket, entry)
  PROVE  AccountsOK'
<1> SUFFICES ASSUME NEW j \in Keys, buckets'[j].occupied
             PROVE  AccountOK(j, buckets[j], ledger[j])'
  BY DEF AccountsOK
<1>1. CASE j = k
  BY <1>1 DEF IInv, TypeOK, AccountOK
<1>2. CASE j # k
  BY <1>2 DEF IInv, TypeOK, AccountOK, AccountsOK
<1> QED
  BY <1>1, <1>2

\* An attempt keeps every account in order.
LEMMA AttemptKeepsAccounts ==
  ASSUME IInv, NEW b \in Backends, Attempt(b)
  PROVE  AccountsOK'
<1> DEFINE s == stmt[b]
           k == Key(s)
           fresh == Refreshed(s)
           entry == LedgerFor(s)
<1>1. /\ k \in Keys /\ s \in Statement
      /\ fresh \in Bucket /\ entry \in Ledger
      /\ AccountOK(k, fresh, entry)
  BY AttemptFacts, RefreshKeepsAccount DEF IInv
<1>2. CASE UNCHANGED <<wall, buckets, stepBacks, ledger>>
  BY <1>2 DEF IInv, AccountsOK, AccountOK
<1>3. CASE AdmitShadow(b) /\ ~buckets[k].occupied
  BY <1>2, <1>3 DEF AdmitShadow
<1>4. CASE AdmitShadow(b) /\ buckets[k].occupied
  <2>1. /\ buckets' = [buckets EXCEPT ![k] = fresh]
        /\ UNCHANGED <<wall, stepBacks>>
        /\ ledger' = ledger
    BY <1>4 DEF AdmitShadow
  <2>2. entry = ledger[k]
    BY <1>4 DEF LedgerFor
  <2>3. ledger' = [ledger EXCEPT ![k] = entry]
    BY <1>1, <2>1, <2>2 DEF IInv, TypeOK
  <2> QED
    BY <1>1, <2>1, <2>3, WriteKeepsAccounts
<1>5. CASE AdmitCharged(b)
  <2> DEFINE charged == ChargeAvailable(fresh, s.predicted)
             granted == [entry EXCEPT !.granted = @ + s.predicted]
  <2>1. /\ buckets' = [buckets EXCEPT ![k] = charged]
        /\ ledger' = [ledger EXCEPT ![k] = granted]
        /\ UNCHANGED <<wall, stepBacks>>
        /\ s.predicted <= fresh.available
    BY <1>5 DEF AdmitCharged, CanAfford
  <2>2. /\ s.predicted \in Nat /\ fresh.available \in Nat
        /\ fresh.max_burst \in Nat
        /\ entry.granted \in Int /\ entry.initial \in Nat
    BY <1>1, MaxBytesAssumption DEF Statement, Bucket, Ledger, Bytes
  <2>3. /\ charged.available = fresh.available - s.predicted
        /\ charged.max_burst = fresh.max_burst
        /\ charged.last_refill = fresh.last_refill
        /\ granted.granted = entry.granted + s.predicted
        /\ granted.initial = entry.initial
        /\ granted.created = entry.created
    <3> HIDE DEF s, fresh, entry, k
    <3> QED
      BY <1>1 DEF ChargeAvailable, Bucket, Ledger
  <2> HIDE DEF charged, granted, fresh, entry, s, k
  <2>4. /\ charged.available <= charged.max_burst
        /\ charged.available + granted.granted - granted.initial
             = fresh.available + entry.granted - entry.initial
    BY <1>1, <2>1, <2>2, <2>3 DEF AccountOK
  <2>5. AccountOK(k, charged, granted)
    BY <1>1, <2>3, <2>4 DEF AccountOK
  <2> QED
    BY <1>1, <2>1, <2>5, WriteKeepsAccounts
<1>6. CASE QueueWouldWait(b)
  <2>1. /\ buckets' = [buckets EXCEPT ![k] = fresh]
        /\ ledger' = [ledger EXCEPT ![k] = entry]
        /\ UNCHANGED <<wall, stepBacks>>
    BY <1>6 DEF QueueWouldWait
  <2> QED
    BY <1>1, <2>1, WriteKeepsAccounts
<1> QED
  BY <1>2, <1>3, <1>4, <1>5, <1>6
     DEF Attempt, AdmitUncharged, RejectOverBudget, RejectOverBurst,
         BucketCapacityExhausted

\* What a settlement writes keeps the account in order: the ledger falls by
\* all that could have come back, the bucket rises by no more.
LEMMA SettlementKeepsAccount ==
  ASSUME NEW k \in Keys, NEW bucket \in Bucket, NEW entry \in Ledger,
         AccountOK(k, bucket, entry),
         NEW charged \in Nat, NEW actual \in Nat, NEW after \in Ledger,
         after.granted = entry.granted - (charged - Smaller(actual, charged)),
         after.initial = entry.initial, after.created = entry.created
  PROVE  AccountOK(k, ReconcileBudget(bucket, charged, actual), after)
<1> DEFINE new == ReconcileBudget(bucket, charged, actual)
           back == charged - Smaller(actual, charged)
<1>1. /\ new \in Bucket
      /\ new.max_burst = bucket.max_burst
      /\ new.last_refill = bucket.last_refill
      /\ new.available <= bucket.max_burst
      /\ new.available <= bucket.available + back
  BY ReconcileFacts DEF AccountOK
<1>2. /\ new.available \in Nat /\ bucket.available \in Nat /\ back \in Nat
      /\ entry.granted \in Int /\ entry.initial \in Nat
  BY <1>1, MaxBytesAssumption DEF Bucket, Ledger, Bytes, Smaller
<1> HIDE DEF new, back
<1>3. new.available + after.granted - after.initial
        <= bucket.available + entry.granted - entry.initial
  BY <1>1, <1>2 DEF back
<1>4. /\ after.granted \in Int /\ after.initial \in Nat /\ after.created \in Nat
      /\ entry.created \in Nat /\ bucket.last_refill \in Nat
  BY DEF Ledger, Bucket
<1>5. ASSUME NEW bound \in Int,
             1000 * (bucket.available + entry.granted - entry.initial) <= bound
      PROVE  1000 * (new.available + after.granted - after.initial) <= bound
  BY <1>2, <1>3, <1>4, <1>5
<1>6. 1000 * (new.available + after.granted - after.initial)
        <= RateCeiling[k[1]] * (bucket.last_refill - entry.created)
  <2>1. RateCeiling[k[1]] * (bucket.last_refill - entry.created) \in Int
    <3>1. RateCeiling[k[1]] \in Nat
      BY PolicyAssumption DEF Keys, PolicyIds
    <3> QED
      BY <1>4, <3>1
  <2> QED
    BY <1>5, <2>1 DEF AccountOK
<1> QED
  BY <1>1, <1>6 DEF AccountOK, new

\* The end of a statement keeps every account in order.
LEMMA SettlementKeepsAccounts ==
  ASSUME IInv, NEW b \in Backends, HoldsCharge(stmt[b]), NEW actual \in Nat,
         NEW after \in Ledger,
         LET s == stmt[b] IN
           /\ buckets' = [buckets EXCEPT ![Key(s)] = ReconcileBudget(@, s.charged, actual)]
           /\ ledger' = [ledger EXCEPT ![Key(s)] = after]
           /\ after.granted = ledger[Key(s)].granted
                                - (s.charged - Smaller(actual, s.charged))
           /\ after.initial = ledger[Key(s)].initial
           /\ after.created = ledger[Key(s)].created,
         UNCHANGED <<wall, stepBacks>>
  PROVE  AccountsOK'
<1> DEFINE s == stmt[b]
           k == Key(s)
           old == buckets[k]
           new == ReconcileBudget(old, s.charged, actual)
<1>1. /\ k \in Keys /\ s.charged \in Nat
      /\ old \in Bucket /\ ledger[k] \in Ledger
  BY KeyOfStatement, MaxBytesAssumption DEF IInv, TypeOK, Statement, Bytes
<1>2. new.occupied = old.occupied
  BY <1>1, ReconcileFacts
<1>3. old.occupied => AccountOK(k, old, ledger[k])
  BY <1>1 DEF IInv, AccountsOK
<1>4. old.occupied => AccountOK(k, new, after)
  <2> SUFFICES ASSUME old.occupied PROVE AccountOK(k, new, after)
    OBVIOUS
  <2> DEFINE charged == s.charged
             entry == ledger[k]
  <2>1. /\ charged \in Nat /\ entry \in Ledger
        /\ AccountOK(k, old, entry)
        /\ after.granted = entry.granted - (charged - Smaller(actual, charged))
        /\ after.initial = entry.initial /\ after.created = entry.created
    BY <1>1, <1>3
  <2> HIDE DEF charged, entry, old, k, s
  <2>2. AccountOK(k, ReconcileBudget(old, charged, actual), after)
    BY <1>1, <2>1, SettlementKeepsAccount
  <2> QED
    BY <2>2 DEF charged
<1>5. /\ buckets' = [buckets EXCEPT ![k] = new]
      /\ ledger' = [ledger EXCEPT ![k] = after]
  OBVIOUS
<1> HIDE DEF new, k
<1> QED
  BY <1>1, <1>2, <1>4, <1>5, WriteKeepsAccounts

LEMMA CompleteKeepsAccounts ==
  ASSUME IInv, NEW b \in Backends, Complete(b)
  PROVE  AccountsOK'
<1> DEFINE s == stmt[b]
           k == Key(s)
           entry == ledger[k]
<1>1. CASE ~HoldsCharge(s)
  BY <1>1 DEF Complete, IInv, AccountsOK, AccountOK
<1>2. CASE HoldsCharge(s)
  <2>1. PICK actual \in Actuals :
          /\ buckets' = [buckets EXCEPT ![k] = ReconcileBudget(@, s.charged, actual)]
          /\ ledger' = [ledger EXCEPT
               ![k].granted = @ - (s.charged - Smaller(actual, s.charged)),
               ![k].used = @ + actual]
    BY <1>2 DEF Complete
  <2> DEFINE g == entry.granted - (s.charged - Smaller(actual, s.charged))
             u == entry.used + actual
             after == [entry EXCEPT !.granted = g, !.used = u]
  <2>2. /\ k \in Keys /\ actual \in Nat /\ s.charged \in Nat /\ entry \in Ledger
    BY KeyOfStatement, StatementAssumption, MaxBytesAssumption
       DEF IInv, TypeOK, Statement, Bytes
  <2>3. g \in Int /\ u \in Nat
    BY <2>2 DEF Ledger, Smaller
  <2>4. ledger' = [ledger EXCEPT ![k] = after]
    BY <2>1, <2>2 DEF IInv, TypeOK, Ledger
  <2>5. /\ after \in Ledger /\ after.granted = g
        /\ after.initial = entry.initial /\ after.created = entry.created
    <3> HIDE DEF g, u, entry
    <3> QED
      BY <2>2, <2>3 DEF Ledger
  <2>6. UNCHANGED <<wall, stepBacks>>
    BY DEF Complete
  <2> HIDE DEF after
  <2> QED
    BY <1>2, <2>1, <2>2, <2>4, <2>5, <2>6, SettlementKeepsAccounts
<1> QED
  BY <1>1, <1>2

LEMMA AbortKeepsAccounts ==
  ASSUME IInv, NEW b \in Backends, AbortRunning(b)
  PROVE  AccountsOK'
<1> DEFINE s == stmt[b]
           k == Key(s)
           entry == ledger[k]
<1>1. CASE ~HoldsCharge(s)
  BY <1>1 DEF AbortRunning, IInv, AccountsOK, AccountOK
<1>2. CASE HoldsCharge(s)
  <2>1. /\ buckets' = [buckets EXCEPT ![k] = ReconcileBudget(@, s.charged, 0)]
        /\ ledger' = [ledger EXCEPT ![k].granted = @ - s.charged]
    BY <1>2 DEF AbortRunning
  <2> DEFINE g == entry.granted - s.charged
             after == [entry EXCEPT !.granted = g]
  <2>2. /\ k \in Keys /\ s.charged \in Nat /\ entry \in Ledger
    BY KeyOfStatement, MaxBytesAssumption DEF IInv, TypeOK, Statement, Bytes
  <2>3. g \in Int /\ g = entry.granted - (s.charged - Smaller(0, s.charged))
    BY <2>2 DEF Ledger, Smaller
  <2>4. ledger' = [ledger EXCEPT ![k] = after]
    BY <2>1, <2>2 DEF IInv, TypeOK, Ledger
  <2>5. /\ after \in Ledger /\ after.granted = g
        /\ after.initial = entry.initial /\ after.created = entry.created
    <3> HIDE DEF g, entry
    <3> QED
      BY <2>2, <2>3 DEF Ledger
  <2>6. UNCHANGED <<wall, stepBacks>> /\ 0 \in Nat
    BY DEF AbortRunning
  <2> HIDE DEF after
  <2> QED
    BY <1>2, <2>1, <2>2, <2>3, <2>4, <2>5, <2>6, SettlementKeepsAccounts
<1> QED
  BY <1>1, <1>2

LEMMA CommitKeepsAccounts ==
  ASSUME IInv, NEW b \in Backends, CompletionRaises(b) \/ CommitUnmeasured(b)
  PROVE  AccountsOK'
<1> DEFINE k == Key(stmt[b])
<1>1. /\ UNCHANGED <<wall, buckets, stepBacks>>
      /\ \/ ledger' = ledger
         \/ ledger' = [ledger EXCEPT ![k].used = @ + stmt[b].charged]
         \/ ledger' = [ledger EXCEPT ![k].lost = @ + stmt[b].charged]
  BY DEF CompletionRaises, CommitUnmeasured
<1>2. ASSUME NEW j \in Keys
      PROVE  /\ ledger'[j].granted = ledger[j].granted
             /\ ledger'[j].initial = ledger[j].initial
             /\ ledger'[j].created = ledger[j].created
  BY <1>1 DEF IInv, TypeOK, Ledger
<1> QED
  BY <1>1, <1>2 DEF IInv, AccountsOK, AccountOK

LEMMA InvInit == Init => IInv
<1> SUFFICES ASSUME Init PROVE IInv
  OBVIOUS
<1>1. TypeOK
  BY TypeInit
<1>2. AccountsOK
  BY DEF Init, AccountsOK, EmptySlot
<1>3. ReadingsPast
  BY DEF Init, ReadingsPast, IdleStatement
<1> QED
  BY <1>1, <1>2, <1>3 DEF IInv

\* A backend holds no reading of the clock but one it took.
LEMMA ReadingsStayPast == IInv /\ [Next]_vars => ReadingsPast'
<1> SUFFICES ASSUME IInv, [Next]_vars, stepBacks' = 0, NEW o \in Backends
             PROVE  stmt'[o].now <= wall'
  BY DEF ReadingsPast
<1> USE DEF IInv, TypeOK
<1>0. /\ IdleStatement.now = 0 /\ wall \in Nat
      /\ stmt[o] \in Statement /\ stmt[o].now \in Nat
      /\ stepBacks = 0 => stmt[o].now <= wall
  BY DEF IdleStatement, ReadingsPast, Statement
<1>1. ASSUME NEW b \in Backends, Start(b) PROVE stmt'[o].now <= wall'
  <2>1. PICK policy \in PolicyConfigs \cup {NoPolicy}, scope \in Scopes,
             predicted \in Predictions :
          stmt' = [stmt EXCEPT ![b] =
                    [IdleStatement EXCEPT !.phase = "admit", !.policy = policy,
                       !.scope = scope, !.predicted = predicted, !.now = wall]]
    BY <1>1 DEF Start
  <2>2. [IdleStatement EXCEPT !.phase = "admit", !.policy = policy,
           !.scope = scope, !.predicted = predicted, !.now = wall].now = wall
    BY DEF IdleStatement
  <2> QED
    BY <1>0, <1>1, <2>1, <2>2 DEF Start
<1>2. ASSUME NEW b \in Backends, Attempt(b) PROVE stmt'[o].now <= wall'
  <2>1. stmt'[o].now \in {stmt[o].now, 0}
    <3>0. ASSUME NEW s \in Statement, NEW kind, NEW charged
          PROVE  Running(s, kind, charged).now = 0
      BY DEF Running, Statement
    <3>1. CASE AdmitUncharged(b) \/ AdmitShadow(b) \/ AdmitCharged(b)
      BY <1>0, <3>0, <3>1 DEF AdmitUncharged, AdmitShadow, AdmitCharged
    <3>2. CASE RejectOverBudget(b) \/ RejectOverBurst(b)
      BY <1>0, <3>2 DEF RejectOverBudget, RejectOverBurst
    <3>3. CASE BucketCapacityExhausted(b)
      BY <1>0, <3>3 DEF BucketCapacityExhausted, IdleStatement
    <3>4. CASE QueueWouldWait(b)
      <4>1. ASSUME NEW s \in Statement, NEW wait
            PROVE  [s EXCEPT !.phase = "queued", !.now = 0, !.sleep = wait].now = 0
        BY DEF Statement
      <4> QED
        BY <1>0, <3>4, <4>1 DEF QueueWouldWait
    <3> QED
      BY <1>2, <3>1, <3>2, <3>3, <3>4 DEF Attempt
  <2>2. UNCHANGED <<wall, stepBacks>>
    BY <1>2 DEF Attempt, AdmitUncharged, AdmitShadow, AdmitCharged, RejectOverBudget,
                RejectOverBurst, BucketCapacityExhausted, QueueWouldWait
  <2> QED
    BY <1>0, <2>1, <2>2
<1>3. ASSUME NEW b \in Backends, Wake(b) PROVE stmt'[o].now <= wall'
  BY <1>0, <1>3 DEF Wake, Statement
<1>4. ASSUME NEW b \in Backends, LatchSet(b) PROVE stmt'[o].now <= wall'
  BY <1>0, <1>4 DEF LatchSet, Statement
<1>5. ASSUME NEW b \in Backends,
             \/ CancelQueued(b) \/ StatementEnds(b) \/ FinishUntracked(b)
      PROVE  stmt'[o].now <= wall'
  BY <1>0, <1>5 DEF CancelQueued, StatementEnds, Complete, CompletionRaises, AbortRunning,
                    CommitUnmeasured, FinishUntracked
<1>6. ASSUME Tick PROVE stmt'[o].now <= wall'
  BY <1>0, <1>6, ClockAssumption DEF Tick, Statement
<1>7. ASSUME ClockStepBack PROVE stmt'[o].now <= wall'
  BY <1>7 DEF ClockStepBack
<1>8. ASSUME CrashRestart PROVE stmt'[o].now <= wall'
  BY <1>0, <1>8 DEF CrashRestart
<1>9. ASSUME UNCHANGED vars PROVE stmt'[o].now <= wall'
  BY <1>0, <1>9 DEF vars
<1> QED
  BY <1>1, <1>2, <1>3, <1>4, <1>5, <1>6, <1>7, <1>8, <1>9 DEF Next, StatementEnds, Finished

LEMMA AccountsStayOK == IInv /\ [Next]_vars => AccountsOK'
<1> SUFFICES ASSUME IInv, [Next]_vars PROVE AccountsOK'
  OBVIOUS
<1>1. ASSUME UNCHANGED <<wall, buckets, stepBacks, ledger>> PROVE AccountsOK'
  BY <1>1 DEF IInv, AccountsOK, AccountOK
<1>2. ASSUME NEW b \in Backends,
             \/ Start(b) \/ Wake(b) \/ LatchSet(b) \/ CancelQueued(b)
             \/ FinishUntracked(b)
      PROVE  AccountsOK'
  BY <1>1, <1>2 DEF Start, Wake, LatchSet, CancelQueued, FinishUntracked
<1>3. ASSUME NEW b \in Backends, Attempt(b) PROVE AccountsOK'
  BY <1>3, AttemptKeepsAccounts
<1>4. ASSUME NEW b \in Backends, Complete(b) PROVE AccountsOK'
  BY <1>4, CompleteKeepsAccounts
<1>5. ASSUME NEW b \in Backends, AbortRunning(b) PROVE AccountsOK'
  BY <1>5, AbortKeepsAccounts
<1>6. ASSUME NEW b \in Backends, CompletionRaises(b) \/ CommitUnmeasured(b) PROVE AccountsOK'
  BY <1>6, CommitKeepsAccounts
<1>7. ASSUME Tick PROVE AccountsOK'
  <2>1. /\ UNCHANGED <<buckets, stepBacks, ledger>>
        /\ wall' >= wall
    BY <1>7, ClockAssumption DEF Tick, IInv, TypeOK
  <2> SUFFICES ASSUME NEW k \in Keys, buckets[k].occupied
               PROVE  AccountOK(k, buckets[k], ledger[k])'
    BY <2>1 DEF AccountsOK
  <2>2. /\ AccountOK(k, buckets[k], ledger[k])
        /\ buckets[k].last_refill \in Nat /\ wall \in Nat /\ wall' \in Nat
    BY <1>7, TypeNext DEF IInv, TypeOK, AccountsOK, Bucket
  <2>3. stepBacks' = 0 => buckets[k].last_refill <= wall'
    BY <2>1, <2>2 DEF AccountOK
  <2> QED
    BY <2>1, <2>2, <2>3 DEF AccountOK
<1>8. ASSUME ClockStepBack PROVE AccountsOK'
  <2>1. UNCHANGED <<buckets, ledger>> /\ stepBacks' # 0
    BY <1>8 DEF ClockStepBack, IInv, TypeOK
  <2> QED
    BY <2>1 DEF IInv, AccountsOK, AccountOK
<1>9. ASSUME CrashRestart PROVE AccountsOK'
  BY <1>9 DEF CrashRestart, AccountsOK, EmptySlot
<1>10. ASSUME UNCHANGED vars PROVE AccountsOK'
  BY <1>1, <1>10 DEF vars
<1> QED
  BY <1>2, <1>3, <1>4, <1>5, <1>6, <1>7, <1>8, <1>9, <1>10 DEF Next, StatementEnds, Finished

LEMMA InvNext == IInv /\ [Next]_vars => IInv'
  BY TypeNext, AccountsStayOK, ReadingsStayPast DEF IInv

THEOREM InvInvariant == Spec => []IInv
<1> QED
  BY InvInit, InvNext, PTL DEF Spec

\* No bucket ever holds more than its burst, and no refill time lies before
\* the bucket's creation or, while the clock was not set back, in the future.
THEOREM BucketBoundsHold == Spec => []BucketBounds
<1>1. IInv => BucketBounds
  BY DEF IInv, AccountsOK, AccountOK, BucketBounds, Opened
<1> QED
  BY <1>1, InvInvariant, PTL

\* However many backends race, whatever policies they captured and however
\* stale their readings of the clock, a bucket has never issued more than its
\* first balance and what its fastest rate earned.
THEOREM IssueBoundHolds == Spec => []IssueBound
<1>1. IInv => IssueBound
  BY DEF IInv, AccountsOK, AccountOK, IssueBound, Opened
<1> QED
  BY <1>1, InvInvariant, PTL
------------------------------------------------------------------------------
(***************************************************************************)
(* Refill times, and the queue.                                            *)
(***************************************************************************)
\* Only a write of the refreshed bucket moves a refill time.
LEMMA BucketsMoveForward ==
  ASSUME TypeOK, [Next]_vars, crashes' = crashes, NEW k \in Opened
  PROVE  /\ k \in Opened'
         /\ buckets[k].last_refill <= buckets'[k].last_refill
<1> USE DEF TypeOK, Opened
<1>0. /\ k \in Keys /\ buckets[k] \in Bucket /\ buckets[k].occupied
      /\ buckets[k].last_refill \in Nat
  BY DEF Bucket
<1>1. ASSUME UNCHANGED buckets
      PROVE  /\ k \in Opened'
             /\ buckets[k].last_refill <= buckets'[k].last_refill
  BY <1>0, <1>1
<1>2. ASSUME NEW j \in Keys, NEW bucket,
             buckets' = [buckets EXCEPT ![j] = bucket],
             j = k => /\ bucket.occupied
                      /\ buckets[k].last_refill <= bucket.last_refill
      PROVE  /\ k \in Opened'
             /\ buckets[k].last_refill <= buckets'[k].last_refill
  BY <1>0, <1>2
<1>3. ASSUME NEW b \in Backends, Attempt(b)
      PROVE  /\ k \in Opened'
             /\ buckets[k].last_refill <= buckets'[k].last_refill
  <2> DEFINE s == stmt[b]
             fresh == Refreshed(s)
             charged == ChargeAvailable(fresh, s.predicted)
  <2>1. /\ Key(s) \in Keys /\ fresh \in Bucket /\ fresh.occupied
        /\ Key(s) = k => buckets[k].last_refill <= fresh.last_refill
    <3>1. /\ Key(s) \in Keys /\ fresh \in Bucket /\ fresh.occupied
          /\ fresh.last_refill >= BucketFor(s).last_refill
      BY AttemptFacts
    <3>2. Key(s) = k => BucketFor(s) = buckets[k]
      BY <1>0 DEF BucketFor
    <3> QED
      BY <1>0, <3>1, <3>2 DEF Bucket
  <2>2. charged.occupied /\ charged.last_refill = fresh.last_refill
    BY <2>1 DEF ChargeAvailable, Bucket
  <2>3. \/ UNCHANGED buckets
        \/ buckets' = [buckets EXCEPT ![Key(s)] = fresh]
        \/ buckets' = [buckets EXCEPT ![Key(s)] = charged]
    BY <1>3 DEF Attempt, AdmitUncharged, AdmitShadow, AdmitCharged, RejectOverBudget,
                RejectOverBurst, BucketCapacityExhausted, QueueWouldWait
  <2> HIDE DEF fresh, charged, s
  <2> QED
    BY <1>1, <1>2, <2>1, <2>2, <2>3
<1>4. ASSUME NEW b \in Backends, Complete(b) \/ AbortRunning(b)
      PROVE  /\ k \in Opened'
             /\ buckets[k].last_refill <= buckets'[k].last_refill
  <2> DEFINE s == stmt[b]
  <2>1. s \in Statement /\ Key(s) \in Keys /\ s.charged \in Nat
    BY KeyOfStatement, MaxBytesAssumption DEF Statement, Bytes
  <2>2. CASE UNCHANGED buckets
    BY <1>1, <2>2
  <2>3. CASE ~UNCHANGED buckets
    <3>1. \E actual \in Actuals \cup {0} :
            buckets' = [buckets EXCEPT ![Key(s)] = ReconcileBudget(@, s.charged, actual)]
      <4>1. CASE Complete(b)
        BY <2>3, <4>1 DEF Complete
      <4>2. CASE AbortRunning(b)
        BY <2>3, <4>2 DEF AbortRunning
      <4> QED
        BY <1>4, <4>1, <4>2
    <3>2. PICK actual \in Actuals \cup {0} :
            buckets' = [buckets EXCEPT ![Key(s)] = ReconcileBudget(@, s.charged, actual)]
      BY <3>1
    <3>3. actual \in Nat
      BY StatementAssumption, MaxBytesAssumption DEF Bytes
    <3>4. LET new == ReconcileBudget(buckets[Key(s)], s.charged, actual) IN
          /\ new.occupied = buckets[Key(s)].occupied
          /\ new.last_refill = buckets[Key(s)].last_refill
      <4> DEFINE bucket == buckets[Key(s)]
                 charge == s.charged
      <4>1. bucket \in Bucket /\ charge \in Nat
        BY <2>1
      <4> HIDE DEF bucket, charge
      <4>2. LET new == ReconcileBudget(bucket, charge, actual) IN
            new.occupied = bucket.occupied /\ new.last_refill = bucket.last_refill
        BY <3>3, <4>1, ReconcileFacts
      <4> QED
        BY <4>2 DEF bucket, charge
    <3> HIDE DEF s
    <3> QED
      BY <1>0, <1>2, <2>1, <3>2, <3>4
  <2> QED
    BY <2>2, <2>3
<1>5. CASE CrashRestart
  BY <1>5 DEF CrashRestart
<1> QED
  BY <1>1, <1>3, <1>4, <1>5
     DEF Next, StatementEnds, Start, Wake, LatchSet, CancelQueued, CompletionRaises,
         CommitUnmeasured, FinishUntracked, Tick, ClockStepBack, Finished, vars

\* The refill time of a bucket never goes back while the server runs, in
\* whatever order the backends apply the readings they took of the clock.
THEOREM RefillTimesMonotone == Spec => RefillTimeMonotone
<1>1. TypeOK /\ [Next]_vars =>
        [crashes' = crashes =>
           \A k \in Opened : /\ k \in Opened'
                             /\ buckets[k].last_refill <= buckets'[k].last_refill]_vars
  BY BucketsMoveForward
<1> QED
  BY <1>1, TypeCorrect, PTL DEF Spec, RefillTimeMonotone

\* What a waiter of the queue is known by, with the mode that put it there.
WaiterOK(s) ==
  s.phase \in {"queued", "retry"} =>
    /\ s.policy.mode = "queue"
    /\ s.predicted <= s.policy.burst
    /\ s.sleep <= FullRefillMs(s.policy)

WaitersOK == \A b \in Backends : WaiterOK(stmt[b])

\* The wait computed by an attempt fits the policy the statement captured.
LEMMA QueuedWithinFullRefill ==
  ASSUME TypeOK, WaitersOK, NEW b \in Backends, QueueWouldWait(b)
  PROVE  WaiterOK(stmt'[b])
<1> DEFINE s == stmt[b]
           policy == s.policy
           deficit == s.predicted - Refreshed(s).available
           rate == Refreshed(s).rate
           sleep == WaitMsForDeficit(deficit, rate)
           queued == [s EXCEPT !.phase = "queued", !.now = 0, !.sleep = sleep]
<1>1. /\ s \in Statement /\ Refreshed(s) \in Bucket /\ rate = policy.rate
      /\ policy.mode = "queue" /\ Attempting(s)
      /\ ~CanAfford(Refreshed(s).available, s.predicted)
      /\ stmt'[b] = queued
  BY AttemptFacts DEF QueueWouldWait, TypeOK
<1>2. /\ policy.burst \in Nat /\ policy.rate \in Nat \ {0}
      /\ s.predicted \in Nat
  BY <1>1, PolicyFacts, MaxBytesAssumption DEF Statement, Bytes
<1>3. s.predicted <= policy.burst
  BY <1>1, <1>2 DEF Attempting, OverBurst, WaitersOK, WaiterOK
<1>4. deficit \in Nat /\ deficit <= policy.burst
  BY <1>1, <1>2, <1>3, MaxBytesAssumption DEF CanAfford, Bucket, Bytes
<1>5. sleep <= (policy.burst * 1000 + policy.rate - 1) \div policy.rate
  <2> DEFINE most == policy.burst
             earned == policy.rate
  <2>1. earned \in Nat \ {0} /\ most \in Nat /\ deficit <= most /\ rate = earned
    BY <1>1, <1>2, <1>4
  <2> HIDE DEF deficit, most, earned, rate
  <2>2. WaitMsForDeficit(deficit, earned) <= (most * 1000 + earned - 1) \div earned
    BY <1>4, <2>1, WaitMonotone
  <2> QED
    BY <2>1, <2>2 DEF most, earned
<1> HIDE DEF sleep
<1>6. /\ queued.policy = policy /\ queued.predicted = s.predicted
      /\ queued.sleep = sleep
  BY <1>1 DEF Statement
<1> HIDE DEF queued
<1> QED
  BY <1>1, <1>3, <1>5, <1>6 DEF WaiterOK, FullRefillMs

\* Sleeping, waking and the clock keep a waiter within its bound; every other
\* step leaves it alone or ends its wait.
LEMMA WaitersStayOK == TypeOK /\ WaitersOK /\ [Next]_vars => WaitersOK'
<1> SUFFICES ASSUME TypeOK, WaitersOK, [Next]_vars, NEW o \in Backends
             PROVE  WaiterOK(stmt'[o])
  BY DEF WaitersOK, WaiterOK, FullRefillMs
<1>0. stmt[o] \in Statement /\ WaiterOK(stmt[o])
  BY DEF TypeOK, WaitersOK
<1>1. ASSUME stmt'[o] = stmt[o] PROVE WaiterOK(stmt'[o])
  BY <1>0, <1>1
<1>2. ASSUME stmt'[o].phase \notin {"queued", "retry"} PROVE WaiterOK(stmt'[o])
  BY <1>2 DEF WaiterOK
<1>3. IdleStatement.phase = "idle"
  BY DEF IdleStatement
<1>4. ASSUME NEW d \in Nat, stmt'[o] = [stmt[o] EXCEPT !.sleep = @ - Smaller(@, d)]
      PROVE  WaiterOK(stmt'[o])
  <2> DEFINE s == stmt[o]
             slept == s.sleep - Smaller(s.sleep, d)
  <2>1. slept \in Nat /\ slept <= s.sleep /\ s.sleep \in Nat
    BY <1>0, SleepShortened DEF Statement
  <2>2. /\ stmt'[o].phase = s.phase /\ stmt'[o].policy = s.policy
        /\ stmt'[o].predicted = s.predicted /\ stmt'[o].sleep = slept
    BY <1>0, <1>4 DEF Statement
  <2>3. s.policy.mode = "queue" => FullRefillMs(s.policy) \in Int
    BY <1>0, PolicyFacts, MaxBytesAssumption DEF FullRefillMs, Statement, Bytes
  <2> HIDE DEF s, slept
  <2> QED
    BY <1>0, <2>1, <2>2, <2>3 DEF WaiterOK, s
<1>5. ASSUME NEW b \in Backends, Attempt(b) PROVE WaiterOK(stmt'[o])
  <2>1. CASE o # b
    <3>1. stmt'[o] = stmt[o]
      BY <1>5, <2>1
         DEF Attempt, AdmitUncharged, AdmitShadow, AdmitCharged, RejectOverBudget,
             RejectOverBurst, BucketCapacityExhausted, QueueWouldWait, TypeOK
    <3> QED
      BY <1>1, <3>1
  <2>2. CASE o = b /\ QueueWouldWait(b)
    BY <2>2, QueuedWithinFullRefill
  <2>3. CASE o = b /\ ~QueueWouldWait(b)
    <3>1. ASSUME NEW s \in Statement, NEW kind, NEW charged
          PROVE  Running(s, kind, charged).phase = "running"
      BY DEF Running, Statement
    <3>2. CASE AdmitUncharged(b) \/ AdmitShadow(b) \/ AdmitCharged(b)
      <4>1. stmt'[o].phase = "running"
        BY <1>0, <2>3, <3>1, <3>2
           DEF AdmitUncharged, AdmitShadow, AdmitCharged, TypeOK
      <4> QED
        BY <1>2, <4>1
    <3>3. CASE RejectOverBudget(b) \/ RejectOverBurst(b)
      BY <1>2, <1>3, <2>3, <3>3 DEF RejectOverBudget, RejectOverBurst, TypeOK
    <3>4. CASE BucketCapacityExhausted(b)
      <4>1. [IdleStatement EXCEPT !.phase = IF FailOpen THEN "untracked" ELSE "idle"].phase
              \in {"untracked", "idle"}
        BY DEF IdleStatement
      <4>2. stmt'[o].phase \in {"untracked", "idle"}
        BY <2>3, <3>4, <4>1 DEF BucketCapacityExhausted, TypeOK
      <4> QED
        BY <1>2, <4>2
    <3> QED
      BY <1>5, <2>3, <3>2, <3>3, <3>4 DEF Attempt
  <2> QED
    BY <2>1, <2>2, <2>3
<1>6. ASSUME NEW b \in Backends, Start(b) PROVE WaiterOK(stmt'[o])
  <2>1. PICK policy \in PolicyConfigs \cup {NoPolicy}, scope \in Scopes,
             predicted \in Predictions :
          stmt' = [stmt EXCEPT ![b] =
                    [IdleStatement EXCEPT !.phase = "admit", !.policy = policy,
                       !.scope = scope, !.predicted = predicted, !.now = wall]]
    BY <1>6 DEF Start
  <2>2. [IdleStatement EXCEPT !.phase = "admit", !.policy = policy,
           !.scope = scope, !.predicted = predicted, !.now = wall].phase = "admit"
    BY DEF IdleStatement
  <2> QED
    BY <1>1, <1>2, <2>1, <2>2 DEF TypeOK
<1>7. ASSUME NEW b \in Backends, Wake(b) PROVE WaiterOK(stmt'[o])
  <2>1. CASE o = b
    <3>1. /\ stmt[o].phase = "queued"
          /\ stmt'[o] = [stmt[o] EXCEPT !.phase = "retry", !.now = wall]
      BY <1>7, <2>1 DEF Wake, TypeOK
    <3>2. /\ stmt'[o].policy = stmt[o].policy /\ stmt'[o].sleep = stmt[o].sleep
          /\ stmt'[o].predicted = stmt[o].predicted
      BY <1>0, <3>1 DEF Statement
    <3> QED
      BY <1>0, <3>1, <3>2 DEF WaiterOK
  <2>2. CASE o # b
    BY <1>1, <1>7, <2>2 DEF Wake, TypeOK
  <2> QED
    BY <2>1, <2>2
<1>8. ASSUME NEW b \in Backends, LatchSet(b) PROVE WaiterOK(stmt'[o])
  <2>1. stmt'[o] = stmt[o] \/
        stmt'[o] = [stmt[o] EXCEPT !.sleep = @ - Smaller(@, SleepChunkMs)]
    BY <1>8 DEF LatchSet, TypeOK
  <2> QED
    BY <1>1, <1>4, <2>1, ClockAssumption
<1>9. ASSUME NEW b \in Backends,
             \/ CancelQueued(b) \/ StatementEnds(b) \/ FinishUntracked(b)
      PROVE  WaiterOK(stmt'[o])
  <2>1. stmt'[o] = stmt[o] \/ stmt'[o] = IdleStatement
    BY <1>9 DEF CancelQueued, StatementEnds, Complete, CompletionRaises, AbortRunning,
                    CommitUnmeasured, FinishUntracked, TypeOK
  <2> QED
    BY <1>1, <1>2, <1>3, <2>1
<1>10. ASSUME Tick PROVE WaiterOK(stmt'[o])
  <2>1. PICK d \in Nat : stmt'[o] = [stmt[o] EXCEPT !.sleep = @ - Smaller(@, d)]
    BY <1>10, ClockAssumption DEF Tick
  <2> QED
    BY <1>4, <2>1
<1>11. ASSUME ClockStepBack \/ UNCHANGED vars PROVE WaiterOK(stmt'[o])
  BY <1>1, <1>11 DEF ClockStepBack, vars
<1>12. ASSUME CrashRestart PROVE WaiterOK(stmt'[o])
  BY <1>2, <1>3, <1>12 DEF CrashRestart
<1> QED
  BY <1>5, <1>6, <1>7, <1>8, <1>9, <1>10, <1>11, <1>12 DEF Next, StatementEnds, Finished

\* A statement that waits could be served by a full bucket, and no single
\* sleep outlasts the time its captured policy takes to fill one.
THEOREM QueueWaitsBounded == Spec => []QueueWaitBounded
<1>1. Init => WaitersOK
  BY DEF Init, IdleStatement, WaitersOK, WaiterOK
<1>2. TypeOK /\ WaitersOK /\ [Next]_vars => WaitersOK'
  BY WaitersStayOK
<1>3. WaitersOK => QueueWaitBounded
  BY DEF WaitersOK, WaiterOK, QueueWaitBounded
<1> QED
  BY <1>1, <1>2, <1>3, TypeCorrect, PTL DEF Spec
------------------------------------------------------------------------------
(***************************************************************************)
(* One wait is enough.  A waiter nobody has interfered with still has the  *)
(* bucket its attempt stored, as its own policy left it, and by the end of *)
(* its sleep the rate has earned what it lacks.                            *)
(***************************************************************************)
\* A clock read at `read' or later shows at least `due' when the deficit of s
\* has been earned.
Covered(s, bucket, read, due) ==
  /\ bucket.occupied
  /\ bucket.rate = s.policy.rate /\ bucket.max_burst = s.policy.burst
  /\ bucket.last_refill <= read /\ read <= due
  /\ 1000 * (s.predicted - bucket.available) <= bucket.rate * (due - bucket.last_refill)

SoleWaiterOK(b) ==
  LET s == stmt[b]
      bucket == buckets[Key(s)]
  IN  \/ s.phase = "queued" /\ Covered(s, bucket, wall, wall + s.sleep)
      \/ s.phase = "retry" /\ Covered(s, bucket, s.now, s.now)

SoleWaitersOK == \A b \in sole : SoleWaiterOK(b)

\* A product of naturals is monotone in its second factor.
LEMMA ProductMonotoneRight ==
  ASSUME NEW a \in Nat, NEW b \in Nat, NEW c \in Nat, a <= b
  PROVE  c * a <= c * b
<1>1. a * c <= b * c
  BY ProductMonotone
<1>2. a * c = c * a /\ b * c = c * b
  OBVIOUS
<1> QED
  BY <1>1, <1>2

\* More bytes in the bucket and more time to earn keep a waiter covered.
LEMMA StaysCovered ==
  ASSUME NEW s \in Statement, NEW old \in Bucket, NEW read \in Nat, NEW due \in Nat,
         Covered(s, old, read, due),
         NEW t \in Statement, t.policy = s.policy, t.predicted = s.predicted,
         NEW new \in Bucket, new.occupied = old.occupied, new.rate = old.rate,
         new.max_burst = old.max_burst, new.last_refill = old.last_refill,
         old.available <= new.available,
         NEW later \in Nat, read <= later, NEW end \in Nat, later <= end, due <= end
  PROVE  Covered(t, new, later, end)
<1> DEFINE lr == old.last_refill
           r == old.rate
<1>1. /\ lr \in Nat /\ r \in Nat /\ old.available \in Nat /\ new.available \in Nat
      /\ s.predicted \in Nat /\ lr <= read /\ read <= due
      /\ 1000 * (s.predicted - old.available) <= r * (due - lr)
  BY MaxBytesAssumption DEF Bucket, Bytes, Statement, Covered
<1>2. r * (due - lr) \in Nat /\ r * (end - lr) \in Nat /\ r * (due - lr) <= r * (end - lr)
  <2> DEFINE d == due - lr
             e == end - lr
  <2>1. d \in Nat /\ e \in Nat /\ d <= e
    BY <1>1
  <2> HIDE DEF d, e, r
  <2>2. r * d <= r * e /\ r * d \in Nat /\ r * e \in Nat
    BY <1>1, <2>1, ProductMonotoneRight
  <2> QED
    BY <2>2 DEF d, e
<1>3. 1000 * (s.predicted - new.available) <= 1000 * (s.predicted - old.available)
  BY <1>1
<1>4. 1000 * (s.predicted - new.available) <= r * (end - lr)
  <2> HIDE DEF r, lr
  <2> QED
    BY <1>1, <1>2, <1>3
<1>5. lr <= later
  BY <1>1
<1> QED
  BY <1>4, <1>5 DEF Covered

\* A waiter that is covered is admitted when it tries again.
LEMMA CoveredIsAdmitted ==
  ASSUME IInv, WaitersOK, SoleWaitersOK, NEW b \in sole, Attempt(b)
  PROVE  AdmitCharged(b)
<1> DEFINE s == stmt[b]
           k == Key(s)
           bucket == buckets[k]
<1>0. b \in Backends /\ s \in Statement /\ k \in Keys /\ bucket \in Bucket
      /\ SoleWaiterOK(b) /\ WaiterOK(s)
  BY KeyOfStatement DEF IInv, TypeOK, SoleWaitersOK, WaitersOK
<1>1. s.phase = "retry"
  BY <1>0 DEF Attempt, AdmitUncharged, AdmitShadow, AdmitCharged, RejectOverBudget,
              RejectOverBurst, BucketCapacityExhausted, QueueWouldWait, Attempting, SoleWaiterOK
<1>2. Covered(s, bucket, s.now, s.now)
  BY <1>0, <1>1 DEF SoleWaiterOK
<1>3. s.policy.mode = "queue" /\ s.predicted <= s.policy.burst
  BY <1>0, <1>1 DEF WaiterOK
<1>4. bucket.occupied /\ bucket.available <= bucket.max_burst
  BY <1>0, <1>2 DEF Covered, IInv, AccountsOK, AccountOK
<1>5. CanAfford(Refreshed(s).available, s.predicted)
  <2> DEFINE policy == s.policy
             now == s.now
             predicted == s.predicted
  <2>1. /\ now \in Nat /\ predicted \in Bytes
        /\ policy.rate = bucket.rate /\ policy.burst = bucket.max_burst
        /\ bucket.available <= bucket.max_burst /\ predicted <= bucket.max_burst
        /\ bucket.last_refill <= now
        /\ 1000 * (predicted - bucket.available) <= bucket.rate * (now - bucket.last_refill)
    BY <1>0, <1>2, <1>3, <1>4 DEF Covered, Statement
  <2>2. Refreshed(s) = RefreshBucket(bucket, policy, now)
    BY <1>4 DEF Refreshed, BucketFor
  <2> HIDE DEF s, k, bucket, policy, now, predicted
  <2>3. CanAfford(RefreshBucket(bucket, policy, now).available, predicted)
    BY <1>0, <2>1, EarnedRefreshAffords
  <2> QED
    BY <2>2, <2>3 DEF predicted
<1>6. HasSlot(s)
  BY <1>4 DEF HasSlot
<1> QED
  BY <1>1, <1>3, <1>5, <1>6
     DEF Attempt, AdmitUncharged, AdmitShadow, RejectOverBudget, RejectOverBurst,
         BucketCapacityExhausted, QueueWouldWait

\* A statement joins the queue with its deficit's wait before it.
LEMMA QueuedIsCovered ==
  ASSUME TypeOK, WaitersOK, NEW b \in Backends, QueueWouldWait(b), b \in sole'
  PROVE  SoleWaiterOK(b)'
<1> DEFINE s == stmt[b]
           k == Key(s)
           fresh == Refreshed(s)
           deficit == s.predicted - fresh.available
           wait == WaitMsForDeficit(deficit, fresh.rate)
           t == [s EXCEPT !.phase = "queued", !.now = 0, !.sleep = wait]
<1>1. /\ s \in Statement /\ k \in Keys /\ fresh \in Bucket /\ fresh.occupied
      /\ fresh.rate = s.policy.rate /\ fresh.max_burst = s.policy.burst
  BY AttemptFacts
<1>2. /\ stmt'[b] = t /\ buckets' = [buckets EXCEPT ![k] = fresh] /\ wall' = wall
      /\ s.policy.mode = "queue" /\ ~CanAfford(fresh.available, s.predicted)
      /\ fresh.last_refill <= wall /\ wall \in Nat
      /\ buckets \in [Keys -> Bucket]
  BY DEF QueueWouldWait, Undisturbed, TypeOK
<1>3. /\ fresh.rate \in Nat \ {0} /\ deficit \in Nat
      /\ fresh.available \in Nat /\ s.predicted \in Nat /\ fresh.last_refill \in Nat
  BY <1>1, <1>2, PolicyFacts, MaxBytesAssumption DEF CanAfford, Statement, Bucket, Bytes
<1>4. wait \in Nat /\ fresh.rate * wait >= 1000 * deficit
  <2> DEFINE r == fresh.rate
  <2>1. r \in Nat \ {0}
    BY <1>3
  <2> HIDE DEF deficit, r
  <2>2. WaitMsForDeficit(deficit, r) \in Nat /\ r * WaitMsForDeficit(deficit, r) >= 1000 * deficit
    BY <1>3, <2>1, WaitEarnsDeficit
  <2> QED
    BY <2>2 DEF r
<1> HIDE DEF wait
<1>5. /\ t.phase = "queued" /\ t.sleep = wait /\ t.policy = s.policy
      /\ t.predicted = s.predicted /\ Key(t) = k
  BY <1>1 DEF Statement, Key
<1>6. buckets'[k] = fresh
  BY <1>1, <1>2
<1> HIDE DEF t
<1>7. 1000 * deficit <= fresh.rate * (wall + wait - fresh.last_refill)
  <2> DEFINE e == wall + wait - fresh.last_refill
             r == fresh.rate
  <2>1. e \in Nat /\ wait <= e /\ r \in Nat
    BY <1>2, <1>3, <1>4
  <2> HIDE DEF e, r
  <2>2. r * wait <= r * e /\ r * wait \in Nat /\ r * e \in Nat
    BY <1>4, <2>1, ProductMonotoneRight
  <2>3. r * wait >= 1000 * deficit
    BY <1>4 DEF r
  <2>4. 1000 * deficit <= r * e
    <3> HIDE DEF deficit
    <3> QED
      BY <1>3, <1>4, <2>1, <2>2, <2>3
  <2> QED
    BY <2>4 DEF e, r
<1>8. Covered(t, fresh, wall, wall + wait)
  BY <1>1, <1>2, <1>3, <1>4, <1>5, <1>7 DEF Covered
<1> QED
  BY <1>2, <1>5, <1>6, <1>8 DEF SoleWaiterOK

\* A waiter whose statement, bucket and clock stand still.
LEMMA UntouchedWaiter ==
  ASSUME SoleWaitersOK, NEW o \in sole,
         stmt'[o] = stmt[o], buckets'[Key(stmt[o])] = buckets[Key(stmt[o])], wall' = wall
  PROVE  SoleWaiterOK(o)'
<1>1. SoleWaiterOK(o)
  BY DEF SoleWaitersOK
<1> QED
  BY <1>1 DEF SoleWaiterOK, Key

LEMMA SoleAfterAttempt ==
  ASSUME IInv, WaitersOK, SoleWaitersOK, NEW b \in Backends, Attempt(b)
  PROVE  SoleWaitersOK'
<1> SUFFICES ASSUME NEW o \in sole' PROVE SoleWaiterOK(o)'
  BY DEF SoleWaitersOK, SoleWaiterOK
<1> DEFINE k == Key(stmt[b])
<1>0. /\ stmt \in [Backends -> Statement] /\ buckets \in [Keys -> Bucket]
      /\ sole \subseteq Backends /\ stmt[b] \in Statement
      /\ \A a \in Backends : Key(stmt[a]) \in Keys
  BY KeyOfStatement DEF IInv, TypeOK
<1>1. wall' = wall /\ \A a \in Backends \ {b} : stmt'[a] = stmt[a]
  BY <1>0 DEF Attempt, AdmitUncharged, AdmitShadow, AdmitCharged, RejectOverBudget,
              RejectOverBurst, BucketCapacityExhausted, QueueWouldWait
<1>2. \/ UNCHANGED <<buckets, sole>>
      \/ /\ \A j \in Keys \ {k} : buckets'[j] = buckets[j]
         /\ sole' \subseteq Undisturbed(b, k) \cup {b}
         /\ ~QueueWouldWait(b) => sole' = Undisturbed(b, k)
  BY <1>0 DEF Attempt, AdmitUncharged, AdmitShadow, AdmitCharged, RejectOverBudget,
              RejectOverBurst, BucketCapacityExhausted, QueueWouldWait
<1>3. CASE o # b
  <2>1. o \in sole /\ buckets'[Key(stmt[o])] = buckets[Key(stmt[o])]
    BY <1>0, <1>2, <1>3 DEF Undisturbed
  <2>2. stmt'[o] = stmt[o]
    BY <1>0, <1>1, <1>3, <2>1
  <2> QED
    BY <1>1, <2>1, <2>2, UntouchedWaiter
<1>4. CASE o = b /\ QueueWouldWait(b)
  BY <1>4, QueuedIsCovered DEF IInv
<1>5. CASE o = b /\ ~QueueWouldWait(b)
  <2>1. b \in sole
    BY <1>2, <1>5 DEF Undisturbed
  <2>2. AdmitCharged(b)
    BY <2>1, CoveredIsAdmitted
  <2>3. sole' = Undisturbed(b, k)
    BY <2>2 DEF AdmitCharged
  <2> QED
    BY <1>5, <2>3 DEF Undisturbed
<1> QED
  BY <1>3, <1>4, <1>5

\* A settlement gives bytes to a waiter's bucket and takes none.
LEMMA SoleAfterEnd ==
  ASSUME IInv, SoleWaitersOK, NEW b \in Backends, StatementEnds(b)
  PROVE  SoleWaitersOK'
<1> SUFFICES ASSUME NEW o \in sole PROVE SoleWaiterOK(o)'
  BY DEF SoleWaitersOK, SoleWaiterOK, StatementEnds, Complete, CompletionRaises,
         AbortRunning, CommitUnmeasured
<1> DEFINE s == stmt[b]
           k == Key(s)
           w == stmt[o]
           old == buckets[Key(w)]
           new == buckets'[Key(w)]
<1>0. /\ s \in Statement /\ k \in Keys /\ w \in Statement /\ Key(w) \in Keys
      /\ SoleWaiterOK(o) /\ old \in Bucket /\ s.charged \in Nat /\ wall \in Nat
      /\ w.now \in Nat /\ w.sleep \in Nat /\ buckets \in [Keys -> Bucket]
  BY KeyOfStatement, MaxBytesAssumption DEF IInv, TypeOK, SoleWaitersOK, Statement, Bytes
<1>1. s.phase = "running" /\ stmt' = [stmt EXCEPT ![b] = IdleStatement] /\ wall' = wall
  BY DEF StatementEnds, Complete, CompletionRaises, AbortRunning, CommitUnmeasured
<1>2. stmt'[o] = w
  BY <1>0, <1>1 DEF SoleWaiterOK, IInv, TypeOK
<1>3. old.occupied /\ old.available <= old.max_burst
  BY <1>0 DEF SoleWaiterOK, Covered, IInv, AccountsOK, AccountOK
<1>4. \/ new = old
      \/ \E actual \in Nat : k = Key(w) /\ new = ReconcileBudget(old, s.charged, actual)
  <2>1. Actuals \subseteq Nat /\ 0 \in Nat
    BY StatementAssumption, MaxBytesAssumption DEF Bytes
  <2>2. ASSUME NEW actual \in Nat,
               buckets' = [buckets EXCEPT ![k] = ReconcileBudget(@, s.charged, actual)]
        PROVE  \/ new = old
               \/ k = Key(w) /\ new = ReconcileBudget(old, s.charged, actual)
    BY <1>0, <2>2
  <2>3. \/ UNCHANGED buckets
        \/ \E actual \in Nat : buckets' = [buckets EXCEPT ![k] = ReconcileBudget(@, s.charged, actual)]
    BY <2>1 DEF StatementEnds, Complete, CompletionRaises, AbortRunning, CommitUnmeasured
  <2> QED
    BY <2>2, <2>3
<1>5. /\ new \in Bucket /\ new.occupied = old.occupied /\ new.rate = old.rate
      /\ new.max_burst = old.max_burst /\ new.last_refill = old.last_refill
      /\ old.available <= new.available
  <2>1. CASE new = old
    <3>1. old.available \in Nat
      BY <1>0, MaxBytesAssumption DEF Bucket, Bytes
    <3> QED
      BY <1>0, <2>1, <3>1
  <2>2. CASE new # old
    <3>1. PICK actual \in Nat : new = ReconcileBudget(old, s.charged, actual)
      BY <1>4, <2>2
    <3> DEFINE c == s.charged
    <3>2. c \in Nat /\ new = ReconcileBudget(old, c, actual)
      BY <1>0, <3>1
    <3> HIDE DEF c, old, new
    <3>3. LET after == ReconcileBudget(old, c, actual)
          IN  /\ after \in Bucket
              /\ after.occupied = old.occupied /\ after.max_burst = old.max_burst
              /\ after.last_refill = old.last_refill /\ old.available <= after.available
      <4>1. ReconcileBudget(old, c, actual) \in Bucket
        BY <1>0, <3>2, ReconcileFacts
      <4> QED
        BY <1>0, <1>3, <3>2, <4>1, SettlementReturns
    <3>4. ReconcileBudget(old, c, actual).rate = old.rate
      BY <1>0, <3>2 DEF ReconcileBudget, RefundBudgetCharge, RecordBudgetDebt, Bucket
    <3> QED
      BY <3>2, <3>3, <3>4
  <2> QED
    BY <2>1, <2>2
<1> HIDE DEF old, new, s, k
<1>6. ASSUME NEW read \in Nat, NEW due \in Nat, Covered(w, old, read, due), read <= due
      PROVE  Covered(w, new, read, due)
  <2> HIDE DEF w
  <2>1. read <= read /\ due <= due
    OBVIOUS
  <2> QED
    BY <1>0, <1>5, <1>6, <2>1, StaysCovered
<1>7. wall + w.sleep \in Nat /\ wall <= wall + w.sleep /\ w.now <= w.now
  BY <1>0
<1>8. \/ w.phase = "queued" /\ Covered(w, new, wall, wall + w.sleep)
      \/ w.phase = "retry" /\ Covered(w, new, w.now, w.now)
  BY <1>0, <1>6, <1>7 DEF SoleWaiterOK, old
<1> QED
  BY <1>1, <1>2, <1>8 DEF SoleWaiterOK, new, w

\* Time that passes is taken from the sleep: what is due stays due.
LEMMA SoleAfterTick ==
  ASSUME IInv, SoleWaitersOK, Tick
  PROVE  SoleWaitersOK'
<1> SUFFICES ASSUME NEW o \in sole PROVE SoleWaiterOK(o)'
  BY DEF SoleWaitersOK, SoleWaiterOK, Tick
<1> DEFINE s == stmt[o]
           bucket == buckets[Key(s)]
<1>0. /\ o \in Backends /\ s \in Statement /\ bucket \in Bucket /\ SoleWaiterOK(o)
      /\ wall \in Nat /\ s.sleep \in Nat /\ s.now \in Nat
  BY KeyOfStatement DEF IInv, TypeOK, SoleWaitersOK, Statement
<1>1. PICK d \in Ticks : /\ wall' = wall + d
                         /\ stmt'[o] = [s EXCEPT !.sleep = @ - Smaller(@, d)]
  BY <1>0 DEF Tick
<1>2. d \in Nat /\ buckets' = buckets
  BY ClockAssumption DEF Tick
<1> DEFINE t == stmt'[o]
<1>3. /\ t \in Statement /\ t.phase = s.phase /\ t.policy = s.policy
      /\ t.predicted = s.predicted /\ t.now = s.now /\ Key(t) = Key(s)
      /\ t.sleep = s.sleep - Smaller(s.sleep, d)
  BY <1>0, <1>1, <1>2, SleepShortened DEF Statement, Key
<1>4. /\ wall' \in Nat /\ wall <= wall' /\ t.sleep \in Nat
      /\ wall' <= wall' + t.sleep /\ wall + s.sleep <= wall' + t.sleep
      /\ wall + s.sleep \in Nat /\ wall' + t.sleep \in Nat
  BY <1>0, <1>1, <1>2, <1>3 DEF Smaller
<1>5. bucket.available <= bucket.available
  BY <1>0, MaxBytesAssumption DEF Bucket, Bytes
<1> HIDE DEF s, t, bucket
<1>6. CASE s.phase = "queued"
  <2> DEFINE due == wall + s.sleep
             later == wall'
             end == wall' + t.sleep
  <2>1. /\ due \in Nat /\ later \in Nat /\ end \in Nat /\ wall <= later /\ later <= end
        /\ due <= end /\ Covered(s, bucket, wall, due)
    BY <1>0, <1>4, <1>6 DEF SoleWaiterOK, s, bucket
  <2> HIDE DEF due, later, end
  <2>2. Covered(t, bucket, later, end)
    BY <1>0, <1>3, <1>5, <2>1, StaysCovered
  <2>3. Covered(t, bucket, wall', wall' + t.sleep)
    BY <2>2 DEF later, end
  <2> QED
    BY <1>2, <1>3, <1>6, <2>3 DEF SoleWaiterOK, t, bucket
<1>7. CASE s.phase # "queued"
  <2>1. s.phase = "retry" /\ Covered(s, bucket, s.now, s.now)
    BY <1>0, <1>7 DEF SoleWaiterOK, s, bucket
  <2>2. Covered(t, bucket, t.now, t.now)
    BY <1>3, <2>1 DEF Covered
  <2> QED
    BY <1>2, <1>3, <2>1, <2>2 DEF SoleWaiterOK, t, bucket
<1> QED
  BY <1>6, <1>7

\* A sleep that is over has lasted until the deficit was earned.
LEMMA SoleAfterWake ==
  ASSUME IInv, SoleWaitersOK, NEW b \in Backends, Wake(b)
  PROVE  SoleWaitersOK'
<1> SUFFICES ASSUME NEW o \in sole PROVE SoleWaiterOK(o)'
  BY DEF SoleWaitersOK, SoleWaiterOK, Wake
<1>0. /\ o \in Backends /\ stmt \in [Backends -> Statement] /\ SoleWaiterOK(o)
      /\ wall \in Nat /\ UNCHANGED <<wall, buckets>>
  BY DEF IInv, TypeOK, SoleWaitersOK, Wake
<1>1. CASE o # b
  <2>1. stmt'[o] = stmt[o]
    BY <1>0, <1>1 DEF Wake
  <2> QED
    BY <1>0, <2>1, UntouchedWaiter
<1>2. CASE o = b
  <2> DEFINE s == stmt[b]
             t == [s EXCEPT !.phase = "retry", !.now = wall]
  <2>1. s \in Statement /\ s.phase = "queued" /\ s.sleep = 0 /\ stmt'[o] = t
    BY <1>0, <1>2 DEF Wake
  <2>2. /\ t.phase = "retry" /\ t.now = wall /\ t.policy = s.policy
        /\ t.predicted = s.predicted /\ Key(t) = Key(s)
    BY <2>1 DEF Statement, Key
  <2>3. Covered(s, buckets[Key(s)], wall, wall)
    <3>1. wall + 0 = wall
      BY <1>0
    <3> QED
      BY <1>0, <1>2, <2>1, <3>1 DEF SoleWaiterOK
  <2> HIDE DEF s, t
  <2>4. Covered(t, buckets[Key(t)], t.now, t.now)
    BY <2>2, <2>3 DEF Covered
  <2> QED
    BY <1>0, <2>1, <2>2, <2>4 DEF SoleWaiterOK
<1> QED
  BY <1>1, <1>2

LEMMA SoleWaitersNext ==
  IInv /\ WaitersOK /\ SoleWaitersOK /\ [Next]_vars => SoleWaitersOK'
<1> SUFFICES ASSUME IInv, WaitersOK, SoleWaitersOK, [Next]_vars PROVE SoleWaitersOK'
  OBVIOUS
<1>0. stmt \in [Backends -> Statement] /\ sole \subseteq Backends
  BY DEF IInv, TypeOK
<1>1. ASSUME NEW b \in Backends, Start(b) \/ LatchSet(b) \/ CancelQueued(b) \/ FinishUntracked(b)
      PROVE  SoleWaitersOK'
  <2>1. /\ UNCHANGED <<wall, buckets>> /\ sole' \subseteq sole
        /\ \A o \in Backends \ {b} : stmt'[o] = stmt[o]
    BY <1>0, <1>1 DEF Start, LatchSet, CancelQueued, FinishUntracked
  <2>2. b \notin sole'
    BY <1>1 DEF Start, LatchSet, CancelQueued, FinishUntracked, SoleWaitersOK, SoleWaiterOK
  <2>3. \A o \in sole' : o \in sole /\ stmt'[o] = stmt[o]
    BY <1>0, <2>1, <2>2
  <2>4. \A o \in sole' : SoleWaiterOK(o)'
    BY <2>1, <2>3, UntouchedWaiter
  <2> QED
    BY <2>4 DEF SoleWaitersOK, SoleWaiterOK
<1>2. ASSUME NEW b \in Backends, Attempt(b) PROVE SoleWaitersOK'
  BY <1>2, SoleAfterAttempt
<1>3. ASSUME NEW b \in Backends, Wake(b) PROVE SoleWaitersOK'
  BY <1>3, SoleAfterWake
<1>4. ASSUME NEW b \in Backends, StatementEnds(b)
      PROVE  SoleWaitersOK'
  BY <1>4, SoleAfterEnd
<1>5. CASE Tick
  BY <1>5, SoleAfterTick
<1>6. CASE ClockStepBack \/ CrashRestart
  BY <1>6 DEF ClockStepBack, CrashRestart, SoleWaitersOK
<1>7. CASE UNCHANGED vars
  BY <1>7 DEF vars, SoleWaitersOK, SoleWaiterOK
<1> QED
  BY <1>1, <1>2, <1>3, <1>4, <1>5, <1>6, <1>7 DEF Next, StatementEnds, Finished

\* No step queues a covered waiter for a second time.
LEMMA CoveredWaitsOnce ==
  ASSUME IInv, WaitersOK, SoleWaitersOK, [Next]_vars,
         NEW o \in sole, stmt[o].phase = "retry"
  PROVE  stmt'[o].phase # "queued"
<1>0. stmt \in [Backends -> Statement] /\ o \in Backends /\ stmt[o] \in Statement
  BY DEF IInv, TypeOK
<1>1. ASSUME stmt'[o] = stmt[o] PROVE stmt'[o].phase # "queued"
  BY <1>1
<1>2. IdleStatement.phase = "idle"
  BY DEF IdleStatement
<1>3. ASSUME NEW b \in Backends, Attempt(b) PROVE stmt'[o].phase # "queued"
  <2>1. CASE o # b
    BY <1>0, <1>1, <1>3, <2>1
       DEF Attempt, AdmitUncharged, AdmitShadow, AdmitCharged, RejectOverBudget,
           RejectOverBurst, BucketCapacityExhausted, QueueWouldWait
  <2>2. CASE o = b
    <3>1. AdmitCharged(o)
      BY <1>3, <2>2, CoveredIsAdmitted
    <3>2. stmt'[o] = Running(stmt[o], "Allowed", stmt[o].predicted)
      BY <1>0, <3>1 DEF AdmitCharged
    <3>3. stmt'[o].phase = "running"
      BY <1>0, <3>2 DEF Running, Statement
    <3> QED
      BY <3>3
  <2> QED
    BY <2>1, <2>2
<1>4. ASSUME NEW b \in Backends,
             \/ Start(b) \/ Wake(b) \/ LatchSet(b) \/ CancelQueued(b)
             \/ StatementEnds(b) \/ FinishUntracked(b)
      PROVE  stmt'[o].phase # "queued"
  <2>1. stmt[b].phase # "retry" /\ \A a \in Backends \ {b} : stmt'[a] = stmt[a]
    BY <1>0, <1>4 DEF Start, Wake, LatchSet, CancelQueued, StatementEnds, Complete,
                      CompletionRaises, AbortRunning, CommitUnmeasured, FinishUntracked
  <2> QED
    BY <1>0, <1>1, <2>1
<1>5. CASE Tick
  <2>1. \E slept : stmt'[o] = [stmt[o] EXCEPT !.sleep = slept]
    BY <1>0, <1>5 DEF Tick
  <2>2. stmt'[o].phase = stmt[o].phase
    BY <1>0, <2>1 DEF Statement
  <2> QED
    BY <2>2
<1>6. CASE CrashRestart
  BY <1>0, <1>2, <1>6 DEF CrashRestart
<1>7. CASE ClockStepBack \/ UNCHANGED vars
  BY <1>1, <1>7 DEF ClockStepBack, vars
<1> QED
  BY <1>3, <1>4, <1>5, <1>6, <1>7 DEF Next, StatementEnds, Finished

\* One computed wait is enough, for every rate, burst, prediction and clock:
\* a waiter whose bucket nobody else refreshed or charged, whose sleep was not
\* cut short and whose clock was not set back is admitted by its next attempt
\* (wait_ms_for_deficit, refill_available_bytes, admit_queue_with_retry).
THEOREM SoleWaitersAreAdmitted == Spec => SoleWaiterIsAdmitted
<1>1. Init => WaitersOK /\ SoleWaitersOK
  BY DEF Init, IdleStatement, WaitersOK, WaiterOK, SoleWaitersOK
<1>2. IInv /\ WaitersOK /\ [Next]_vars => WaitersOK'
  BY WaitersStayOK DEF IInv
<1>3. IInv /\ WaitersOK /\ SoleWaitersOK /\ [Next]_vars =>
        [\A b \in sole : stmt[b].phase = "retry" => stmt'[b].phase # "queued"]_vars
  BY CoveredWaitsOnce
<1> QED
  BY <1>1, <1>2, <1>3, SoleWaitersNext, InvInvariant, PTL DEF Spec, SoleWaiterIsAdmitted
------------------------------------------------------------------------------
(***************************************************************************)
(* The books.  BooksBalance is inductive once every charge is known to lie *)
(* on an occupied bucket, so that its settlement is recorded there.        *)
(***************************************************************************)
Balanced(bucket, entry, flight) ==
  LET spent == entry.used + entry.lost + flight
  IN  /\ entry.granted + bucket.debt <= spent
      /\ bucket.debt < MaxBytes => entry.granted + bucket.debt = spent

BooksOK ==
  \A k \in Keys : buckets[k].occupied => Balanced(buckets[k], ledger[k], InFlight(k))

ChargesLand ==
  \A b \in Backends : HoldsCharge(stmt[b]) => buckets[Key(stmt[b])].occupied

\* The charges of the statements in flight, of the backends in table st.
Charges(st, k) == [b \in Backends |-> Owed(st[b], k)]
FlightOf(st, k) == SumFunction(Charges(st, k))

LEMMA OwedIsInteger ==
  ASSUME NEW s \in Statement, NEW k
  PROVE  Owed(s, k) \in Nat
  BY MaxBytesAssumption DEF Owed, Statement, Bytes

\* One backend's share of the sum can be told apart from the others'.
LEMMA FlightApart ==
  ASSUME NEW st \in [Backends -> Statement], NEW k, NEW b \in Backends
  PROVE  /\ FlightOf(st, k) = Owed(st[b], k)
                                + SumFunctionOnSet(Charges(st, k), Backends \ {b})
         /\ SumFunctionOnSet(Charges(st, k), Backends \ {b}) \in Int
<1> DEFINE f == Charges(st, k)
<1>1. IsFiniteSet(Backends) /\ IsFiniteSet(Backends \ {b})
  BY StatementAssumption, FS_Subset
<1>2. \A x \in Backends : f[x] = Owed(st[x], k) /\ f[x] \in Int
  BY OwedIsInteger DEF Charges
<1>3. FlightOf(st, k) = SumFunctionOnSet(f, Backends)
  BY DEF FlightOf, SumFunction, Charges
<1> HIDE DEF f
<1>4. SumFunctionOnSet(f, Backends) = f[b] + SumFunctionOnSet(f, Backends \ {b})
  BY <1>1, <1>2, SumWithout
<1>5. SumFunctionOnSet(f, Backends \ {b}) \in Int
  BY <1>1, <1>2, SumIsInteger
<1> QED
  BY <1>2, <1>3, <1>4, <1>5 DEF f

\* A step of one backend changes the charges in flight by its own share.
LEMMA FlightMoves ==
  ASSUME NEW st \in [Backends -> Statement], NEW to \in [Backends -> Statement],
         NEW k, NEW b \in Backends, \A o \in Backends \ {b} : to[o] = st[o]
  PROVE  /\ FlightOf(st, k) \in Int /\ FlightOf(to, k) \in Int
         /\ FlightOf(to, k) = FlightOf(st, k) + Owed(to[b], k) - Owed(st[b], k)
<1>1. IsFiniteSet(Backends \ {b})
  BY StatementAssumption, FS_Subset
<1>2. \A x \in Backends \ {b} : Charges(st, k)[x] = Charges(to, k)[x]
  BY DEF Charges
<1> DEFINE rest == SumFunctionOnSet(Charges(st, k), Backends \ {b})
<1>3. rest = SumFunctionOnSet(Charges(to, k), Backends \ {b})
  BY <1>1, <1>2, SumOfEqual
<1>4. FlightOf(st, k) = Owed(st[b], k) + rest /\ rest \in Int
  BY FlightApart
<1>5. FlightOf(to, k) = Owed(to[b], k) + rest
  BY <1>3, FlightApart
<1>6. Owed(st[b], k) \in Int /\ Owed(to[b], k) \in Int
  <2>1. st[b] \in Statement /\ to[b] \in Statement
    OBVIOUS
  <2> QED
    BY <2>1, OwedIsInteger
<1> HIDE DEF rest
<1> QED
  BY <1>4, <1>5, <1>6

\* The sum depends on what each backend owes alone.
LEMMA FlightStays ==
  ASSUME NEW st, NEW to, NEW k, \A b \in Backends : Owed(to[b], k) = Owed(st[b], k)
  PROVE  FlightOf(to, k) = FlightOf(st, k)
<1>1. Charges(to, k) = Charges(st, k)
  BY DEF Charges
<1> QED
  BY <1>1 DEF FlightOf

LEMMA NothingInFlight ==
  ASSUME NEW st, NEW k, \A b \in Backends : Owed(st[b], k) = 0
  PROVE  FlightOf(st, k) = 0
<1>1. \A x \in Backends : Charges(st, k)[x] = 0
  BY DEF Charges
<1>2. FlightOf(st, k) = SumFunctionOnSet(Charges(st, k), Backends)
  BY DEF FlightOf, SumFunction, Charges
<1> QED
  BY <1>1, <1>2, StatementAssumption, SumOfZeros
\* The books after a step of one backend that may write one bucket.
LEMMA BooksAfterStep ==
  ASSUME TypeOK, TypeOK', BooksOK, NEW b \in Backends, NEW k \in Keys,
         \A o \in Backends \ {b} : stmt'[o] = stmt[o],
         \A j \in Keys \ {k} : /\ buckets'[j] = buckets[j] /\ ledger'[j] = ledger[j]
                               /\ Owed(stmt'[b], j) = Owed(stmt[b], j),
         NEW flight \in Int, flight = InFlight(k) + Owed(stmt'[b], k) - Owed(stmt[b], k),
         buckets'[k].occupied => Balanced(buckets'[k], ledger'[k], flight)
  PROVE  BooksOK'
<1> SUFFICES ASSUME NEW j \in Keys, buckets'[j].occupied
             PROVE  Balanced(buckets'[j], ledger'[j], InFlight(j)')
  BY DEF BooksOK, Balanced
<1>1. InFlight(j) = FlightOf(stmt, j) /\ InFlight(j)' = FlightOf(stmt', j)
  BY DEF InFlight, FlightOf, Charges
<1>2. /\ FlightOf(stmt, j) \in Int /\ FlightOf(stmt', j) \in Int
      /\ FlightOf(stmt', j) = FlightOf(stmt, j) + Owed(stmt'[b], j) - Owed(stmt[b], j)
  <2>1. stmt \in [Backends -> Statement] /\ stmt' \in [Backends -> Statement]
    BY DEF TypeOK
  <2> QED
    BY <2>1, FlightMoves
<1>3. CASE j = k
  BY <1>1, <1>2, <1>3
<1>4. CASE j # k
  <2>1. Owed(stmt[b], j) \in Nat
    BY OwedIsInteger DEF TypeOK
  <2>2. InFlight(j)' = InFlight(j)
    BY <1>1, <1>2, <1>4, <2>1
  <2> QED
    BY <1>4, <2>2 DEF BooksOK
<1> QED
  BY <1>3, <1>4

\* The refreshed or new bucket of an attempt, with its ledger.
LEMMA AttemptBalanced ==
  ASSUME TypeOK, BooksOK, ChargesLand, NEW b \in Backends
  PROVE  LET s == stmt[b] IN
         Balanced(Refreshed(s), LedgerFor(s), InFlight(Key(s)))
<1> DEFINE s == stmt[b]
           k == Key(s)
<1>1. k \in Keys /\ Refreshed(s).debt = BucketFor(s).debt
  BY AttemptFacts
<1>2. CASE buckets[k].occupied
  <2>1. Balanced(buckets[k], ledger[k], InFlight(k))
    BY <1>1, <1>2 DEF BooksOK
  <2>2. BucketFor(s) = buckets[k] /\ LedgerFor(s) = ledger[k]
    BY <1>2 DEF BucketFor, LedgerFor
  <2> HIDE DEF k, s
  <2> QED
    BY <1>1, <2>1, <2>2 DEF Balanced, k, s
<1>3. CASE ~buckets[k].occupied
  <2>1. /\ Refreshed(s).debt = 0
        /\ LedgerFor(s).granted = 0 /\ LedgerFor(s).used = 0 /\ LedgerFor(s).lost = 0
    BY <1>1, <1>3 DEF BucketFor, LedgerFor, NewLedger, InitialBucketState
  <2>2. ASSUME NEW o \in Backends PROVE Owed(stmt[o], k) = 0
    BY <1>3 DEF ChargesLand, Owed
  <2>3. FlightOf(stmt, k) = 0
    <3> HIDE DEF k
    <3> QED
      BY <2>2, NothingInFlight
  <2>4. InFlight(k) = 0
    BY <2>3 DEF InFlight, FlightOf, Charges
  <2> HIDE DEF k, s
  <2> QED
    BY <2>1, <2>4 DEF Balanced, k, s
<1> QED
  BY <1>2, <1>3

\* The steps on which no charge is taken or settled.
UnchargedStep(b) ==
  \/ Start(b) \/ Wake(b) \/ LatchSet(b) \/ CancelQueued(b) \/ FinishUntracked(b)
  \/ AdmitUncharged(b) \/ AdmitShadow(b) \/ RejectOverBudget(b) \/ RejectOverBurst(b)
  \/ BucketCapacityExhausted(b) \/ QueueWouldWait(b)

LEMMA UnchargedStepHoldsNothing ==
  ASSUME TypeOK, NEW b \in Backends, UnchargedStep(b)
  PROVE  /\ \A o \in Backends \ {b} : stmt'[o] = stmt[o]
         /\ ~HoldsCharge(stmt[b]) /\ ~HoldsCharge(stmt'[b])
<1>0. stmt[b] \in Statement /\ IdleStatement.phase = "idle"
  BY DEF TypeOK, IdleStatement
<1>1. CASE Start(b)
  <2>1. PICK policy \in PolicyConfigs \cup {NoPolicy}, scope \in Scopes,
             predicted \in Predictions :
          stmt' = [stmt EXCEPT ![b] =
                    [IdleStatement EXCEPT !.phase = "admit", !.policy = policy,
                       !.scope = scope, !.predicted = predicted, !.now = wall]]
    BY <1>1 DEF Start
  <2>2. [IdleStatement EXCEPT !.phase = "admit", !.policy = policy,
           !.scope = scope, !.predicted = predicted, !.now = wall].phase = "admit"
    BY DEF IdleStatement
  <2> QED
    BY <1>1, <2>1, <2>2 DEF Start, TypeOK, HoldsCharge
<1>2. CASE CancelQueued(b) \/ FinishUntracked(b) \/ RejectOverBudget(b) \/ RejectOverBurst(b)
  <2>1. stmt' = [stmt EXCEPT ![b] = IdleStatement] /\ stmt[b].phase # "running"
    BY <1>2 DEF CancelQueued, FinishUntracked, RejectOverBudget, RejectOverBurst, Attempting
  <2> QED
    BY <1>0, <2>1 DEF TypeOK, HoldsCharge
<1>3. CASE Wake(b) \/ LatchSet(b)
  <2>1. \A o \in Backends \ {b} : stmt'[o] = stmt[o]
    BY <1>3 DEF Wake, LatchSet, TypeOK
  <2>2. stmt[b].phase = "queued" /\ stmt'[b].phase \in {"queued", "retry"}
    BY <1>0, <1>3 DEF Wake, LatchSet, TypeOK, Statement
  <2> QED
    BY <2>1, <2>2 DEF HoldsCharge
<1>4. CASE BucketCapacityExhausted(b)
  <2>1. \A o \in Backends \ {b} : stmt'[o] = stmt[o]
    BY <1>4 DEF BucketCapacityExhausted, TypeOK
  <2>2. stmt[b].phase # "running" /\ stmt'[b].phase \in {"untracked", "idle"}
    BY <1>4 DEF BucketCapacityExhausted, TypeOK, Attempting, IdleStatement
  <2> QED
    BY <2>1, <2>2 DEF HoldsCharge
<1>5. CASE QueueWouldWait(b)
  <2>1. \A o \in Backends \ {b} : stmt'[o] = stmt[o]
    BY <1>5 DEF QueueWouldWait, TypeOK
  <2>2. stmt[b].phase # "running"
    BY <1>5 DEF QueueWouldWait, Attempting
  <2>3. ASSUME NEW wait
        PROVE  [stmt[b] EXCEPT !.phase = "queued", !.now = 0, !.sleep = wait].phase = "queued"
    BY <1>0 DEF Statement
  <2>4. stmt'[b].phase = "queued"
    BY <1>5, <2>3 DEF QueueWouldWait, TypeOK
  <2> QED
    BY <2>1, <2>2, <2>4 DEF HoldsCharge
<1>6. CASE AdmitUncharged(b) \/ AdmitShadow(b)
  <2>1. ASSUME NEW s \in Statement, NEW amount
        PROVE  ~HoldsCharge(Running(s, "Allowed", 0))
               /\ ~HoldsCharge(Running(s, "WouldReject", amount))
    BY DEF Running, HoldsCharge, Statement
  <2>2. \/ stmt' = [stmt EXCEPT ![b] = Running(@, "Allowed", 0)]
        \/ stmt' = [stmt EXCEPT ![b] = Running(@, "WouldReject", @.predicted)]
    BY <1>6 DEF AdmitUncharged, AdmitShadow
  <2>3. stmt[b].phase = "admit"
    BY <1>6 DEF AdmitUncharged, AdmitShadow
  <2> QED
    BY <1>0, <2>1, <2>2, <2>3 DEF TypeOK, HoldsCharge
<1> QED
  BY <1>1, <1>2, <1>3, <1>4, <1>5, <1>6 DEF UnchargedStep

LEMMA NothingOwed ==
  ASSUME NEW s, ~HoldsCharge(s), NEW k
  PROVE  Owed(s, k) = 0
  BY DEF Owed

LEMMA BooksAfterUncharged ==
  ASSUME TypeOK, TypeOK', BooksOK, ChargesLand, NEW b \in Backends, UnchargedStep(b)
  PROVE  BooksOK'
<1> DEFINE s == stmt[b]
           k == Key(s)
<1>1. /\ \A o \in Backends \ {b} : stmt'[o] = stmt[o]
      /\ \A j : Owed(stmt[b], j) = 0 /\ Owed(stmt'[b], j) = 0
  BY UnchargedStepHoldsNothing, NothingOwed
<1>2. k \in Keys /\ InFlight(k) \in Int
  <2>1. k \in Keys
    BY AttemptFacts
  <2>2. stmt \in [Backends -> Statement]
    BY DEF TypeOK
  <2>3. FlightOf(stmt, k) \in Int
    <3> HIDE DEF k
    <3> QED
      BY <2>2, FlightMoves
  <2> QED
    BY <2>1, <2>3 DEF InFlight, FlightOf, Charges
<1>3. Balanced(Refreshed(s), LedgerFor(s), InFlight(k))
  BY AttemptBalanced
<1>4. \/ UNCHANGED <<buckets, ledger>>
      \/ /\ buckets' = [buckets EXCEPT ![k] = Refreshed(s)]
         /\ ledger' = [ledger EXCEPT ![k] = LedgerFor(s)]
      \/ /\ buckets' = [buckets EXCEPT ![k] = Refreshed(s)]
         /\ ledger' = ledger /\ ledger[k] = LedgerFor(s)
  BY DEF UnchargedStep, Start, Wake, LatchSet, CancelQueued, FinishUntracked, AdmitUncharged,
         AdmitShadow, RejectOverBudget, RejectOverBurst, BucketCapacityExhausted,
         QueueWouldWait, LedgerFor
<1>5. \A j \in Keys \ {k} : buckets'[j] = buckets[j] /\ ledger'[j] = ledger[j]
  BY <1>4 DEF TypeOK
<1>6. buckets'[k].occupied => Balanced(buckets'[k], ledger'[k], InFlight(k))
  BY <1>2, <1>3, <1>4 DEF TypeOK, BooksOK
<1>7. InFlight(k) = InFlight(k) + Owed(stmt'[b], k) - Owed(stmt[b], k)
  BY <1>1, <1>2
<1> DEFINE flight == InFlight(k)
<1>8. /\ flight \in Int /\ flight = InFlight(k) + Owed(stmt'[b], k) - Owed(stmt[b], k)
      /\ buckets'[k].occupied => Balanced(buckets'[k], ledger'[k], flight)
  BY <1>2, <1>6, <1>7
<1>9. \A j \in Keys \ {k} : /\ buckets'[j] = buckets[j] /\ ledger'[j] = ledger[j]
                            /\ Owed(stmt'[b], j) = Owed(stmt[b], j)
  BY <1>1, <1>5
<1> HIDE DEF flight, k
<1> QED
  BY <1>1, <1>2, <1>8, <1>9, BooksAfterStep

LEMMA BooksAfterCharge ==
  ASSUME TypeOK, TypeOK', BooksOK, ChargesLand, NEW b \in Backends, AdmitCharged(b)
  PROVE  BooksOK'
<1> DEFINE s == stmt[b]
           k == Key(s)
           bucket == Refreshed(s)
           entry == LedgerFor(s)
<1>1. /\ k \in Keys /\ s \in Statement /\ bucket \in Bucket /\ entry \in Ledger
      /\ s.predicted \in Nat /\ s.phase # "running"
  BY AttemptFacts, MaxBytesAssumption DEF Statement, Bytes, AdmitCharged, Attempting
<1>2. /\ buckets' = [buckets EXCEPT ![k] = ChargeAvailable(bucket, s.predicted)]
      /\ ledger' = [ledger EXCEPT ![k] = [entry EXCEPT !.granted = @ + s.predicted]]
      /\ stmt' = [stmt EXCEPT ![b] = Running(s, "Allowed", s.predicted)]
  BY DEF AdmitCharged
<1>3. \A o \in Backends \ {b} : stmt'[o] = stmt[o]
  BY <1>2 DEF TypeOK
<1>4. stmt'[b] = Running(s, "Allowed", s.predicted)
  BY <1>2 DEF TypeOK
<1>5. /\ stmt'[b].phase = "running" /\ stmt'[b].kind = "Allowed"
      /\ stmt'[b].charged = s.predicted /\ Key(stmt'[b]) = k
  BY <1>1, <1>4 DEF Running, Statement, Key
<1>6. \A j : Owed(stmt[b], j) = 0
  BY <1>1 DEF Owed, HoldsCharge
<1>7. \A j : Owed(stmt'[b], j) = IF j = k THEN s.predicted ELSE 0
  BY <1>1, <1>5 DEF Owed, HoldsCharge
<1>8. InFlight(k) \in Int
  <2>1. stmt \in [Backends -> Statement]
    BY DEF TypeOK
  <2>2. FlightOf(stmt, k) \in Int
    <3> HIDE DEF k
    <3> QED
      BY <2>1, FlightMoves
  <2> QED
    BY <2>2 DEF InFlight, FlightOf, Charges
<1> DEFINE flight == InFlight(k) + s.predicted
<1>9. flight \in Int /\ flight = InFlight(k) + Owed(stmt'[b], k) - Owed(stmt[b], k)
  BY <1>1, <1>6, <1>7, <1>8
<1>10. /\ buckets'[k].debt = bucket.debt
       /\ ledger'[k].granted = entry.granted + s.predicted
       /\ ledger'[k].used = entry.used /\ ledger'[k].lost = entry.lost
  <2>1. ASSUME NEW amount \in Nat
        PROVE  /\ ChargeAvailable(bucket, amount).debt = bucket.debt
               /\ [entry EXCEPT !.granted = @ + amount].granted = entry.granted + amount
               /\ [entry EXCEPT !.granted = @ + amount].used = entry.used
               /\ [entry EXCEPT !.granted = @ + amount].lost = entry.lost
    <3> HIDE DEF bucket, entry
    <3> QED
      BY <1>1 DEF ChargeAvailable, Bucket, Ledger
  <2> HIDE DEF bucket, entry, s
  <2> QED
    BY <1>1, <1>2, <2>1 DEF TypeOK
<1>11. Balanced(bucket, entry, InFlight(k))
  BY AttemptBalanced
<1>12. \A j \in Keys \ {k} : /\ buckets'[j] = buckets[j] /\ ledger'[j] = ledger[j]
                             /\ Owed(stmt'[b], j) = Owed(stmt[b], j)
  BY <1>2, <1>6, <1>7 DEF TypeOK
<1>13. /\ entry.granted \in Int /\ entry.used \in Nat /\ entry.lost \in Nat
       /\ bucket.debt \in Nat
  BY <1>1, MaxBytesAssumption DEF Bucket, Ledger, Bytes
<1> HIDE DEF k, s, bucket, entry
<1>14. Balanced(buckets'[k], ledger'[k], flight)
  BY <1>1, <1>8, <1>10, <1>11, <1>13 DEF Balanced
<1> HIDE DEF flight
<1> QED
  BY <1>1, <1>3, <1>9, <1>12, <1>14, BooksAfterStep

\* The settlement adds the measured WAL less the charge to what was issued and
\* recorded, unless the debt counter saturates.
LEMMA SettlementBalances ==
  ASSUME NEW bucket \in Bucket, bucket.occupied, NEW entry \in Ledger, NEW after \in Ledger,
         NEW charged \in Nat, NEW actual \in Nat, NEW flight \in Int,
         Balanced(bucket, entry, flight),
         after.granted = entry.granted - (charged - Smaller(actual, charged)),
         after.used = entry.used + actual, after.lost = entry.lost
  PROVE  Balanced(ReconcileBudget(bucket, charged, actual), after, flight - charged)
<1> DEFINE new == ReconcileBudget(bucket, charged, actual)
<1>1. /\ bucket.debt \in Nat /\ bucket.debt <= MaxBytes
      /\ entry.granted \in Int /\ entry.used \in Nat /\ entry.lost \in Nat
  BY MaxBytesAssumption DEF Bucket, Ledger, Bytes
<1>2. CASE actual <= charged
  <2>1. new.debt = bucket.debt
    BY <1>2 DEF ReconcileBudget, RefundBudgetCharge, Bucket
  <2>2. after.granted = entry.granted - (charged - actual)
    BY <1>2 DEF Smaller
  <2>3. after.used + after.lost + (flight - charged)
          = entry.used + entry.lost + flight - (charged - actual)
    BY <1>1
  <2> DEFINE spent == entry.used + entry.lost + flight
             left  == after.used + after.lost + (flight - charged)
  <2>4. /\ spent \in Int /\ left = spent - (charged - actual)
        /\ entry.granted + bucket.debt <= spent
        /\ bucket.debt < MaxBytes => entry.granted + bucket.debt = spent
    BY <1>1, <2>3 DEF Balanced
  <2>5. /\ after.granted + new.debt <= left
        /\ new.debt < MaxBytes => after.granted + new.debt = left
    <3> HIDE DEF new, spent, left
    <3> QED
      BY <1>1, <1>2, <2>1, <2>2, <2>4
  <2> HIDE DEF new
  <2> QED
    BY <2>5 DEF Balanced, new
<1>3. CASE actual > charged
  <2>1. new.debt = SaturatingAdd(bucket.debt, actual - charged)
    BY <1>3 DEF ReconcileBudget, RecordBudgetDebt, Bucket
  <2>2. /\ new.debt <= bucket.debt + (actual - charged) /\ new.debt \in Nat
        /\ new.debt < MaxBytes => /\ bucket.debt < MaxBytes
                                  /\ new.debt = bucket.debt + (actual - charged)
    <3> HIDE DEF new
    <3> QED
      BY <1>1, <1>3, <2>1, MaxBytesAssumption DEF SaturatingAdd, Smaller
  <2>3. after.granted = entry.granted
    BY <1>1, <1>3 DEF Smaller
  <2>4. after.used + after.lost + (flight - charged)
          = entry.used + entry.lost + flight + (actual - charged)
    BY <1>1
  <2> HIDE DEF new
  <2> QED
    BY <1>1, <1>3, <2>2, <2>3, <2>4 DEF Balanced, new
<1> QED
  BY <1>2, <1>3

LEMMA FlightIsInteger ==
  ASSUME TypeOK, NEW k
  PROVE  InFlight(k) \in Int
<1>1. stmt \in [Backends -> Statement]
  BY DEF TypeOK
<1>2. CASE Backends = {}
  <2>1. FlightOf(stmt, k) = 0
    BY <1>2, NothingInFlight
  <2> QED
    BY <2>1 DEF InFlight, FlightOf, Charges
<1>3. CASE Backends # {}
  <2>1. FlightOf(stmt, k) \in Int
    BY <1>1, <1>3, FlightMoves
  <2> QED
    BY <2>1 DEF InFlight, FlightOf, Charges
<1> QED
  BY <1>2, <1>3

LEMMA BooksAfterEnd ==
  ASSUME TypeOK, TypeOK', BooksOK, NEW b \in Backends, HoldsCharge(stmt[b]),
         stmt' = [stmt EXCEPT ![b] = IdleStatement],
         NEW bucket, NEW entry,
         buckets' = [buckets EXCEPT ![Key(stmt[b])] = bucket],
         ledger' = [ledger EXCEPT ![Key(stmt[b])] = entry],
         bucket.occupied =>
           Balanced(bucket, entry, InFlight(Key(stmt[b])) - stmt[b].charged)
  PROVE  BooksOK'
<1> DEFINE k == Key(stmt[b])
<1>1. k \in Keys /\ stmt[b] \in Statement /\ stmt[b].charged \in Nat
  BY KeyOfStatement, MaxBytesAssumption DEF TypeOK, Statement, Bytes
<1>2. /\ \A o \in Backends \ {b} : stmt'[o] = stmt[o]
      /\ stmt'[b] = IdleStatement
  BY DEF TypeOK
<1>3. ~HoldsCharge(stmt'[b])
  BY <1>2 DEF HoldsCharge, IdleStatement
<1>4. \A j : Owed(stmt'[b], j) = 0
  BY <1>3, NothingOwed
<1>5. \A j : Owed(stmt[b], j) = IF j = k THEN stmt[b].charged ELSE 0
  BY DEF Owed
<1> DEFINE flight == InFlight(k) - stmt[b].charged
<1>6. InFlight(k) \in Int
  <2> HIDE DEF k
  <2> QED
    BY FlightIsInteger
<1>7. flight \in Int /\ flight = InFlight(k) + Owed(stmt'[b], k) - Owed(stmt[b], k)
  BY <1>1, <1>4, <1>5, <1>6
<1>8. \A j \in Keys \ {k} : /\ buckets'[j] = buckets[j] /\ ledger'[j] = ledger[j]
                            /\ Owed(stmt'[b], j) = Owed(stmt[b], j)
  BY <1>4, <1>5 DEF TypeOK
<1>9. buckets'[k].occupied => Balanced(buckets'[k], ledger'[k], flight)
  BY <1>1 DEF TypeOK
<1> HIDE DEF flight, k
<1> QED
  BY <1>1, <1>2, <1>7, <1>8, <1>9, BooksAfterStep

\* A statement without a charge ends: nothing is settled.
LEMMA BooksAfterNothing ==
  ASSUME TypeOK, TypeOK', BooksOK, UNCHANGED <<buckets, ledger>>,
         \A b \in Backends, k \in Keys : Owed(stmt'[b], k) = Owed(stmt[b], k)
  PROVE  BooksOK'
<1> SUFFICES ASSUME NEW k \in Keys, buckets'[k].occupied
             PROVE  Balanced(buckets'[k], ledger'[k], InFlight(k)')
  BY DEF BooksOK, Balanced
<1>1. FlightOf(stmt', k) = FlightOf(stmt, k)
  BY FlightStays
<1>2. InFlight(k)' = InFlight(k)
  BY <1>1 DEF InFlight, FlightOf, Charges
<1> QED
  BY <1>2 DEF BooksOK

LEMMA BooksAfterSettlement ==
  ASSUME TypeOK, TypeOK', BooksOK, ChargesLand, NEW b \in Backends, HoldsCharge(stmt[b]), StatementEnds(b)
  PROVE  BooksOK'
<1> DEFINE s == stmt[b]
           k == Key(s)
           bucket == buckets[k]
           entry == ledger[k]
           charged == s.charged
<1>1. /\ k \in Keys /\ charged \in Nat /\ bucket \in Bucket /\ entry \in Ledger
      /\ bucket.occupied /\ stmt' = [stmt EXCEPT ![b] = IdleStatement]
  BY KeyOfStatement, MaxBytesAssumption
     DEF TypeOK, Statement, Bytes, ChargesLand, StatementEnds, Complete,
         CompletionRaises, AbortRunning, CommitUnmeasured
<1>2. InFlight(k) \in Int
  <2> HIDE DEF k
  <2> QED
    BY FlightIsInteger
<1>3. Balanced(bucket, entry, InFlight(k))
  BY <1>1 DEF BooksOK
<1>4. /\ entry.granted \in Int /\ entry.used \in Nat /\ entry.lost \in Nat
      /\ bucket.debt \in Nat
  BY <1>1, MaxBytesAssumption DEF Bucket, Ledger, Bytes
<1>5. ASSUME NEW actual \in Nat, NEW after \in Ledger,
             buckets' = [buckets EXCEPT ![k] = ReconcileBudget(bucket, charged, actual)],
             ledger' = [ledger EXCEPT ![k] = after],
             after.granted = entry.granted - (charged - Smaller(actual, charged)),
             after.used = entry.used + actual, after.lost = entry.lost
      PROVE  BooksOK'
  <2> DEFINE flight == InFlight(k)
  <2>1. Balanced(ReconcileBudget(bucket, charged, actual), after, flight - charged)
    <3>1. flight \in Int /\ Balanced(bucket, entry, flight)
      BY <1>2, <1>3
    <3> HIDE DEF flight, bucket, entry, charged
    <3> QED
      BY <1>1, <1>5, <3>1, SettlementBalances
  <2> DEFINE new == ReconcileBudget(bucket, charged, actual)
  <2>2. /\ buckets' = [buckets EXCEPT ![Key(stmt[b])] = new]
        /\ ledger' = [ledger EXCEPT ![Key(stmt[b])] = after]
        /\ Balanced(new, after, InFlight(Key(stmt[b])) - stmt[b].charged)
    BY <1>5, <2>1
  <2> HIDE DEF new
  <2> QED
    BY <1>1, <2>2, BooksAfterEnd
<1>6. CASE Complete(b)
  <2>1. PICK actual \in Actuals :
          /\ buckets' = [buckets EXCEPT ![k] = ReconcileBudget(@, charged, actual)]
          /\ ledger' = [ledger EXCEPT
               ![k].granted = @ - (charged - Smaller(actual, charged)),
               ![k].used = @ + actual]
    BY <1>6 DEF Complete
  <2>2. actual \in Nat
    BY StatementAssumption, MaxBytesAssumption DEF Bytes
  <2> DEFINE g == entry.granted - (charged - Smaller(actual, charged))
             u == entry.used + actual
             after == [entry EXCEPT !.granted = g, !.used = u]
  <2>3. g \in Int /\ u \in Nat
    BY <1>1, <1>4, <2>2 DEF Smaller
  <2>4. ledger' = [ledger EXCEPT ![k] = after]
    BY <1>1, <2>1 DEF TypeOK, Ledger
  <2>5. after \in Ledger /\ after.granted = g /\ after.used = u /\ after.lost = entry.lost
    <3> HIDE DEF g, u, entry
    <3> QED
      BY <1>1, <2>3 DEF Ledger
  <2>6. buckets' = [buckets EXCEPT ![k] = ReconcileBudget(bucket, charged, actual)]
    BY <2>1
  <2> HIDE DEF after, bucket, entry, charged, k
  <2> QED
    BY <1>5, <2>2, <2>4, <2>5, <2>6
<1>7. CASE AbortRunning(b)
  <2>1. /\ buckets' = [buckets EXCEPT ![k] = ReconcileBudget(@, charged, 0)]
        /\ ledger' = [ledger EXCEPT ![k].granted = @ - charged]
    BY <1>7 DEF AbortRunning
  <2> DEFINE g == entry.granted - charged
             after == [entry EXCEPT !.granted = g]
  <2>2. g \in Int /\ g = entry.granted - (charged - Smaller(0, charged)) /\ 0 \in Nat
    BY <1>1, <1>4 DEF Smaller
  <2>3. ledger' = [ledger EXCEPT ![k] = after]
    BY <1>1, <2>1 DEF TypeOK, Ledger
  <2>4. after \in Ledger /\ after.granted = g /\ after.used = entry.used /\ after.lost = entry.lost
    <3> HIDE DEF g, entry
    <3> QED
      BY <1>1, <2>2 DEF Ledger
  <2>5. after.used = entry.used + 0
    BY <1>4, <2>4
  <2>6. buckets' = [buckets EXCEPT ![k] = ReconcileBudget(bucket, charged, 0)]
    BY <2>1
  <2> HIDE DEF after, bucket, entry, charged, k
  <2> QED
    BY <1>5, <2>2, <2>3, <2>4, <2>5, <2>6
<1>8. CASE CommitUnmeasured(b)
  <2>1. buckets' = buckets /\ ledger' = [ledger EXCEPT ![k].used = @ + charged]
    BY <1>8 DEF CommitUnmeasured
  <2> DEFINE u == entry.used + charged
             after == [entry EXCEPT !.used = u]
  <2>2. ledger' = [ledger EXCEPT ![k] = after]
    BY <1>1, <2>1 DEF TypeOK, Ledger
  <2>3. after.granted = entry.granted /\ after.used = u /\ after.lost = entry.lost
    <3> HIDE DEF u, entry
    <3> QED
      BY <1>1 DEF Ledger
  <2>4. Balanced(bucket, after, InFlight(k) - charged)
    <3> HIDE DEF after, bucket, entry, charged, k
    <3> QED
      BY <1>1, <1>2, <1>3, <1>4, <2>3 DEF Balanced
  <2>5. buckets' = [buckets EXCEPT ![k] = bucket]
    BY <1>1, <2>1 DEF TypeOK
  <2>6. /\ buckets' = [buckets EXCEPT ![Key(stmt[b])] = bucket]
        /\ ledger' = [ledger EXCEPT ![Key(stmt[b])] = after]
        /\ Balanced(bucket, after, InFlight(Key(stmt[b])) - stmt[b].charged)
    BY <2>2, <2>4, <2>5
  <2> HIDE DEF bucket, after
  <2> QED
    BY <1>1, <2>6, BooksAfterEnd
<1>9. CASE CompletionRaises(b)
  <2>1. buckets' = buckets /\ ledger' = [ledger EXCEPT ![k].lost = @ + charged]
    BY <1>9 DEF CompletionRaises
  <2> DEFINE l == entry.lost + charged
             after == [entry EXCEPT !.lost = l]
  <2>2. ledger' = [ledger EXCEPT ![k] = after]
    BY <1>1, <2>1 DEF TypeOK, Ledger
  <2>3. after.granted = entry.granted /\ after.lost = l /\ after.used = entry.used
    <3> HIDE DEF l, entry
    <3> QED
      BY <1>1 DEF Ledger
  <2>4. Balanced(bucket, after, InFlight(k) - charged)
    <3> HIDE DEF after, bucket, entry, charged, k
    <3> QED
      BY <1>1, <1>2, <1>3, <1>4, <2>3 DEF Balanced
  <2>5. buckets' = [buckets EXCEPT ![k] = bucket]
    BY <1>1, <2>1 DEF TypeOK
  <2>6. /\ buckets' = [buckets EXCEPT ![Key(stmt[b])] = bucket]
        /\ ledger' = [ledger EXCEPT ![Key(stmt[b])] = after]
        /\ Balanced(bucket, after, InFlight(Key(stmt[b])) - stmt[b].charged)
    BY <2>2, <2>4, <2>5
  <2> HIDE DEF bucket, after
  <2> QED
    BY <1>1, <2>6, BooksAfterEnd
<1> QED
  BY <1>6, <1>7, <1>8, <1>9 DEF StatementEnds

\* The end of a statement, with or without a charge.
LEMMA BooksAfterAnyEnd ==
  ASSUME TypeOK, TypeOK', BooksOK, ChargesLand, NEW b \in Backends, StatementEnds(b)
  PROVE  BooksOK'
<1>1. CASE HoldsCharge(stmt[b])
  BY <1>1, BooksAfterSettlement
<1>2. CASE ~HoldsCharge(stmt[b])
  <2>1. UNCHANGED <<buckets, ledger>> /\ stmt' = [stmt EXCEPT ![b] = IdleStatement]
    BY <1>2 DEF StatementEnds, Complete, CompletionRaises, AbortRunning, CommitUnmeasured
  <2>2. ~HoldsCharge(IdleStatement)
    BY DEF HoldsCharge, IdleStatement
  <2>3. ASSUME NEW o \in Backends, NEW k \in Keys
        PROVE  Owed(stmt'[o], k) = Owed(stmt[o], k)
    BY <1>2, <2>1, <2>2 DEF TypeOK, Owed
  <2> QED
    BY <2>1, <2>3, BooksAfterNothing
<1> QED
  BY <1>1, <1>2

LEMMA SleepOwesAsBefore ==
  ASSUME NEW s \in Statement, NEW slept, NEW k
  PROVE  /\ Owed([s EXCEPT !.sleep = slept], k) = Owed(s, k)
         /\ HoldsCharge([s EXCEPT !.sleep = slept]) = HoldsCharge(s)
         /\ Key([s EXCEPT !.sleep = slept]) = Key(s)
  BY DEF Owed, HoldsCharge, Key, Statement

LEMMA BooksNext == TypeOK /\ BooksOK /\ ChargesLand /\ [Next]_vars => BooksOK'
<1> SUFFICES ASSUME TypeOK, BooksOK, ChargesLand, [Next]_vars PROVE BooksOK'
  OBVIOUS
<1>0. TypeOK'
  BY TypeNext
<1>1. ASSUME NEW b \in Backends, UnchargedStep(b) PROVE BooksOK'
  BY <1>0, <1>1, BooksAfterUncharged
<1>2. ASSUME NEW b \in Backends, AdmitCharged(b) PROVE BooksOK'
  BY <1>0, <1>2, BooksAfterCharge
<1>3. ASSUME NEW b \in Backends, StatementEnds(b)
      PROVE  BooksOK'
  BY <1>0, <1>3, BooksAfterAnyEnd
<1>4. CASE Tick
  <2>1. UNCHANGED <<buckets, ledger>>
    BY <1>4 DEF Tick
  <2>2. ASSUME NEW b \in Backends, NEW k \in Keys
        PROVE  Owed(stmt'[b], k) = Owed(stmt[b], k)
    <3>1. \E slept : stmt'[b] = [stmt[b] EXCEPT !.sleep = slept]
      BY <1>4 DEF Tick
    <3>2. stmt[b] \in Statement
      BY DEF TypeOK
    <3> QED
      BY <3>1, <3>2, SleepOwesAsBefore
  <2> QED
    BY <1>0, <2>1, <2>2, BooksAfterNothing
<1>5. CASE CrashRestart
  BY <1>5 DEF CrashRestart, BooksOK, EmptySlot
<1>6. CASE ClockStepBack \/ UNCHANGED vars
  <2>1. UNCHANGED <<buckets, ledger, stmt>>
    BY <1>6 DEF ClockStepBack, vars
  <2> QED
    BY <1>0, <2>1, BooksAfterNothing
<1> QED
  BY <1>1, <1>2, <1>3, <1>4, <1>5, <1>6
     DEF Next, Attempt, UnchargedStep, Finished

LEMMA ChargesLandNext == TypeOK /\ ChargesLand /\ [Next]_vars => ChargesLand'
<1> SUFFICES ASSUME TypeOK, ChargesLand, [Next]_vars, NEW o \in Backends,
                    HoldsCharge(stmt'[o])
             PROVE  buckets'[Key(stmt'[o])].occupied
  BY DEF ChargesLand
<1>0. ~HoldsCharge(IdleStatement) /\ stmt[o] \in Statement
  BY DEF HoldsCharge, IdleStatement, TypeOK
<1>1. ASSUME HoldsCharge(stmt[o]), Key(stmt'[o]) = Key(stmt[o]), crashes' = crashes
      PROVE  buckets'[Key(stmt'[o])].occupied
  <2>1. Key(stmt[o]) \in Opened
    BY <1>0, <1>1, KeyOfStatement DEF ChargesLand, Opened
  <2>2. Key(stmt[o]) \in Opened'
    BY <1>1, <2>1, BucketsMoveForward
  <2> QED
    BY <1>1, <2>2 DEF Opened
<1>2. ASSUME NEW b \in Backends, UnchargedStep(b)
      PROVE  buckets'[Key(stmt'[o])].occupied
  <2>1. o # b /\ stmt'[o] = stmt[o]
    BY <1>2, UnchargedStepHoldsNothing
  <2>2. crashes' = crashes
    BY <1>2 DEF UnchargedStep, Start, Wake, LatchSet, CancelQueued, FinishUntracked,
                AdmitUncharged, AdmitShadow, RejectOverBudget, RejectOverBurst,
                BucketCapacityExhausted, QueueWouldWait
  <2> QED
    BY <1>1, <2>1, <2>2
<1>3. ASSUME NEW b \in Backends, AdmitCharged(b)
      PROVE  buckets'[Key(stmt'[o])].occupied
  <2>1. CASE o # b
    BY <1>1, <1>3, <2>1 DEF AdmitCharged, TypeOK
  <2>2. CASE o = b
    <3> DEFINE s == stmt[b]
               k == Key(s)
    <3>1. /\ k \in Keys /\ s \in Statement
          /\ Refreshed(s) \in Bucket /\ Refreshed(s).occupied
      BY AttemptFacts
    <3>2. stmt'[o] = Running(s, "Allowed", s.predicted)
      BY <1>3, <2>2 DEF AdmitCharged, TypeOK
    <3>3. Key(stmt'[o]) = k
      BY <3>1, <3>2 DEF Running, Statement, Key
    <3>4. buckets'[k] = ChargeAvailable(Refreshed(s), s.predicted)
      BY <1>3, <3>1 DEF AdmitCharged, TypeOK
    <3>5. ASSUME NEW bucket \in Bucket, NEW amount
          PROVE  ChargeAvailable(bucket, amount).occupied = bucket.occupied
      BY DEF ChargeAvailable, Bucket
    <3> HIDE DEF k, s
    <3> QED
      BY <3>1, <3>3, <3>4, <3>5
  <2> QED
    BY <2>1, <2>2
<1>4. ASSUME NEW b \in Backends, StatementEnds(b)
      PROVE  buckets'[Key(stmt'[o])].occupied
  <2>1. stmt' = [stmt EXCEPT ![b] = IdleStatement] /\ crashes' = crashes
    BY <1>4 DEF StatementEnds, Complete, CompletionRaises, AbortRunning, CommitUnmeasured
  <2>2. o # b /\ stmt'[o] = stmt[o]
    BY <1>0, <2>1 DEF TypeOK
  <2> QED
    BY <1>1, <2>1, <2>2
<1>5. CASE Tick
  <2>1. \E slept : stmt'[o] = [stmt[o] EXCEPT !.sleep = slept]
    BY <1>5 DEF Tick
  <2>2. HoldsCharge(stmt[o]) /\ Key(stmt'[o]) = Key(stmt[o])
    BY <1>0, <2>1, SleepOwesAsBefore
  <2> QED
    BY <1>1, <1>5, <2>2 DEF Tick
<1>6. CASE CrashRestart
  BY <1>0, <1>6 DEF CrashRestart
<1>7. CASE ClockStepBack \/ UNCHANGED vars
  <2>1. UNCHANGED <<stmt, crashes>>
    BY <1>7 DEF ClockStepBack, vars
  <2> QED
    BY <1>1, <2>1
<1> QED
  BY <1>2, <1>3, <1>4, <1>5, <1>6, <1>7 DEF Next, Attempt, UnchargedStep, Finished

\* Every charge is settled exactly once, on the bucket it was taken from, or
\* lost once, when an ERROR in its completion comes before the settlement; and
\* nothing else moves the books, for any number of backends: what a bucket has
\* issued with its debt is what was written, what runs now and what was lost, but
\* for what a saturated debt counter cannot record (reconcile_completed_statement,
\* record_aborted_statement, record_missing_actual_wal).
THEOREM BooksAlwaysBalance == Spec => []BooksBalance
<1>1. Init => BooksOK /\ ChargesLand
  BY DEF Init, BooksOK, ChargesLand, EmptySlot, IdleStatement, HoldsCharge
<1>2. BooksOK => BooksBalance
  BY DEF BooksOK, Balanced, BooksBalance, Opened
<1> QED
  BY <1>1, <1>2, BooksNext, ChargesLandNext, TypeCorrect, PTL DEF Spec

-----------------------------------------------------------------------------
(* The refinement.                                                         *)

\* Every bucket, occupied or not, holds a burst that a policy row allows.
BurstsOK ==
  \A k \in Keys : /\ buckets[k].available <= buckets[k].max_burst
                  /\ buckets[k].max_burst <= BurstCeiling[k[1]]

RInv == IInv /\ WaitersOK /\ BurstsOK

LEMMA BurstFacts ==
  ASSUME NEW p \in PolicyConfigs
  PROVE  BurstCeiling[p.policy_id] \in Nat /\ p.burst <= BurstCeiling[p.policy_id]
  BY BurstAssumption

LEMMA CeilingTypes ==
  ASSUME NEW k \in Keys
  PROVE  BurstCeiling[k[1]] \in Nat /\ RateCeiling[k[1]] \in Nat
<1>1. PICK p \in PolicyConfigs : k[1] = p.policy_id
  BY DEF Keys, PolicyIds
<1> QED
  BY <1>1, BurstFacts, PolicyAssumption

\* A statement that touches a bucket has a policy.
LEMMA AttemptHasPolicy ==
  ASSUME TypeOK, WaitersOK, NEW b \in Backends,
         \/ AdmitShadow(b) \/ AdmitCharged(b) \/ QueueWouldWait(b)
  PROVE  stmt[b].policy \in PolicyConfigs
<1>1. stmt[b].policy \in PolicyConfigs \cup {NoPolicy}
  BY DEF TypeOK, Statement
<1>2. stmt[b].policy.mode # "unmatched"
  BY DEF AdmitShadow, AdmitCharged, QueueWouldWait, Attempting, WaitersOK, WaiterOK
<1>3. NoPolicy.mode = "unmatched"
  BY DEF NoPolicy
<1> QED
  BY <1>1, <1>2, <1>3

\* What a refreshed bucket holds is within what the abstract account could
\* hold at the refreshed bucket's refill time.
LEMMA RefreshedWithinMost ==
  ASSUME TypeOK, NEW b \in Backends, stmt[b].policy \in PolicyConfigs
  PROVE  Refreshed(stmt[b]).available
           <= Abstract!MostCredit(Key(stmt[b]), Refreshed(stmt[b]).last_refill)
<1> DEFINE s == stmt[b]
           k == Key(s)
           old == BucketFor(s)
           new == Refreshed(s)
           r == s.policy.rate
           c == RateCeiling[k[1]]
           t == new.last_refill
<1>1. /\ k \in Keys /\ old \in Bucket /\ new \in Bucket
      /\ new.available <= s.policy.burst
      /\ new.last_refill >= old.last_refill
      /\ 1000 * (new.available - old.available)
           <= r * (new.last_refill - old.last_refill)
  BY AttemptFacts
<1>2. k[1] = s.policy.policy_id
  BY DEF Key
<1>3. r \in Nat /\ c \in Nat /\ r <= c /\ s.policy.burst \in Nat
      /\ BurstCeiling[k[1]] \in Nat /\ s.policy.burst <= BurstCeiling[k[1]]
  BY <1>2, BurstFacts, PolicyFacts, MaxBytesAssumption DEF Bytes
<1>4. /\ old.available \in Nat /\ new.available \in Nat
      /\ old.last_refill \in Nat /\ new.last_refill \in Nat
  BY <1>1, MaxBytesAssumption DEF Bucket, Bytes
<1>5. new.available <= BurstCeiling[k[1]]
  BY <1>1, <1>3, <1>4
<1>6. MostBurst[k] = BurstCeiling[k[1]] /\ MostRate[k] = c
  BY <1>1 DEF MostBurst, MostRate
<1>7. CASE ~buckets[k].occupied
  <2>1. k \notin Opened
    BY <1>7 DEF Opened
  <2> QED
    BY <1>5, <1>6, <2>1 DEF Abstract!MostCredit
<1>8. CASE buckets[k].occupied
  <2>1. k \in Opened /\ old = buckets[k]
    BY <1>1, <1>8 DEF Opened, BucketFor
  <2>2. Credit[k] = old.available /\ CreditedUntil[k] = old.last_refill
    BY <1>1, <2>1 DEF Credit, CreditedUntil
  <2> DEFINE e == new.last_refill - old.last_refill
             earned == (c * e) \div 1000
  <2>3. e \in Nat
    BY <1>1, <1>4
  <2>4. r * e <= c * e /\ r * e \in Nat /\ c * e \in Nat
    <3> HIDE DEF r, c, e
    <3> QED
      BY <1>3, <2>3, ProductMonotone
  <2>5. new.available - old.available <= earned
    <3> DEFINE x == new.available - old.available
    <3>1. x \in Int /\ 1000 * x <= r * e
      BY <1>1, <1>4
    <3>2. 1000 * x <= c * e
      <4> HIDE DEF x, r, c, e
      <4> QED
        BY <2>4, <3>1
    <3> HIDE DEF x, c, e
    <3>3. x <= (c * e) \div 1000
      BY <2>4, <3>1, <3>2, WholeBytesEarned
    <3> QED
      BY <3>3 DEF x
  <2>6. earned \in Nat
    <3> HIDE DEF c, e
    <3> QED
      BY <2>4, DivisionBounds
  <2>7. Abstract!MostCredit(k, t) =
          IF old.available + earned <= BurstCeiling[k[1]]
          THEN old.available + earned ELSE BurstCeiling[k[1]]
    <3> HIDE DEF k, old, new, c
    <3> QED
      BY <1>6, <2>1, <2>2 DEF Abstract!MostCredit
  <2> HIDE DEF earned, e
  <2>8. new.available <= old.available + earned
    BY <1>4, <2>5, <2>6
  <2> QED
    BY <1>5, <2>7, <2>8
<1> QED
  BY <1>7, <1>8
------------------------------------------------------------------------------
(***************************************************************************)
(* Bursts.                                                                 *)
(***************************************************************************)
LEMMA BurstsAfterWrite ==
  ASSUME TypeOK, BurstsOK, NEW k \in Keys, NEW bucket,
         buckets' = [buckets EXCEPT ![k] = bucket],
         bucket.available <= bucket.max_burst, bucket.max_burst <= BurstCeiling[k[1]]
  PROVE  BurstsOK'
  BY DEF TypeOK, BurstsOK

LEMMA AttemptKeepsBursts ==
  ASSUME TypeOK, WaitersOK, BurstsOK, NEW b \in Backends, Attempt(b)
  PROVE  BurstsOK'
<1> DEFINE s == stmt[b]
           k == Key(s)
           fresh == Refreshed(s)
           charged == ChargeAvailable(fresh, s.predicted)
<1>1. CASE UNCHANGED buckets
  BY <1>1 DEF BurstsOK
<1>2. CASE AdmitShadow(b) \/ AdmitCharged(b) \/ QueueWouldWait(b)
  <2>1. /\ k \in Keys /\ fresh \in Bucket /\ s \in Statement
        /\ fresh.max_burst = s.policy.burst /\ fresh.available <= s.policy.burst
    BY AttemptFacts
  <2>2. s.policy.burst <= BurstCeiling[k[1]]
    BY <1>2, AttemptHasPolicy, BurstFacts DEF Key
  <2>3. /\ charged.max_burst = fresh.max_burst
        /\ charged.available = fresh.available - s.predicted
        /\ s.predicted \in Nat /\ fresh.available \in Nat
    BY <2>1, MaxBytesAssumption DEF ChargeAvailable, Bucket, Statement, Bytes
  <2>4. \/ UNCHANGED buckets
        \/ buckets' = [buckets EXCEPT ![k] = fresh]
        \/ buckets' = [buckets EXCEPT ![k] = charged]
    BY <1>2 DEF AdmitShadow, AdmitCharged, QueueWouldWait
  <2>5. s.policy.burst \in Nat
    BY <2>1, PolicyFacts, MaxBytesAssumption DEF Statement, Bytes
  <2>6. charged.available <= charged.max_burst
    BY <2>1, <2>3, <2>5
  <2> HIDE DEF s, k, fresh, charged
  <2> QED
    BY <1>1, <2>1, <2>2, <2>3, <2>4, <2>6, BurstsAfterWrite
<1> QED
  BY <1>1, <1>2 DEF Attempt, AdmitUncharged, RejectOverBudget, RejectOverBurst,
                    BucketCapacityExhausted

\* The end of a statement writes its bucket with what the settlement returns.
LEMMA EndWrites ==
  ASSUME TypeOK, BurstsOK, NEW b \in Backends, StatementEnds(b)
  PROVE  LET s == stmt[b]
             k == Key(s)
         IN  /\ s \in Statement /\ k \in Keys /\ buckets[k] \in Bucket
             /\ s.phase = "running" /\ stmt' = [stmt EXCEPT ![b] = IdleStatement]
             /\ ~HoldsCharge(s) => UNCHANGED buckets
             /\ HoldsCharge(s) => /\ \A j \in Keys \ {k} : buckets'[j] = buckets[j]
                                  /\ buckets'[k].occupied = buckets[k].occupied
                                  /\ buckets'[k].last_refill = buckets[k].last_refill
                                  /\ buckets'[k].max_burst = buckets[k].max_burst
                                  /\ buckets'[k].available <= buckets[k].max_burst
                                  /\ buckets[k].available <= buckets'[k].available
                                  /\ buckets'[k].available <= buckets[k].available + s.charged
                                  /\ buckets'[k].available \in Nat
<1> DEFINE s == stmt[b]
           k == Key(s)
           old == buckets[k]
<1>1. /\ s \in Statement /\ k \in Keys /\ old \in Bucket /\ s.charged \in Nat
      /\ old.available <= old.max_burst
      /\ buckets \in [Keys -> Bucket]
  BY KeyOfStatement, MaxBytesAssumption DEF TypeOK, Statement, BurstsOK, Bytes
<1>2. s.phase = "running" /\ stmt' = [stmt EXCEPT ![b] = IdleStatement]
  BY DEF StatementEnds, Complete, CompletionRaises, AbortRunning, CommitUnmeasured
<1>3. ~HoldsCharge(s) => UNCHANGED buckets
  BY DEF StatementEnds, Complete, CompletionRaises, AbortRunning, CommitUnmeasured
<1>4. ASSUME NEW actual \in Nat, buckets' = [buckets EXCEPT ![k] = ReconcileBudget(@, s.charged, actual)]
      PROVE  /\ \A j \in Keys \ {k} : buckets'[j] = buckets[j]
             /\ buckets'[k].occupied = old.occupied
             /\ buckets'[k].last_refill = old.last_refill
             /\ buckets'[k].max_burst = old.max_burst
             /\ buckets'[k].available <= old.max_burst
             /\ old.available <= buckets'[k].available
             /\ buckets'[k].available <= old.available + s.charged
             /\ buckets'[k].available \in Nat
  <2> DEFINE c == s.charged
  <2>1. c \in Nat /\ buckets'[k] = ReconcileBudget(old, c, actual)
        /\ \A j \in Keys \ {k} : buckets'[j] = buckets[j]
    BY <1>1, <1>4
  <2> HIDE DEF s, k, old, c
  <2>2. LET after == ReconcileBudget(old, c, actual)
        IN  /\ after.occupied = old.occupied
            /\ after.last_refill = old.last_refill
            /\ after.max_burst = old.max_burst
            /\ after.available <= old.max_burst
            /\ old.available <= after.available
            /\ after.available <= old.available + c
            /\ after.available \in Nat /\ old.available \in Nat
    BY <1>1, <2>1, SettlementReturns
  <2> QED
    BY <2>1, <2>2 DEF c
<1>5. ASSUME UNCHANGED buckets
      PROVE  /\ \A j \in Keys \ {k} : buckets'[j] = buckets[j]
             /\ buckets'[k].occupied = old.occupied
             /\ buckets'[k].last_refill = old.last_refill
             /\ buckets'[k].max_burst = old.max_burst
             /\ buckets'[k].available <= old.max_burst
             /\ old.available <= buckets'[k].available
             /\ buckets'[k].available <= old.available + s.charged
             /\ buckets'[k].available \in Nat
  BY <1>1, <1>5, MaxBytesAssumption DEF Bucket, Bytes
<1>6. HoldsCharge(s) =>
        \/ \E actual \in Nat : buckets' = [buckets EXCEPT ![k] = ReconcileBudget(@, s.charged, actual)]
        \/ UNCHANGED buckets
  <2>1. Actuals \subseteq Nat /\ 0 \in Nat
    BY StatementAssumption, MaxBytesAssumption DEF Bytes
  <2>2. CASE Complete(b)
    BY <2>1, <2>2 DEF Complete
  <2>3. CASE AbortRunning(b)
    BY <2>1, <2>3 DEF AbortRunning
  <2>4. CASE CompletionRaises(b) \/ CommitUnmeasured(b)
    BY <2>4 DEF CompletionRaises, CommitUnmeasured
  <2> QED
    BY <2>2, <2>3, <2>4 DEF StatementEnds
<1> HIDE DEF s, k, old
<1>7. HoldsCharge(s) => 
             /\ \A j \in Keys \ {k} : buckets'[j] = buckets[j]
             /\ buckets'[k].occupied = old.occupied
             /\ buckets'[k].last_refill = old.last_refill
             /\ buckets'[k].max_burst = old.max_burst
             /\ buckets'[k].available <= old.max_burst
             /\ old.available <= buckets'[k].available
             /\ buckets'[k].available <= old.available + s.charged
             /\ buckets'[k].available \in Nat
  BY <1>4, <1>5, <1>6
<1> QED
  BY <1>1, <1>2, <1>3, <1>7 DEF s, k, old

LEMMA BurstsNext ==
  ASSUME TypeOK, WaitersOK, BurstsOK, [Next]_vars
  PROVE  BurstsOK'
<1>1. CASE UNCHANGED buckets
  BY <1>1 DEF BurstsOK
<1>2. ASSUME NEW b \in Backends, Attempt(b) PROVE BurstsOK'
  BY <1>2, AttemptKeepsBursts
<1>3. ASSUME NEW b \in Backends, StatementEnds(b)
      PROVE  BurstsOK'
  <2> DEFINE s == stmt[b]
             k == Key(s)
  <2>1. CASE HoldsCharge(s)
    <3>1. /\ k \in Keys
          /\ \A j \in Keys \ {k} : buckets'[j] = buckets[j]
          /\ buckets'[k].max_burst = buckets[k].max_burst
          /\ buckets'[k].available <= buckets[k].max_burst
      BY <1>3, <2>1, EndWrites
    <3> HIDE DEF k
    <3> QED
      BY <3>1 DEF BurstsOK
  <2>2. CASE ~HoldsCharge(s)
    BY <1>1, <1>3, <2>2, EndWrites
  <2> QED
    BY <2>1, <2>2
<1>4. CASE CrashRestart
  <2>1. \A k \in Keys : buckets'[k].available = 0 /\ buckets'[k].max_burst = 0
    BY <1>4 DEF CrashRestart, EmptySlot
  <2> QED
    BY <2>1, CeilingTypes DEF BurstsOK
<1> QED
  BY <1>1, <1>2, <1>3, <1>4
     DEF Next, Start, Wake, LatchSet, CancelQueued, FinishUntracked, Tick, ClockStepBack,
         Finished, vars

LEMMA RInvInit == Init => RInv
<1> SUFFICES ASSUME Init PROVE RInv
  OBVIOUS
<1>1. IInv
  BY InvInit
<1>2. WaitersOK
  BY DEF Init, IdleStatement, WaitersOK, WaiterOK
<1>3. BurstsOK
  BY CeilingTypes DEF Init, BurstsOK, EmptySlot
<1> QED
  BY <1>1, <1>2, <1>3 DEF RInv

LEMMA RInvNext == RInv /\ [Next]_vars => RInv'
  BY InvNext, WaitersStayOK, BurstsNext DEF RInv, IInv
------------------------------------------------------------------------------
(***************************************************************************)
(* Every step of the code is a step of the abstract budget, or a stutter.  *)
(***************************************************************************)
LEMMA InitImplements == Init => Abstract!Init
<1> SUFFICES ASSUME Init PROVE Abstract!Init
  OBVIOUS
<1>1. Opened = {}
  BY DEF Init, Opened, EmptySlot
<1>2. Credit = [k \in Keys |-> 0] /\ CreditedUntil = [k \in Keys |-> 0]
  BY DEF Init, Credit, CreditedUntil, EmptySlot
<1>3. HeldBy(IdleStatement) = NothingHeld
  BY DEF HeldBy, HoldsCharge, IdleStatement
<1>4. Held = [b \in Backends |-> NothingHeld]
  BY <1>3 DEF Init, Held
<1> QED
  BY <1>1, <1>2, <1>4 DEF Abstract!Init, Abstract!NoCharge, NothingHeld

\* A step that changes no bucket and no charge.
LEMMA StutterStep ==
  ASSUME UNCHANGED buckets, \A b \in Backends : HeldBy(stmt'[b]) = HeldBy(stmt[b])
  PROVE  UNCHANGED Abstract!vars
<1>1. UNCHANGED <<Opened, Credit, CreditedUntil>>
  BY DEF Opened, Credit, CreditedUntil
<1>2. UNCHANGED Held
  BY DEF Held, HeldBy, HoldsCharge, Key, NothingHeld
<1> QED
  BY <1>1, <1>2 DEF Abstract!vars

\* Only a running statement holds something, and only while it runs.
LEMMA HoldsNothing ==
  ASSUME NEW s, s.phase # "running"
  PROVE  HeldBy(s) = NothingHeld
  BY DEF HeldBy, HoldsCharge

\* One backend changes its statement, holding as much as before.
LEMMA OneStatementChanges ==
  ASSUME TypeOK, NEW b \in Backends, NEW s, stmt' = [stmt EXCEPT ![b] = s],
         HeldBy(s) = HeldBy(stmt[b])
  PROVE  \A o \in Backends : HeldBy(stmt'[o]) = HeldBy(stmt[o])
  BY DEF TypeOK

\* The bucket of the statement is stored as it was refreshed, less what the
\* statement takes from it.
LEMMA StoreWithdraws ==
  ASSUME RInv, NEW b \in Backends, stmt[b].policy \in PolicyConfigs,
         NEW bytes \in Nat, bytes <= Refreshed(stmt[b]).available,
         NEW bucket, buckets' = [buckets EXCEPT ![Key(stmt[b])] = bucket],
         bucket.occupied, bucket.last_refill = Refreshed(stmt[b]).last_refill,
         bucket.available = Refreshed(stmt[b]).available - bytes
  PROVE  Abstract!Withdraw(Key(stmt[b]), bytes)
<1> DEFINE k == Key(stmt[b])
           new == Refreshed(stmt[b])
           most == Abstract!MostCredit(k, new.last_refill)
<1>1. /\ k \in Keys /\ new \in Bucket /\ new.last_refill >= BucketFor(stmt[b]).last_refill
      /\ buckets \in [Keys -> Bucket]
  BY AttemptFacts DEF RInv, IInv, TypeOK
<1>2. new.available <= most
  BY RefreshedWithinMost DEF RInv, IInv
<1>3. new.available \in Nat /\ new.last_refill \in Nat
  BY <1>1, MaxBytesAssumption DEF Bucket, Bytes
<1>4. most \in Int
  <2>1. MostBurst[k] \in Nat /\ MostRate[k] \in Nat
    BY <1>1, CeilingTypes DEF MostBurst, MostRate
  <2>2. k \in Opened => Credit[k] \in Nat /\ CreditedUntil[k] \in Nat
    BY <1>1, MaxBytesAssumption DEF Credit, CreditedUntil, Bucket, Bytes
  <2>3. ASSUME k \in Opened
        PROVE  (MostRate[k] * (new.last_refill - CreditedUntil[k])) \div 1000 \in Int
    <3> DEFINE n == MostRate[k] * (new.last_refill - CreditedUntil[k])
    <3>1. CreditedUntil[k] <= new.last_refill
      BY <1>1, <2>3 DEF BucketFor, Opened, CreditedUntil
    <3>2. n \in Nat
      BY <1>3, <2>1, <2>2, <2>3, <3>1
    <3> HIDE DEF n
    <3>3. n \div 1000 \in Nat
      BY <3>2, DivisionBounds
    <3> QED
      BY <3>3 DEF n
  <2> HIDE DEF k, new
  <2> QED
    BY <2>1, <2>2, <2>3 DEF Abstract!MostCredit
<1>5. /\ \A j \in Keys \ {k} : buckets'[j] = buckets[j]
      /\ buckets'[k] = bucket
  BY <1>1
<1>6. Opened' = Opened \cup {k}
  <2>1. \A j \in Keys : j \in Opened' <=> j \in Opened \/ j = k
    BY <1>5 DEF Opened
  <2> QED
    BY <1>1, <2>1 DEF Opened
<1>7. \A j \in Keys \ {k} : Credit'[j] = Credit[j] /\ CreditedUntil'[j] = CreditedUntil[j]
  BY <1>5 DEF Credit, CreditedUntil
<1>8. Credit'[k] = new.available - bytes /\ CreditedUntil'[k] = new.last_refill
  BY <1>1, <1>5 DEF Credit, CreditedUntil
<1>9. k \in Opened => CreditedUntil'[k] >= CreditedUntil[k]
  <2> SUFFICES ASSUME k \in Opened PROVE CreditedUntil'[k] >= CreditedUntil[k]
    OBVIOUS
  <2>1. BucketFor(stmt[b]) = buckets[k] /\ CreditedUntil[k] = buckets[k].last_refill
    BY <1>1 DEF BucketFor, Opened, CreditedUntil
  <2> QED
    BY <1>1, <1>8, <2>1
<1> HIDE DEF most
<1>10. Credit'[k] \in 0..(most - bytes)
  BY <1>2, <1>3, <1>4, <1>8
<1> QED
  BY <1>6, <1>7, <1>8, <1>9, <1>10 DEF Abstract!Withdraw, most

LEMMA ShadowImplements ==
  ASSUME RInv, NEW b \in Backends, AdmitShadow(b)
  PROVE  [Abstract!Next]_(Abstract!vars)
<1> DEFINE s == stmt[b]
<1>1. s \in Statement /\ s.policy \in PolicyConfigs /\ Key(s) \in Keys
      /\ Refreshed(s) \in Bucket /\ Refreshed(s).occupied
  BY AttemptFacts, AttemptHasPolicy DEF RInv, IInv
<1>2. \A o \in Backends : HeldBy(stmt'[o]) = HeldBy(stmt[o])
  <2>1. s.phase = "admit" /\ s.predicted \in Bytes
    BY <1>1 DEF AdmitShadow, Statement
  <2>2. PICK run : /\ stmt' = [stmt EXCEPT ![b] = run]
                   /\ run \in {Running(s, "Allowed", 0), Running(s, "WouldReject", s.predicted)}
    BY DEF AdmitShadow
  <2>3. HeldBy(Running(s, "Allowed", 0)) = NothingHeld
    <3>1. Running(s, "Allowed", 0).charged = 0
      BY <1>1 DEF Running, Statement
    <3> QED
      BY <3>1 DEF HeldBy, HoldsCharge
  <2>4. HeldBy(Running(s, "WouldReject", s.predicted)) = NothingHeld
    <3>1. Running(s, "WouldReject", s.predicted).kind = "WouldReject"
      BY <1>1 DEF Running, Statement
    <3> QED
      BY <3>1 DEF HeldBy, HoldsCharge
  <2>5. HeldBy(run) = HeldBy(stmt[b])
    BY <2>1, <2>2, <2>3, <2>4, HoldsNothing
  <2> QED
    BY <2>2, <2>5, OneStatementChanges DEF RInv, IInv
<1>3. UNCHANGED Held
  BY <1>2 DEF Held, HeldBy, HoldsCharge, Key, NothingHeld
<1>4. CASE UNCHANGED buckets
  BY <1>2, <1>4, StutterStep
<1>5. CASE buckets' = [buckets EXCEPT ![Key(s)] = Refreshed(s)]
  <2>1. Refreshed(s).available \in Nat /\ 0 <= Refreshed(s).available
        /\ Refreshed(s).available = Refreshed(s).available - 0
    BY <1>1, MaxBytesAssumption DEF Bucket, Bytes
  <2>2. Abstract!Withdraw(Key(s), 0)
    BY <1>1, <1>5, <2>1, StoreWithdraws
  <2> QED
    BY <1>1, <1>3, <2>2 DEF Abstract!Adjust, Abstract!Next
<1> QED
  BY <1>4, <1>5 DEF AdmitShadow

LEMMA QueueImplements ==
  ASSUME RInv, NEW b \in Backends, QueueWouldWait(b)
  PROVE  [Abstract!Next]_(Abstract!vars)
<1> DEFINE s == stmt[b]
<1>1. s \in Statement /\ s.policy \in PolicyConfigs /\ Key(s) \in Keys
      /\ Refreshed(s) \in Bucket /\ Refreshed(s).occupied
  BY AttemptFacts, AttemptHasPolicy DEF RInv, IInv
<1>2. \A o \in Backends : HeldBy(stmt'[o]) = HeldBy(stmt[o])
  <2>1. PICK wait : stmt' = [stmt EXCEPT ![b] = wait] /\ wait.phase = "queued"
    <3>1. ASSUME NEW sleep PROVE [s EXCEPT !.phase = "queued", !.now = 0, !.sleep = sleep].phase = "queued"
      BY <1>1 DEF Statement
    <3> QED
      BY <3>1 DEF QueueWouldWait
  <2>2. s.phase # "running"
    BY DEF QueueWouldWait, Attempting
  <2>3. HeldBy(wait) = HeldBy(stmt[b])
    BY <2>1, <2>2, HoldsNothing
  <2> QED
    BY <2>1, <2>3, OneStatementChanges DEF RInv, IInv
<1>3. UNCHANGED Held
  BY <1>2 DEF Held, HeldBy, HoldsCharge, Key, NothingHeld
<1>4. Refreshed(s).available \in Nat /\ 0 <= Refreshed(s).available
      /\ Refreshed(s).available = Refreshed(s).available - 0
  BY <1>1, MaxBytesAssumption DEF Bucket, Bytes
<1>5. buckets' = [buckets EXCEPT ![Key(s)] = Refreshed(s)]
  BY DEF QueueWouldWait
<1>6. Abstract!Withdraw(Key(s), 0)
  BY <1>1, <1>4, <1>5, StoreWithdraws
<1> QED
  BY <1>1, <1>3, <1>6 DEF Abstract!Adjust, Abstract!Next

LEMMA ChargeImplements ==
  ASSUME RInv, NEW b \in Backends, AdmitCharged(b)
  PROVE  [Abstract!Next]_(Abstract!vars)
<1> DEFINE s == stmt[b]
           k == Key(s)
           run == Running(s, "Allowed", s.predicted)
           charged == ChargeAvailable(Refreshed(s), s.predicted)
<1>1. s \in Statement /\ s.policy \in PolicyConfigs /\ k \in Keys
      /\ Refreshed(s) \in Bucket /\ Refreshed(s).occupied
  BY AttemptFacts, AttemptHasPolicy DEF RInv, IInv
<1>2. /\ s.predicted \in Nat /\ s.predicted <= Refreshed(s).available
      /\ stmt' = [stmt EXCEPT ![b] = run] /\ s.phase # "running"
      /\ buckets' = [buckets EXCEPT ![k] = charged]
  BY <1>1, MaxBytesAssumption DEF AdmitCharged, CanAfford, Attempting, Statement, Bytes
<1>3. /\ charged.occupied /\ charged.last_refill = Refreshed(s).last_refill
      /\ charged.available = Refreshed(s).available - s.predicted
  BY <1>1 DEF ChargeAvailable, Bucket
<1>4. Abstract!Withdraw(k, s.predicted)
  <2> DEFINE bytes == s.predicted
  <2>1. /\ bytes \in Nat /\ bytes <= Refreshed(stmt[b]).available
        /\ charged.available = Refreshed(stmt[b]).available - bytes
        /\ charged.last_refill = Refreshed(stmt[b]).last_refill
        /\ buckets' = [buckets EXCEPT ![Key(stmt[b])] = charged]
        /\ stmt[b].policy \in PolicyConfigs
    BY <1>1, <1>2, <1>3
  <2> HIDE DEF bytes, charged
  <2>2. Abstract!Withdraw(Key(stmt[b]), bytes)
    BY <1>3, <2>1, StoreWithdraws
  <2> QED
    BY <2>2 DEF bytes
<1>5. /\ run.phase = "running" /\ run.kind = "Allowed" /\ run.charged = s.predicted
      /\ Key(run) = k
  BY <1>1 DEF Running, Statement, Key
<1>6. Held[b].bytes = 0
  BY <1>2, HoldsNothing DEF Held, NothingHeld
<1>7. stmt \in [Backends -> Statement]
  BY DEF RInv, IInv, TypeOK
<1> HIDE DEF run, charged
<1>8. \A o \in Backends \ {b} : Held'[o] = Held[o]
  BY <1>2, <1>7 DEF Held, HeldBy, HoldsCharge, Key, NothingHeld
<1>9. CASE s.predicted > 0
  <2>1. Held'[b] = [key |-> k, bytes |-> s.predicted]
    BY <1>2, <1>5, <1>7, <1>9 DEF Held, HeldBy, HoldsCharge, Key
  <2>2. Abstract!Grant(b, k)
    BY <1>4, <1>6, <1>8, <1>9, <2>1 DEF Abstract!Grant
  <2> QED
    BY <1>1, <2>2 DEF Abstract!Next
<1>10. CASE s.predicted = 0
  <2>1. HeldBy(run) = HeldBy(stmt[b])
    BY <1>2, <1>5, <1>10, HoldsNothing DEF HeldBy, HoldsCharge
  <2>2. \A o \in Backends : HeldBy(stmt'[o]) = HeldBy(stmt[o])
    BY <1>2, <2>1, OneStatementChanges DEF RInv, IInv
  <2>3. UNCHANGED Held
    BY <2>2 DEF Held, HeldBy, HoldsCharge, Key, NothingHeld
  <2> QED
    BY <1>1, <1>4, <1>10, <2>3 DEF Abstract!Adjust, Abstract!Next
<1> QED
  BY <1>2, <1>9, <1>10

LEMMA EndImplements ==
  ASSUME RInv, NEW b \in Backends, StatementEnds(b)
  PROVE  [Abstract!Next]_(Abstract!vars)
<1> DEFINE s == stmt[b]
           k == Key(s)
<1>0. HeldBy(IdleStatement) = NothingHeld
  BY HoldsNothing DEF IdleStatement
<1>1. CASE ~HoldsCharge(s)
  <2>1. UNCHANGED buckets /\ stmt' = [stmt EXCEPT ![b] = IdleStatement]
    BY <1>1, EndWrites DEF RInv, IInv
  <2>2. HeldBy(IdleStatement) = HeldBy(stmt[b])
    BY <1>0, <1>1 DEF HeldBy
  <2> QED
    BY <2>1, <2>2, OneStatementChanges, StutterStep DEF RInv, IInv
<1>2. CASE HoldsCharge(s)
  <2>1. /\ s \in Statement /\ k \in Keys /\ buckets[k] \in Bucket
        /\ stmt' = [stmt EXCEPT ![b] = IdleStatement]
        /\ \A j \in Keys \ {k} : buckets'[j] = buckets[j]
        /\ buckets'[k].occupied = buckets[k].occupied
        /\ buckets'[k].last_refill = buckets[k].last_refill
        /\ buckets'[k].available <= buckets[k].max_burst
        /\ buckets[k].available <= buckets'[k].available
        /\ buckets'[k].available <= buckets[k].available + s.charged
        /\ buckets'[k].available \in Nat
    BY <1>2, EndWrites DEF RInv, IInv
  <2>2. /\ buckets[k].available \in Nat /\ buckets[k].max_burst \in Nat /\ s.charged \in Nat
        /\ stmt \in [Backends -> Statement]
        /\ buckets[k].max_burst <= BurstCeiling[k[1]] /\ BurstCeiling[k[1]] \in Nat
    BY <2>1, CeilingTypes, MaxBytesAssumption DEF Bucket, Bytes, Statement, RInv, IInv, TypeOK, BurstsOK
  <2> HIDE DEF k
  <2>3. UNCHANGED <<Opened, CreditedUntil>>
    <3>1. \A j \in Keys : /\ buckets'[j].occupied = buckets[j].occupied
                          /\ buckets'[j].last_refill = buckets[j].last_refill
      BY <2>1
    <3> QED
      BY <3>1 DEF Opened, CreditedUntil
  <2>4. /\ \A j \in Keys \ {k} : Credit'[j] = Credit[j]
        /\ Credit[k] = buckets[k].available /\ Credit'[k] = buckets'[k].available
    BY <2>1 DEF Credit
  <2>5. Credit'[k] \in Credit[k]..(Credit[k] + s.charged)
    BY <2>1, <2>2, <2>4
  <2>6. Credit'[k] <= MostBurst[k]
    BY <2>1, <2>2, <2>4 DEF MostBurst
  <2>7. Held[b] = [key |-> k, bytes |-> s.charged] /\ s.charged > 0
    BY <1>2 DEF Held, HeldBy, HoldsCharge, k
  <2>8. Held' = [Held EXCEPT ![b] = NothingHeld]
    <3>1. \A o \in Backends : Held'[o] = IF o = b THEN NothingHeld ELSE Held[o]
      BY <1>0, <2>1, <2>2 DEF Held, HeldBy, HoldsCharge, Key, NothingHeld
    <3> QED
      BY <3>1 DEF Held
  <2>9. Abstract!NoCharge = NothingHeld
    BY DEF Abstract!NoCharge, NothingHeld
  <2>10. Abstract!Settle(b)
    BY <2>3, <2>4, <2>5, <2>6, <2>7, <2>8, <2>9 DEF Abstract!Settle
  <2> QED
    BY <2>10 DEF Abstract!Next
<1> QED
  BY <1>1, <1>2

\* A restart forgets the buckets and the charges alike.
LEMMA RestartImplements ==
  ASSUME CrashRestart
  PROVE  Abstract!Restart
<1>1. Opened' = {}
  BY DEF CrashRestart, Opened, EmptySlot
<1>2. Credit' = [k \in Keys |-> 0] /\ CreditedUntil' = [k \in Keys |-> 0]
  BY DEF CrashRestart, Credit, CreditedUntil, EmptySlot
<1>3. HeldBy(IdleStatement) = NothingHeld
  BY HoldsNothing DEF IdleStatement
<1>4. \A b \in Backends : stmt'[b] = IdleStatement
  BY DEF CrashRestart
<1>5. Held' = [b \in Backends |-> NothingHeld]
  BY <1>3, <1>4 DEF Held, HeldBy, HoldsCharge, Key, NothingHeld
<1> QED
  BY <1>1, <1>2, <1>5 DEF Abstract!Restart, Abstract!NoCharge, NothingHeld

\* A statement that starts, waits, wakes, is refused or was not tracked moves
\* between phases that hold nothing.
LEMMA UnheldStep ==
  ASSUME TypeOK, NEW b \in Backends, UNCHANGED buckets,
         NEW s, stmt' = [stmt EXCEPT ![b] = s],
         stmt[b].phase # "running", HeldBy(s) = NothingHeld
  PROVE  UNCHANGED Abstract!vars
<1>1. HeldBy(s) = HeldBy(stmt[b])
  BY HoldsNothing
<1>2. \A o \in Backends : HeldBy(stmt'[o]) = HeldBy(stmt[o])
  BY <1>1, OneStatementChanges
<1> QED
  BY <1>2, StutterStep

LEMMA StartAndUnchargedImplement ==
  ASSUME RInv, NEW b \in Backends,
         \/ Start(b) \/ AdmitUncharged(b) \/ RejectOverBudget(b) \/ RejectOverBurst(b)
         \/ BucketCapacityExhausted(b) \/ FinishUntracked(b)
  PROVE  UNCHANGED Abstract!vars
<1>1. TypeOK /\ stmt[b] \in Statement
  BY DEF RInv, IInv, TypeOK
<1>2. HeldBy(IdleStatement) = NothingHeld
  BY HoldsNothing DEF IdleStatement
<1>3. CASE Start(b)
  <2>1. PICK policy \in PolicyConfigs \cup {NoPolicy}, scope \in Scopes, predicted \in Predictions :
          stmt' = [stmt EXCEPT ![b] =
                 [IdleStatement EXCEPT !.phase = "admit", !.policy = policy,
                    !.scope = scope, !.predicted = predicted, !.now = wall]]
    BY <1>3 DEF Start
  <2> DEFINE s == [IdleStatement EXCEPT !.phase = "admit", !.policy = policy,
                    !.scope = scope, !.predicted = predicted, !.now = wall]
  <2>2. s.phase = "admit"
    BY DEF IdleStatement
  <2> HIDE DEF s
  <2>3. HeldBy(s) = NothingHeld
    BY <2>2, HoldsNothing
  <2>4. stmt' = [stmt EXCEPT ![b] = s] /\ UNCHANGED buckets /\ stmt[b].phase # "running"
    BY <1>3, <2>1 DEF Start, s
  <2> QED
    BY <1>1, <2>3, <2>4, UnheldStep
<1>4. CASE AdmitUncharged(b)
  <2> DEFINE s == Running(stmt[b], "Allowed", 0)
  <2>1. s.charged = 0
    BY <1>1 DEF Running, Statement
  <2> HIDE DEF s
  <2>2. HeldBy(s) = NothingHeld
    BY <2>1 DEF HeldBy, HoldsCharge
  <2>3. stmt' = [stmt EXCEPT ![b] = s] /\ UNCHANGED buckets /\ stmt[b].phase # "running"
    BY <1>4 DEF AdmitUncharged, s
  <2> QED
    BY <1>1, <2>2, <2>3, UnheldStep
<1>5. CASE RejectOverBudget(b) \/ RejectOverBurst(b) \/ FinishUntracked(b)
  <2>1. /\ stmt' = [stmt EXCEPT ![b] = IdleStatement] /\ UNCHANGED buckets
        /\ stmt[b].phase # "running"
    BY <1>5 DEF RejectOverBudget, RejectOverBurst, FinishUntracked, Attempting
  <2> QED
    BY <1>1, <1>2, <2>1, UnheldStep
<1>6. CASE BucketCapacityExhausted(b)
  <2> DEFINE s == [IdleStatement EXCEPT !.phase = IF FailOpen THEN "untracked" ELSE "idle"]
  <2>1. s.phase # "running"
    BY DEF IdleStatement
  <2>2. /\ stmt' = [stmt EXCEPT ![b] = s] /\ UNCHANGED buckets
        /\ stmt[b].phase # "running"
    BY <1>6 DEF BucketCapacityExhausted, Attempting
  <2> HIDE DEF s
  <2>3. HeldBy(s) = NothingHeld
    BY <2>1, HoldsNothing
  <2> QED
    BY <1>1, <2>2, <2>3, UnheldStep
<1> QED
  BY <1>3, <1>4, <1>5, <1>6

LEMMA WaitImplements ==
  ASSUME RInv, NEW b \in Backends, Wake(b) \/ LatchSet(b) \/ CancelQueued(b)
  PROVE  UNCHANGED Abstract!vars
<1>1. TypeOK /\ stmt[b] \in Statement
  BY DEF RInv, IInv, TypeOK
<1>2. stmt[b].phase = "queued" /\ UNCHANGED buckets
  BY DEF Wake, LatchSet, CancelQueued
<1>3. PICK s : stmt' = [stmt EXCEPT ![b] = s] /\ s.phase # "running"
  <2>1. CASE Wake(b)
    <3>1. [stmt[b] EXCEPT !.phase = "retry", !.now = wall].phase # "running"
      BY <1>1 DEF Statement
    <3> QED
      BY <2>1, <3>1 DEF Wake
  <2>2. CASE LatchSet(b)
    <3> DEFINE s == [stmt[b] EXCEPT !.sleep = @ - Smaller(@, SleepChunkMs)]
    <3>1. s.phase # "running"
      BY <1>1, <1>2 DEF Statement
    <3>2. stmt' = [stmt EXCEPT ![b] = s]
      BY <2>2 DEF LatchSet
    <3> QED
      BY <3>1, <3>2
  <2>3. CASE CancelQueued(b)
    BY <2>3 DEF CancelQueued, IdleStatement
  <2> QED
    BY <2>1, <2>2, <2>3
<1>4. HeldBy(s) = NothingHeld
  BY <1>3, HoldsNothing
<1> QED
  BY <1>1, <1>2, <1>3, <1>4, UnheldStep

\* Time takes from the sleep of a statement and leaves its charge alone.
LEMMA TimeImplements ==
  ASSUME RInv, Tick \/ ClockStepBack \/ Finished \/ UNCHANGED vars
  PROVE  UNCHANGED Abstract!vars
<1>1. UNCHANGED buckets
  BY DEF Tick, ClockStepBack, Finished, vars
<1>2. \A b \in Backends : HeldBy(stmt'[b]) = HeldBy(stmt[b])
  <2>1. CASE UNCHANGED stmt
    BY <2>1
  <2>2. CASE Tick
    <3> SUFFICES ASSUME NEW b \in Backends PROVE HeldBy(stmt'[b]) = HeldBy(stmt[b])
      OBVIOUS
    <3>1. stmt[b] \in Statement
      BY DEF RInv, IInv, TypeOK
    <3>2. PICK sleep : stmt'[b] = [stmt[b] EXCEPT !.sleep = sleep]
      BY <2>2 DEF Tick
    <3>3. /\ stmt'[b].phase = stmt[b].phase /\ stmt'[b].kind = stmt[b].kind
          /\ stmt'[b].charged = stmt[b].charged /\ stmt'[b].policy = stmt[b].policy
          /\ stmt'[b].scope = stmt[b].scope
      BY <3>1, <3>2 DEF Statement
    <3> QED
      BY <3>3 DEF HeldBy, HoldsCharge, Key
  <2> QED
    BY <2>1, <2>2 DEF ClockStepBack, Finished, vars
<1> QED
  BY <1>1, <1>2, StutterStep

LEMMA NextImplements == RInv /\ [Next]_vars => [Abstract!Next]_(Abstract!vars)
<1> SUFFICES ASSUME RInv, [Next]_vars PROVE [Abstract!Next]_(Abstract!vars)
  OBVIOUS
<1>1. ASSUME NEW b \in Backends, Attempt(b)
      PROVE  [Abstract!Next]_(Abstract!vars)
  BY <1>1, StartAndUnchargedImplement, ShadowImplements, ChargeImplements, QueueImplements
     DEF Attempt
<1>2. ASSUME NEW b \in Backends,
             \/ Start(b) \/ FinishUntracked(b)
             \/ Wake(b) \/ LatchSet(b) \/ CancelQueued(b)
      PROVE  [Abstract!Next]_(Abstract!vars)
  BY <1>2, StartAndUnchargedImplement, WaitImplements
<1>3. ASSUME NEW b \in Backends, StatementEnds(b)
      PROVE  [Abstract!Next]_(Abstract!vars)
  BY <1>3, EndImplements
<1>4. CASE CrashRestart
  BY <1>4, RestartImplements DEF Abstract!Next
<1>5. CASE Tick \/ ClockStepBack \/ Finished \/ UNCHANGED vars
  BY <1>5, TimeImplements
<1> QED
  BY <1>1, <1>2, <1>3, <1>4, <1>5 DEF Next

\* Every behaviour of the admission, queue and settlement code, seen through
\* its occupied buckets, their available bytes and the charges of running
\* statements, is a behaviour of the abstract budget: whatever modes, stale
\* readings, policy edits, waits, aborts and restarts interleave
\* (apply_budget_bucket, admit_context, reconcile_completed_statement).
THEOREM AbstractBudgetImplemented == Spec => ImplementsAbstractBudget
<1>1. RInv /\ [Next]_vars => [Abstract!Next]_(Abstract!vars)
  BY NextImplements
<1> QED
  BY RInvInit, RInvNext, InitImplements, <1>1, PTL
     DEF Spec, ImplementsAbstractBudget, Abstract!Spec
=============================================================================
