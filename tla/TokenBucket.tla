----------------------------- MODULE TokenBucket -----------------------------
(***************************************************************************)
(* The arithmetic of one WAL budget bucket, as src/budget.rs and           *)
(* src/shmem/transactions.rs compute it: the initial bucket, the policy    *)
(* refresh, the refill, the charge, the wait of a queued statement, the    *)
(* refund and the debt.  Amounts are WalBytes (u64): additions that the    *)
(* code writes saturating_add saturate at MaxBytes, and the products that  *)
(* it widens to u128 are exact.  Instants are epoch milliseconds.          *)
(***************************************************************************)
EXTENDS Integers

CONSTANT MaxBytes        \* WalBytes::MAX

ASSUME MaxBytesAssumption == MaxBytes \in Nat \ {0}

Bytes == 0..MaxBytes

\* A slot of the bucket array; a slot that was never written is all zeros.
Bucket == [occupied: BOOLEAN, available: Bytes, max_burst: Bytes,
           rate: Bytes, last_refill: Nat, debt: Bytes]

EmptySlot == [occupied |-> FALSE, available |-> 0, max_burst |-> 0,
              rate |-> 0, last_refill |-> 0, debt |-> 0]

Smaller(a, b) == IF a <= b THEN a ELSE b

SaturatingAdd(a, b) == Smaller(a + b, MaxBytes)

InitialBucketState(policy, now) ==
  [occupied |-> TRUE, available |-> policy.burst, max_burst |-> policy.burst,
   rate |-> policy.rate, last_refill |-> now, debt |-> 0]

RefreshBucketPolicy(bucket, policy) ==
  [bucket EXCEPT !.max_burst = policy.burst,
                 !.rate      = policy.rate,
                 !.available = Smaller(@, policy.burst)]

\* Whole bytes earned in an interval; the fraction of a byte is not kept.
Refill(rate, elapsed) == Smaller((rate * elapsed) \div 1000, MaxBytes)

\* Mutant: the refill time is not moved when bytes are credited.
RefillKeepingStamp(bucket, now) ==
  IF now <= bucket.last_refill THEN bucket
  ELSE [bucket EXCEPT !.available =
          Smaller(SaturatingAdd(@, Refill(bucket.rate, now - bucket.last_refill)),
                  bucket.max_burst)]

\* Mutant: the refill time always becomes the reading, even an older one.
RefillWithoutClockGuard(bucket, now) ==
  LET elapsed == IF now > bucket.last_refill THEN now - bucket.last_refill ELSE 0
  IN  [bucket EXCEPT
         !.available   = Smaller(SaturatingAdd(@, Refill(bucket.rate, elapsed)),
                                 bucket.max_burst),
         !.last_refill = now]

\* A reading of the clock that is not after the last refill, and an interval
\* too short to earn a byte, leave the amount and the refill time alone.
RefillAvailableBytes(bucket, now) ==
  LET refill == Refill(bucket.rate, now - bucket.last_refill)
  IN  IF now <= bucket.last_refill \/ refill = 0
      THEN bucket
      ELSE [bucket EXCEPT
              !.available   = Smaller(SaturatingAdd(@, refill), bucket.max_burst),
              !.last_refill = now]

RefreshBucket(bucket, policy, now) ==
  RefillAvailableBytes(RefreshBucketPolicy(bucket, policy), now)

\* Mutant: one byte too many is affordable.
CanAffordOffByOne(available, predicted) == predicted <= available + 1

CanAfford(available, predicted) == predicted <= available

ChargeAvailable(bucket, predicted) == [bucket EXCEPT !.available = @ - predicted]

\* Milliseconds after which `deficit' more bytes have been earned, rounded up.
\* The code reports an internal error for a zero rate; validated policies have
\* none (validate_policy_budget_update), so the rate is positive here.  The
\* saturation of the result at u64::MAX milliseconds, which no clock reaches,
\* is left out.
WaitMsForDeficit(deficit, rate) ==
  IF deficit = 0 THEN 0 ELSE (deficit * 1000 + rate - 1) \div rate

\* Mutant: the refund is not clamped to the burst.
RefundUnclamped(bucket, bytes) ==
  [bucket EXCEPT !.available = SaturatingAdd(@, bytes)]

RefundBudgetCharge(bucket, bytes) ==
  [bucket EXCEPT !.available = Smaller(SaturatingAdd(@, bytes), bucket.max_burst)]

RecordBudgetDebt(bucket, bytes) ==
  [bucket EXCEPT !.debt = SaturatingAdd(@, bytes)]
==============================================================================
