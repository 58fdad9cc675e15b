---------------------------- MODULE AbstractBudget ----------------------------
(***************************************************************************)
(* What the WAL budget of pg_wal_budget promises, with no locks, queues,   *)
(* modes or clocks: each (policy, scope) has a credit that time raises at  *)
(* a bounded rate up to a bounded burst; a statement runs metered only     *)
(* while it holds credit that was taken out; and what it holds is given    *)
(* back at most once, and never more than it took.                         *)
(***************************************************************************)
EXTENDS Integers

CONSTANTS
  Backends,
  Keys,           \* the (policy, scope) pairs
  BurstCeiling,   \* [Keys -> most credit an account can hold]
  RateCeiling     \* [Keys -> most credit an account earns in a second]

VARIABLES
  open,    \* accounts in use
  credit,  \* per account: bytes that may be taken
  until,   \* per account: the instant up to which time has been credited
  held     \* per backend: the charge of its running statement

vars == <<open, credit, until, held>>

Charge == [key: Keys, bytes: Nat]
NoCharge == [key |-> CHOOSE k \in Keys : TRUE, bytes |-> 0]

Init ==
  /\ open = {}
  /\ credit = [k \in Keys |-> 0]
  /\ until = [k \in Keys |-> 0]
  /\ held = [b \in Backends |-> NoCharge]

\* The most account k can hold at instant t; a new account starts full.
MostCredit(k, t) ==
  IF k \in open
  THEN LET earned == (RateCeiling[k] * (t - until[k])) \div 1000
       IN  IF credit[k] + earned <= BurstCeiling[k]
           THEN credit[k] + earned ELSE BurstCeiling[k]
  ELSE BurstCeiling[k]

\* Account k is brought forward to until'[k], and `bytes' are taken from it.
Withdraw(k, bytes) ==
  /\ open' = open \cup {k}
  /\ \A j \in Keys \ {k} : credit'[j] = credit[j] /\ until'[j] = until[j]
  /\ k \in open => until'[k] >= until[k]
  /\ credit'[k] \in 0..(MostCredit(k, until'[k]) - bytes)

\* Time or an edited policy changes an account; nobody is charged.
Adjust(k) == Withdraw(k, 0) /\ UNCHANGED held

\* A backend that holds nothing takes credit that is there.
Grant(b, k) ==
  /\ held[b].bytes = 0
  /\ held'[b].key = k /\ held'[b].bytes > 0
  /\ \A o \in Backends \ {b} : held'[o] = held[o]
  /\ Withdraw(k, held'[b].bytes)

\* The charge of b ends; at most that much returns, and only to its account.
Settle(b) ==
  LET k == held[b].key
  IN  /\ held[b].bytes > 0
      /\ held' = [held EXCEPT ![b] = NoCharge]
      /\ \A j \in Keys \ {k} : credit'[j] = credit[j]
      /\ credit'[k] \in credit[k]..(credit[k] + held[b].bytes)
      /\ credit'[k] <= BurstCeiling[k]
      /\ UNCHANGED <<open, until>>

\* A restart forgets every account and every charge.
Restart ==
  /\ open' = {}
  /\ credit' = [k \in Keys |-> 0]
  /\ until' = [k \in Keys |-> 0]
  /\ held' = [b \in Backends |-> NoCharge]

Next ==
  \/ \E k \in Keys : Adjust(k)
  \/ \E b \in Backends, k \in Keys : Grant(b, k)
  \/ \E b \in Backends : Settle(b)
  \/ Restart

Spec == Init /\ [][Next]_vars
==============================================================================
