-------------------------- MODULE AbstractTelemetry --------------------------
(***************************************************************************)
(* What the telemetry promises: the newest decisions in the order they     *)
(* were recorded, and how often each scope was seen, for the scopes that   *)
(* came first.  No slots, no ring, no sequence of locked sections.         *)
(***************************************************************************)
EXTENDS Naturals, Sequences, SequencesExt, FiniteSets

CONSTANTS Records, ScopeKeys, LogCapacity, NameLimit, MaxNumber

VARIABLES
  log,     \* the newest decisions, the newest last
  number,  \* how many were recorded since the numbering began
  seen,    \* how often each known scope was seen
  drops    \* how often an unknown scope was

vars == <<log, number, seen, drops>>

Newest(records) ==
  IF Len(records) > LogCapacity THEN Tail(records) ELSE records

\* Once in MaxNumber records the numbering begins again with an empty log.
Log(record) ==
  IF LogCapacity = 0 THEN UNCHANGED <<log, number>>
  ELSE IF number = MaxNumber THEN log' = <<record>> /\ number' = 1
  ELSE log' = Newest(Append(log, record)) /\ number' = number + 1

AtMost(n) == IF n < MaxNumber THEN n ELSE MaxNumber

Init == log = <<>> /\ number = 0 /\ seen = [scope \in {} |-> 0] /\ drops = 0

\* A statement of a scope is decided on.
Decide(record, scope) ==
  /\ Log(record)
  /\ \/ /\ scope \in DOMAIN seen \/ Cardinality(DOMAIN seen) < NameLimit
        /\ seen' = [s \in DOMAIN seen \cup {scope} |->
                      IF s # scope THEN seen[s]
                      ELSE IF s \in DOMAIN seen THEN AtMost(seen[s] + 1) ELSE 1]
        /\ UNCHANGED drops
     \/ /\ scope \notin DOMAIN seen /\ Cardinality(DOMAIN seen) = NameLimit
        /\ drops' = AtMost(drops + 1)
        /\ UNCHANGED seen

\* A statement completes, or is let through after an internal error.
Note(record) == Log(record) /\ UNCHANGED <<seen, drops>>

Reset == log' = <<>> /\ number' = 0 /\ seen' = [scope \in {} |-> 0] /\ drops' = 0

Next ==
  \/ \E record \in Records, scope \in ScopeKeys : Decide(record, scope)
  \/ \E record \in Records : Note(record)
  \/ Reset

Spec == Init /\ [][Next]_vars

=============================================================================
