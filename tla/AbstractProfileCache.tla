------------------------ MODULE AbstractProfileCache ------------------------
(***************************************************************************)
(* What the profile cache promises: a map from (scope or global, query) to *)
(* what was learned, that keeps the most recently seen when it is full.    *)
(* ProfileCache implements it with the array of src/shmem/profiles.rs.     *)
(***************************************************************************)
EXTENDS ProfileTable  \* for the profile record and the keys

CONSTANTS Actuals, MaxTime, MaxRows, MaxOperations

VARIABLE known  \* the profile of every key that is known

Put(map, key, profile) ==
  [k \in DOMAIN map \cup {key} |-> IF k = key THEN profile ELSE map[k]]

Without(map, key) == [k \in DOMAIN map \ {key} |-> map[k]]

LeastRecent(map) ==
  {key \in DOMAIN map :
     \A other \in DOMAIN map : map[key].lastSeen <= map[other].lastSeen}

\* The maps that may follow when one key is observed: a known key learns, a
\* new one takes room or the place of any key that was seen least recently.
Learned(map, key, actual, now) ==
  IF key \in DOMAIN map
    THEN {Put(map, key, RecordObservation(map[key], actual, now))}
  ELSE IF Cardinality(DOMAIN map) < Capacity
    THEN {Put(map, key, NewProfile(actual, now))}
  ELSE {Put(Without(map, victim), key, NewProfile(actual, now)) :
          victim \in LeastRecent(map)}

\* Of a live profile and a restored one the newer; the restored one in a tie.
Newer(live, rows, key) ==
  IF key \notin DOMAIN rows THEN live[key]
  ELSE IF key \notin DOMAIN live THEN rows[key]
  ELSE IF live[key].lastSeen > rows[key].lastSeen THEN live[key] ELSE rows[key]

\* The newest of what is live and what was restored, as many as fit.
Merged(live, rows, result) ==
  LET all == DOMAIN live \cup DOMAIN rows
  IN  /\ DOMAIN result \subseteq all
      /\ Cardinality(DOMAIN result) = Smaller(Cardinality(all), Capacity)
      /\ \A key \in DOMAIN result : result[key] = Newer(live, rows, key)
      /\ \A key \in DOMAIN result, dropped \in all \ DOMAIN result :
           Newer(live, rows, dropped).lastSeen <= result[key].lastSeen

Init == known = [key \in {} |-> {}]

Observe(scope, query, actual, now) ==
  \E scoped \in Learned(known, <<scope, query>>, actual, now) :
    known' \in Learned(scoped, <<Global, query>>, actual, now)

\* Rows are a map: the durable table has one row per key.
Restore(rows) == Merged(known, rows, known')

Reset == known' = [key \in {} |-> {}]

RowMaps ==
  UNION {[keys -> [calls : {1}, ewma : Actuals, max : Actuals, lastSeen : 0..MaxTime]] :
           keys \in {ks \in SUBSET Keys : Cardinality(ks) <= MaxRows}}

Next ==
  \/ \E scope \in Scopes, query \in Queries, actual \in Actuals,
       now \in 0..MaxTime : Observe(scope, query, actual, now)
  \/ \E rows \in RowMaps : Restore(rows)
  \/ Reset

Spec == Init /\ [][Next]_known
=============================================================================
