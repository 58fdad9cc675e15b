---------------------------- MODULE ProfileCache ----------------------------
(***************************************************************************)
(* The shared array of query profiles under its lock                       *)
(* (src/shmem/profiles.rs) and the predictions made from it                *)
(* (src/profile.rs): statements of several backends record what they       *)
(* wrote, a restore merges rows of the durable table, an admin resets the  *)
(* array.  Every operation holds the lock, so each is one step.            *)
(***************************************************************************)
EXTENDS ProfileTable

CONSTANTS
  Actuals,       \* bytes of WAL that a statement may write
  DefaultWrite,  \* pwb.default_write_wal_bytes
  DefaultUtility, \* pwb.default_utility_wal_bytes
  MaxPrediction, \* pwb.max_prediction_bytes
  MaxTime,       \* bound on the clock
  MaxRows,       \* rows that one restore merges; load_profiles limits them
  MaxOperations  \* bound on the length of a run

ASSUME CacheAssumption ==
  /\ Capacity > 0 /\ 0 \notin Queries /\ Actuals \subseteq Nat
  /\ DefaultWrite \in Nat /\ DefaultUtility \in Nat /\ MaxPrediction \in Nat
  /\ MaxTime \in Nat /\ MaxRows \in 0..Capacity /\ MaxOperations \in Nat

VARIABLES
  profiles,   \* the array of profiles
  len,        \* profiles_len
  dirty,      \* profile_dirty_count
  learned,    \* history: what the last step observed, if it did
  operations  \* operations so far

vars == <<profiles, len, dirty, learned, operations>>

\* What load_profiles may return: distinct keys, the newest first.
Rows ==
  {[key |-> key, profile |-> NewProfile(actual, time)] :
     key \in Keys, actual \in Actuals, time \in 0..MaxTime}
RowSequences ==
  {rows \in UNION {[1..n -> Rows] : n \in 0..MaxRows} :
     \A i, j \in DOMAIN rows :
       i < j => /\ rows[i].key # rows[j].key
                /\ rows[i].profile.lastSeen >= rows[j].profile.lastSeen}

\* Mutant: profiles_len grows with every insertion, evictions included.
GrownOnEviction(table) ==
  len + Cardinality(KeysOf(table) \ KeysOf(profiles))

\* profiles_len grows with every insertion into a free slot.
Grown(table) ==
  Smaller(len + Cardinality(Occupied(table)) - Cardinality(Occupied(profiles)),
          Capacity)

Bounded == operations < MaxOperations /\ operations' = operations + 1

Init ==
  /\ profiles = EmptyTable
  /\ len = 0 /\ dirty = 0 /\ learned = <<>> /\ operations = 0

\* upsert_scoped_and_global_query_profiles; `now' was read before the lock was
\* taken, so it may be older than what another backend has recorded.
Observe(scope, query, actual, now) ==
  /\ Bounded
  /\ profiles' = UpsertScopedAndGlobal(profiles, scope, query, actual, now)
  /\ len' = Grown(profiles')
  /\ dirty' = Smaller(dirty + 1, MaxU64)
  /\ learned' = [scope |-> scope, query |-> query, actual |-> actual, now |-> now,
                 latest |-> \A slot \in Occupied(profiles) :
                              profiles[slot].profile.lastSeen < now]

\* finish_profile_restore
Restore(rows) ==
  /\ Bounded
  /\ profiles' = RestoreAll(profiles, rows)
  /\ len' = Grown(profiles')
  /\ learned' = <<>>
  /\ UNCHANGED dirty

\* reset_profiles
Reset ==
  /\ Bounded
  /\ profiles' = EmptyTable
  /\ len' = 0 /\ dirty' = 0 /\ learned' = <<>>

Next ==
  \/ \E scope \in Scopes, query \in Queries, actual \in Actuals,
       now \in 0..MaxTime : Observe(scope, query, actual, now)
  \/ \E rows \in RowSequences : Restore(rows)
  \/ Reset

Spec == Init /\ [][Next]_vars

-----------------------------------------------------------------------------
(* Predictions. *)

Predictors == {"profile_ewma", "statement_class_fallback"}

\* fallback_wal_bytes_for_class
FallbackWalBytesForClass(class) ==
  CASE class = "read only" -> 0
    [] class = "write" -> DefaultWrite
    [] class \in {"utility", "copy", "unknown"} -> DefaultUtility

\* Mutant: any profile of the query is used.
LookupPredictionProfileOfAnyScope(scope, query) ==
  LookupScopedOrGlobal(profiles, Global, query)

\* lookup_prediction_profile: nothing is known of a statement without a query
\* id (0), whose observations are not recorded either.
LookupPredictionProfile(scope, query) ==
  IF query = 0 THEN {} ELSE LookupScopedOrGlobal(profiles, scope, query)

\* predict_context
PredictContext(predictor, class, scope, query) ==
  LET means == {p.ewma : p \in LookupPredictionProfile(scope, query)}
  IN  CASE class = "read only" -> 0
        [] class # "read only" /\ predictor = "profile_ewma" /\ means # {} ->
             Smaller(CHOOSE mean \in means : TRUE, MaxPrediction)
        [] OTHER -> Smaller(FallbackWalBytesForClass(class), MaxPrediction)

-----------------------------------------------------------------------------
(* Properties. *)

\* The array holds entries and free slots, and profiles_len counts the
\* entries, whichever of its slots were filled, evicted and cleared.
TypeOK ==
  /\ profiles \in [Slots -> Entry \cup {Free}]
  /\ len = Cardinality(Occupied(profiles))
  /\ dirty \in 0..MaxU64

\* find_profile_slot takes the first match, so an entry behind another one of
\* its key would never be read or updated again: no sequence of insertions,
\* evictions and merges makes two entries of one key.
OneEntryPerKey ==
  \A slot, other \in Occupied(profiles) :
    profiles[slot].key = profiles[other].key => slot = other

\* A learned mean lies between the smallest measurement and the largest one
\* that its own entry saw: rounding down on every statement does not let it
\* drift, and an eviction does not leave the maximum of another key.
MeanWithinMeasured ==
  \A slot \in Occupied(profiles) :
    LET profile == profiles[slot].profile
    IN  /\ profile.ewma <= profile.max /\ profile.max \in Actuals
        /\ \E actual \in Actuals : actual <= profile.ewma

\* The next statement of a scope finds what the last one taught.  Recording
\* the global entry may evict the scoped one that was just recorded (an array
\* of one slot, a clock that went back, a full array within a millisecond);
\* then the lookup still finds the global profile that includes the
\* observation, and when the observation is the latest and there is room for
\* two its scope's own profile is kept.
ObservationIsFound ==
  learned # <<>> =>
    /\ \E profile \in LookupScopedOrGlobal(profiles, learned.scope, learned.query) :
         profile.lastSeen = learned.now
    /\ learned.latest /\ Capacity > 1 =>
         SlotsOfKey(profiles, <<learned.scope, learned.query>>) # {}

Between(x, y, z) == (x <= y /\ y <= z) \/ (z <= y /\ y <= x)

LearnsApart ==
  operations' # operations /\ learned' # <<>> =>
    \A predictor \in Predictors, class \in {"write", "utility"},
       scope \in Scopes, query \in Queries \cup {0} :
      LET before == PredictContext(predictor, class, scope, query)
          after == PredictContext(predictor, class, scope, query)'
          own == <<scope, query>>
      IN  IF own = <<learned'.scope, learned'.query>>
            THEN Between(before, after, Smaller(learned'.actual, MaxPrediction))
            ELSE own \in KeysOf(profiles) \cap KeysOf(profiles') =>
                   before = after

\* A statement teaches the predictions of its own scope and query, and not
\* those of the scopes that have profiles of their own: its own next prediction
\* lies between the last one and what it wrote, neither staying away from it
\* nor overshooting.  That holds whether the last one came from its scope's
\* profile, from everybody's or from the class, whichever entries the
\* observation evicts, whatever the clock and the rounding do, and for the
\* clamped values too (predict_context, upsert_scoped_and_global_query_profiles).
PredictionsLearnApart == [][LearnsApart]_vars

-----------------------------------------------------------------------------
(* The mapping to AbstractProfileCache. *)

MapOf(table) == [key \in KeysOf(table) |-> table[First(SlotsOfKey(table, key))].profile]
Known == MapOf(profiles)

Abstract == INSTANCE AbstractProfileCache WITH known <- Known

\* The array, with its search, its free slots and its evictions, is the map
\* that AbstractProfileCache promises.
ImplementsAbstractProfileCache == Abstract!Spec

=============================================================================
