---------------------------- MODULE SharedLayout ----------------------------
(***************************************************************************)
(* The segment of shared memory: a header and four arrays behind each      *)
(* other (src/shmem/layout.rs).  Its capacities are settings that are read *)
(* when the server starts; the postmaster lays it out, allocates it and    *)
(* zeroes it, again after a crash (src/shmem/mod.rs); and backends write   *)
(* single records through slices of it.                                    *)
(***************************************************************************)
EXTENDS Integers, FiniteSets

CONSTANTS
  HeaderSize,  \* size_of PwbSharedState
  ItemSize,    \* of each array: the size of its records
  Alignment,   \* and their alignment
  MaxUsize,    \* the largest usize
  Settings,    \* values of pwb.shmem_capacity
  Specific,    \* values of the capacity settings of the arrays
  MaxWrites    \* bound on the records that are in use

\* The arrays in the order of the segment: recent decisions, profiles, budget
\* buckets, scope names.
Arrays == 1..4

\* The setting of an array that inherits pwb.shmem_capacity.
Inherit == -1

ASSUME SizeAssumption ==
  /\ HeaderSize \in Nat \ {0} /\ MaxUsize \in Nat /\ MaxWrites \in Nat
  /\ ItemSize \in [Arrays -> Nat \ {0}]
  /\ Alignment \in [Arrays -> Nat \ {0}]
\* Alignments are powers of two no larger than the range of usize.
ASSUME AlignmentAssumption ==
  \A array \in Arrays : (MaxUsize + 1) % Alignment[array] = 0
ASSUME SettingsAssumption ==
  Settings \subseteq Nat /\ Specific \subseteq Nat \cup {Inherit}

-----------------------------------------------------------------------------
(* compute_layout, in numbers that do not overflow.                        *)

\* align_up: rounds up to a multiple of the alignment, a power of two
AlignUp(value, alignment) ==
  alignment * ((value + (alignment - 1)) \div alignment)

\* An array begins at the next offset that its alignment allows.
Offset(array, from) == AlignUp(from, Alignment[array])

\* Mutant: the last record of an array is forgotten.
EndShort(array, from, capacity) ==
  Offset(array, from) + (IF capacity = 0 THEN 0 ELSE capacity - 1) * ItemSize[array]

End(array, from, capacity) == Offset(array, from) + capacity * ItemSize[array]

\* What is in front of each array, and behind the last: compute_layout's
\* `offset' before it is aligned.
Behind(capacities) ==
  LET b1 == HeaderSize
      b2 == End(1, b1, capacities[1])
      b3 == End(2, b2, capacities[2])
      b4 == End(3, b3, capacities[3])
      b5 == End(4, b4, capacities[4])
  IN  <<b1, b2, b3, b4, b5>>

\* Mutant: the scope names are put where the budget buckets begin.
OffsetOfShared(capacities, array) ==
  LET of == IF array = 4 THEN 3 ELSE array IN Offset(of, Behind(capacities)[of])

OffsetOf(capacities, array) == Offset(array, Behind(capacities)[array])
TotalBytes(capacities) == Behind(capacities)[5]

\* Mutant: an alignment is added where one less would do.
FitsNarrowly(capacities) ==
  /\ \A array \in Arrays :
       /\ Behind(capacities)[array] + Alignment[array] <= MaxUsize
       /\ capacities[array] * ItemSize[array] <= MaxUsize
  /\ \A array \in 2..5 : Behind(capacities)[array] <= MaxUsize

\* checked_add and checked_mul: no intermediate result overflows
Fits(capacities) ==
  /\ \A array \in Arrays :
       /\ Behind(capacities)[array] + (Alignment[array] - 1) <= MaxUsize
       /\ capacities[array] * ItemSize[array] <= MaxUsize
  /\ \A array \in 2..5 : Behind(capacities)[array] <= MaxUsize

\* specific_or_legacy_capacity
Capacity(setting, shmemCapacity) ==
  IF setting = Inherit THEN shmemCapacity ELSE setting

\* The bytes of a record in its array (slice_from_region_mut).
Bytes(capacities, array, slot) ==
  LET from == OffsetOf(capacities, array) + slot * ItemSize[array]
  IN  from..(from + ItemSize[array] - 1)

-----------------------------------------------------------------------------

VARIABLES
  shmemCapacity,  \* pwb.shmem_capacity
  specific,       \* the setting of each array
  phase,          \* of the server
  layout,         \* REQUESTED_LAYOUT: its capacities
  memory,         \* what each byte of the segment was last written for
  written         \* the records that were written

vars == <<shmemCapacity, specific, phase, layout, memory, written>>
settings == <<shmemCapacity, specific>>

Zero == <<"zero">>
Header == <<"header">>

\* The capacities that the settings ask for.
Configured == [array \in Arrays |-> Capacity(specific[array], shmemCapacity)]
NoLayout == [array \in Arrays |-> 0]

Init ==
  /\ shmemCapacity \in Settings /\ specific \in [Arrays -> Specific]
  /\ phase = "starting" /\ layout = NoLayout
  /\ memory = <<>> /\ written = {}

\* shmem_request
Request ==
  /\ phase = "starting" /\ Fits(Configured)
  /\ phase' = "requested" /\ layout' = Configured
  /\ UNCHANGED <<settings, memory, written>>

\* The computation overflows: raise_startup_error
Refuse ==
  /\ phase = "starting" /\ ~Fits(Configured)
  /\ phase' = "refused"
  /\ UNCHANGED <<settings, layout, memory, written>>

\* shmem_startup and initialize_state, with a segment that was not found
Startup ==
  /\ phase = "requested"
  /\ phase' = "running"
  /\ memory' = [byte \in 0..(TotalBytes(layout) - 1) |->
                  IF byte < HeaderSize THEN Header ELSE Zero]
  /\ UNCHANGED <<settings, layout, written>>

\* A record is written under the lock, through the slice of its array.
Write(array, slot) ==
  /\ phase = "running" /\ slot < layout[array]
  /\ Cardinality(written \cup {<<array, slot>>}) <= MaxWrites
  /\ memory' = [byte \in DOMAIN memory \cup Bytes(layout, array, slot) |->
                  IF byte \in Bytes(layout, array, slot) THEN <<array, slot>>
                  ELSE memory[byte]]
  /\ written' = written \cup {<<array, slot>>}
  /\ UNCHANGED <<settings, phase, layout>>

\* A backend crashes: the postmaster allocates a new segment, for the same
\* request.
Reinitialize ==
  /\ phase = "running"
  /\ phase' = "requested" /\ memory' = <<>> /\ written' = {}
  /\ UNCHANGED <<settings, layout>>

\* The server stops, or could not start, and is started with other settings.
Restart(capacity, capacities) ==
  /\ phase \in {"running", "refused"}
  /\ shmemCapacity' = capacity /\ specific' = capacities
  /\ phase' = "starting" /\ layout' = NoLayout
  /\ memory' = <<>> /\ written' = {}

Next ==
  \/ Request \/ Refuse \/ Startup \/ Reinitialize
  \/ \E array \in Arrays : \E slot \in 0..(layout[array] - 1) : Write(array, slot)
  \/ \E capacity \in Settings, capacities \in [Arrays -> Specific] :
       Restart(capacity, capacities)

Spec == Init /\ [][Next]_vars

-----------------------------------------------------------------------------

\* The segment is exactly as long as it was requested: no record reaches
\* behind it.
TypeOK ==
  /\ shmemCapacity \in Settings /\ specific \in [Arrays -> Specific]
  /\ phase \in {"starting", "requested", "refused", "running"}
  /\ layout \in [Arrays -> Nat]
  /\ written \subseteq UNION {{array} \X (0..(layout[array] - 1)) : array \in Arrays}
  /\ phase = "running" => DOMAIN memory = 0..(TotalBytes(layout) - 1)

\* The header and every record keep all their bytes whatever other records are
\* written: the offsets and lengths that compute_layout gives the slices leave
\* no overlap, for any capacities, those of zero included.
NothingClobbered ==
  phase = "running" =>
    /\ \A byte \in 0..(HeaderSize - 1) : memory[byte] = Header
    /\ \A record \in written :
         \A byte \in Bytes(layout, record[1], record[2]) : memory[byte] = record

\* The server refuses to start only with capacities whose segment cannot be
\* addressed, and lays out none of those: the checked arithmetic of
\* compute_layout, which fails at an intermediate result, is exact.
RefusedExactlyWhenTooLarge ==
  /\ phase = "refused" => TotalBytes(Configured) > MaxUsize
  /\ phase = "requested" => TotalBytes(layout) <= MaxUsize
=============================================================================
