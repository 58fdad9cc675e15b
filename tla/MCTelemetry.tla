---------------------------- MODULE MCTelemetry ----------------------------
(* Instances of Telemetry for TLC. *)
EXTENDS Telemetry

BackendSymmetry == Permutations(Backends)
BothSymmetries == Permutations(Backends) \cup Permutations(ScopeKeys)
=============================================================================
