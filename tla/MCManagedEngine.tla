--------------------------- MODULE MCManagedEngine ---------------------------
(* Model-checking instance of ManagedEngine. *)
EXTENDS ManagedEngine, TLC

OpSymmetry == Permutations(Ops)
\* Bound: failed writes and outside writes are at most two together.
TwoMishaps == faults + drifts <= 2
=============================================================================
