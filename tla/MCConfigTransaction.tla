------------------------ MODULE MCConfigTransaction ------------------------
(* ConfigTransaction for TLC: operations and administrators are symmetric. *)
EXTENDS ConfigTransaction, TLC

Symmetry == Permutations(Ops) \cup Permutations(Admins)
=============================================================================
