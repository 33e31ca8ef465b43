---------------------------------- MODULE SaleMC ----------------------------------
(* Sale for TLC: buyers are interchangeable. *)
EXTENDS Sale, TLC

Symmetry == Permutations(Buyers)

=================================================================================
