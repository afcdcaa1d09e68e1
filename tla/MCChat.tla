------------------------------- MODULE MCChat -------------------------------
EXTENDS Chat

(* Which request is which does not matter. *)
Symmetry == Permutations(Request)
=============================================================================
