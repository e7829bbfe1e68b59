----------------------------- MODULE MCVarSync -----------------------------
(* VarSync for TLC: clients and variables are model values that may be      *)
(* swapped; values are not, one of them is what variables are created with. *)
EXTENDS VarSync, TLC

Symmetry == Permutations(Clients) \cup Permutations(Vars)
=============================================================================
