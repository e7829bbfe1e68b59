----------------------------- MODULE MCLTDict -----------------------------
EXTENDS LTDict, TLC

Symmetry == Permutations(KeySet) \cup Permutations(Items)
=============================================================================
