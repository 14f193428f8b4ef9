----------------------------- MODULE MCRegistry -----------------------------
EXTENDS Registry, TLC

Symmetry == Permutations(Id) \cup Permutations(Object) \cup Permutations(Single)
=============================================================================
