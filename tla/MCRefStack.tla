----------------------------- MODULE MCRefStack -----------------------------
EXTENDS RefStackStore, TLC

Symmetry == Permutations(Node) \cup Permutations(Handle) \cup Permutations(Value)
            \cup Permutations(Key)
=============================================================================
