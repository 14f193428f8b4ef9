----------------------------- MODULE MCMetadata -----------------------------
EXTENDS Metadata, TLC

Symmetry == Permutations(Id) \cup Permutations(Object) \cup Permutations(Key)
            \cup Permutations(Pair) \cup Permutations(Addr)
=============================================================================
