---------------------------- MODULE MCAddressMap ----------------------------
EXTENDS AddressMap, TLC

Symmetry == Permutations(Address)
=============================================================================
