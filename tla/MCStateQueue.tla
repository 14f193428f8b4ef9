---------------------------- MODULE MCStateQueue ----------------------------
EXTENDS StateQueue, TLC
=============================================================================
