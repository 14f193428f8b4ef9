------------------------------ MODULE MCMemory ------------------------------
EXTENDS MemoryCheckpoint
=============================================================================
