-------------------------- MODULE MCStreamLifecycle --------------------------
EXTENDS StreamLifecycle, TLC
Symm == Permutations(Primaries) \cup Permutations(Streams) \cup Permutations(Inputs)
=============================================================================
