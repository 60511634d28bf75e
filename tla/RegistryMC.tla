----------------------------- MODULE RegistryMC -----------------------------
EXTENDS Registry, TLC
MCHashValue == 0..3
Symmetry == Permutations(Pipe)
=============================================================================
