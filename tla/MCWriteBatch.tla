----------------------------- MODULE MCWriteBatch -----------------------------
EXTENDS WriteBatch, TLC
Symmetry == Permutations(Owners)
=============================================================================
