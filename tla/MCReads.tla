------------------------------- MODULE MCReads -------------------------------
EXTENDS Reads, TLC
Symmetry == Permutations(Folders)
=============================================================================
