---------------------------- MODULE MCDbLifecycle ----------------------------
EXTENDS DbLifecycle, TLC

CONSTANTS i1, i2, s1, c1, l1

\* i2 is an iterator over the column family c1, when there is one.
MCCfOf == [i \in Itrs |-> IF i = i2 /\ c1 \in Cfs THEN c1 ELSE NoCf]

Symmetry == Permutations(Threads)
=============================================================================
