------------------------------ MODULE MC_Pool ------------------------------
EXTENDS Pool, TLC

CONSTANTS t1, t2, k1, k2

MCThreads == {t1, t2}
MCKeys == {k1, k2}

\* Threads and keys are interchangeable in every safety property.
MCSymmetry == Permutations(MCThreads) \cup Permutations(MCKeys)
=============================================================================
