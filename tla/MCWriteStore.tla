---------------------------- MODULE MCWriteStore ----------------------------
\* writeStore on a small instance: three concurrent calls, two databases.
EXTENDS WriteStore, TLC

MCSymmetry == Permutations(Writers) \cup Permutations(TempNames)
                 \cup Permutations(Contents)
=============================================================================
