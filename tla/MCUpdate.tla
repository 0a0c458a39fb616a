------------------------------ MODULE MCUpdate ------------------------------
\* Update on small instances: registry lists in the order of ieee.RegistryFiles.
EXTENDS Update, TLC

TwoFiles == <<"MA-L", "MA-S">>
ThreeFiles == <<"MA-L", "MA-S", "CID">>

MCSymmetry == Permutations(Procs) \cup Permutations(Origins)
=============================================================================
