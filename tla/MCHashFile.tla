----------------------------- MODULE MCHashFile -----------------------------
EXTENDS HashFile, TLC
Symmetry == Permutations(Clients) \cup Permutations(Pool)
=============================================================================
