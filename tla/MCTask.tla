------------------------------- MODULE MCTask -------------------------------
EXTENDS Task, TLC
Symmetry == Permutations(Workers) \cup Permutations(Fragments)
=============================================================================
