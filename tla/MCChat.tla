------------------------------- MODULE MCChat -------------------------------
EXTENDS Chat, TLC
Symmetry == Permutations(Slots)
=============================================================================
