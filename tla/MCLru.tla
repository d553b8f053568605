------------------------------- MODULE MCLru -------------------------------
EXTENDS Lru
Symmetry == Permutations(Oblocks)
============================================================================
