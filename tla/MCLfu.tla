------------------------------- MODULE MCLfu -------------------------------
EXTENDS Lfu
Symmetry == Permutations(Oblocks)
============================================================================
