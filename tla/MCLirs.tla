------------------------------ MODULE MCLirs -------------------------------
EXTENDS Lirs
Symmetry == Permutations(Oblocks)
============================================================================
