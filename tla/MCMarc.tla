------------------------------ MODULE MCMarc -------------------------------
EXTENDS Marc
Symmetry == Permutations(Oblocks)
============================================================================
