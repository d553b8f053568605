------------------------------- MODULE MCFomo ------------------------------
EXTENDS Fomo
Symmetry == Permutations(Oblocks)
============================================================================
