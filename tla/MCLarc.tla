------------------------------ MODULE MCLarc -------------------------------
EXTENDS Larc
Symmetry == Permutations(Oblocks)
============================================================================
