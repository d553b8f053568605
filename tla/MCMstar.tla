------------------------------ MODULE MCMstar ------------------------------
EXTENDS Mstar
Symmetry == Permutations(Oblocks)
============================================================================
