------------------------------- MODULE MCArc -------------------------------
EXTENDS Arc
Symmetry == Permutations(Oblocks)
SomeCallers == {{}, {FALSE, TRUE}}
============================================================================
