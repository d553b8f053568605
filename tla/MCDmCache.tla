----------------------------- MODULE MCDmCache -----------------------------
EXTENDS DmCache
Symmetry == Permutations(Oblocks) \cup Permutations(Mappers)
SomeFaults == {{}, {"copy"}, {"copy", "clash"}}
============================================================================
