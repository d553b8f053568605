----------------------------- MODULE MCDmTarget ----------------------------
EXTENDS DmTarget, TLC
SomeFaults == {{"copy", "crash"}, {"metadata"}, {"commit"}}
Symmetry == Permutations(Oblocks) \cup Permutations(Bios)

Busy == {b \in Bios : bios[b].at # "idle"}

\* What is explored.  Two bios of any kind may overlap; while they do, or after
\* them, a third may read.  After a restart the bios that are left come one at a
\* time, of any kind.
Explored ==
  /\ restarts = 0 => \A b \in Busy : bios[b].v = MaxSubmits => bios[b].op = "read"
  /\ restarts > 0 => Cardinality(Busy) <= 1
============================================================================
