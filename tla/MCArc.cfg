CONSTANTS
  Oblocks = {o1, o2, o3, o4, o5}
  CacheSize = 2
  MetaSize = 2
  StatModulus = 1
  Null = Null
  Callers <- SomeCallers
  Writes = {FALSE, TRUE}
SPECIFICATION ArcSpec
SYMMETRY Symmetry
INVARIANTS ArcNoAssertionFails ArcSound
PROPERTIES ArcImplementsPolicy ArcVictimAsAnnounced
CHECK_DEADLOCK FALSE
