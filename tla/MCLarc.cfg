CONSTANTS
  Oblocks = {o1, o2, o3, o4, o5, o6, o7}
  CacheSize = 2
  MetaSize = 6
  GhostDivisor = 4
  StatModulus = 1
  Null = Null
  Writes = {FALSE, TRUE}
SPECIFICATION LarcSpec
SYMMETRY Symmetry
INVARIANTS LarcSound
PROPERTIES LarcImplementsPolicy LarcAdmitsOnlyGhosts
