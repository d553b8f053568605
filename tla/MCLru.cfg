CONSTANTS
  Oblocks = {o1, o2, o3, o4}
  CacheSize = 3
  StatModulus = 3
  Null = Null
SPECIFICATION LruSpec
SYMMETRY Symmetry
INVARIANTS EntryInOnePlace PoolCountersExact NoAssertionFails
PROPERTIES ImplementsPolicy OnlyAccessedBlockIsOvertaken
