CONSTANTS
  Oblocks = {o1, o2, o3, o4, o5, o6}
  CacheSize = 4
  MetaSize = 2
  StatModulus = 2
  Removals = {FALSE, TRUE}
  Null = Null
SPECIFICATION LirsSpec
SYMMETRY Symmetry
INVARIANTS LirsListsSound LirsQuietNeverFaults
PROPERTIES LirsImplementsPolicy
CHECK_DEADLOCK FALSE
