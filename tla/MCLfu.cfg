CONSTANTS
  Oblocks = {o1, o2, o3, o4, o5, o6, o7}
  CacheSize = 6
  WordModulus = 8
  MaxKey = 2
  MaxTime = 1
  Null = Null
SPECIFICATION LfuSpec
SYMMETRY Symmetry
PROPERTIES LfuEvictsLeastFrequent LfuCountsEveryRequest
