CONSTANTS
  Oblocks = {o1, o2, o3, o4, o5, o6}
  CacheSize = 3
  GhostDivisor = 3
  PhaseBound = 9
  MayFilter = FALSE
  FailsEarly = TRUE
  Null = Null
SPECIFICATION MarcSpec
SYMMETRY Symmetry
INVARIANTS MarcGhostsFit MarcCountersSound
 
