CONSTANTS
  Oblocks = {o1, o2, o3, o4, o5, o6}
  CacheSize = 3
  TABU = 3
  GhostDivisor = 3
  MayFilter = FALSE
  FailsEarly = TRUE
  Null = Null
SPECIFICATION MstarSpec
SYMMETRY Symmetry
INVARIANTS MstarGhostsFit
PROPERTIES MstarAdmission
CHECK_DEADLOCK FALSE
