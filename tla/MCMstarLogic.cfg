CONSTANTS
  TABU = 2
  WordModulus = 65536
  RequestBound = 206
  HitBound = 3
  AdaptBound = 3
SPECIFICATION MstarLogicSpec
PROPERTIES MstarLogicImplementsPhases MstarTransitionEffects
CHECK_DEADLOCK FALSE
