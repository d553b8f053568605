CONSTANTS
  Oblocks = {o1, o2, o3, o4}
  CacheSize = 2
  StatModulus = 1
  Null = Null
  Mappers = {t1, t2}
  Writes = {FALSE, TRUE}
  Modes = {"writeback", "passthrough"}
  FaultSets <- SomeFaults
  HasHistory = TRUE
  UseTick = TRUE
  TickModulus = 2
SPECIFICATION DmSpec
SYMMETRY Symmetry
INVARIANTS  BindingSound MigrationsMatchPolicy InflightIsMoving
CHECK_DEADLOCK FALSE
