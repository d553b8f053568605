CONSTANTS
  Oblocks = {o1, o2, o3, o4}
  CacheSize = 2
  StatModulus = 1
  Null = Null
  PeriodDivisor = 1
  HitWeight = 1000
  ReuseThreshold = 600
  Options <- Supported
SPECIFICATION FairSimSpec
INVARIANTS SimSound
PROPERTIES MigrationsEnd FailuresEnd
