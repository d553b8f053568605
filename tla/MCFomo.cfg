CONSTANTS
  Oblocks = {o1, o2, o3, o4}
  CacheSize = 3
  StatModulus = 1
  Null = Null
  PeriodDivisor = 1
  HitWeight = 1000
  ReuseThreshold = 600
SPECIFICATION FomoSpec
SYMMETRY Symmetry
INVARIANTS FomoSound
PROPERTIES FailChangesNothing FilterAdmitsOnlyReused FomoVictimAsAnnounced
