CONSTANTS
  Oblocks = {o1, o2}
  Cblocks = {c1}
  Bios = {b1, b2}
  Modes = {"writeback", "writethrough", "passthrough"}
  Ops = {"read", "write", "fua", "flush", "discard"}
  FaultSets <- SomeFaults
  MaxSubmits = 3
  MaxRestarts = 1
  Null = Null
SPECIFICATION TargetSpec
INVARIANTS    NobodyStuck
 
CONSTRAINT Explored
SYMMETRY Symmetry
CHECK_DEADLOCK FALSE
