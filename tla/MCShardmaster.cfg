SPECIFICATION Spec
CONSTANTS
  Gid = {g1, g2, g3, g4}
  NShards = 3
  Client = {c1}
  MaxSeq = 4
SYMMETRY GidSymmetry
INVARIANTS
  TypeOK
PROPERTIES
  OnlyExtended
  ShardsServed
  JoinTakesSurplus
\* A callback that reads newGids[0] of an empty vector ends the process.
CHECK_DEADLOCK FALSE
