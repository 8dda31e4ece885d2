SPECIFICATION CalmSpec
CONSTANTS
  Node = {n1, n2, n3, n4}
  Members = {n1, n2, n3}
  None = None
  Changes <- SomebodyStays
  MaxTerm = 2
  MaxData = 2
  MaxChange = 1
  MaxRestart = 1
INVARIANTS
  TypeOK
  CountedHaveRights
  Agree
  OneLeaderPerTerm
  NewestLeaderComplete
  
  NewOnNewMajority
CHECK_DEADLOCK FALSE
