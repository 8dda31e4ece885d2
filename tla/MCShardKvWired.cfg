SPECIFICATION Spec
CONSTANTS
  Gid = {g1, g2}
  NoGid = nobody
  Shard = {s1}
  Name = {k1}
  Wired = TRUE
  Op = {"append"}
  MaxConfig = 3
  MaxQueue = 1
  MaxEvents = 2
SYMMETRY Symmetry
INVARIANTS
  TypeOK
  OwnersAssigned
  OneOwner
  ServedUpToDate
  AtMostOnce
  LatestKept
\* The bounds end every behaviour, and a mutex that is never given back does.
CHECK_DEADLOCK FALSE
