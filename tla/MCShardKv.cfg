SPECIFICATION Spec
CONSTANTS
  Gid = {g1, g2}
  NoGid = nobody
  Shard = {s1}
  Name = {k1, k2}
  Wired = FALSE
  Op = {"append"}
  MaxConfig = 2
  MaxQueue = 2
  MaxEvents = 2
SYMMETRY Symmetry
INVARIANTS
  HistoryInOrder
  OneOwner
  LatestKept
\* The bounds end every behaviour, and a mutex that is never given back does.
CHECK_DEADLOCK FALSE
