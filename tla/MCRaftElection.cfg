SPECIFICATION ElectionSpec
CONSTANTS
  Node = {n1, n2, n3}
  None = None
  Timely = FALSE
  MaxElection = 3
  MaxSend = 1
  MaxLog = 1
  MaxCrash = 1
  MaxPause = 1
  MaxCut = 1
SYMMETRY NodeSymmetry
INVARIANTS
  TypeOK
  LeaderNameWon
  VotePersisted
  OneVotePerTerm
  PersistBeforeSend
  FreshElectionSafety
CHECK_DEADLOCK FALSE
