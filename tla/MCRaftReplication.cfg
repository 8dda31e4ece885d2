SPECIFICATION ReplicationSpec
CONSTANTS
  Node = {n1, n2, n3}
  None = None
  Timely = TRUE
  MaxElection = 4
  MaxSend = 8
  MaxLog = 3
  MaxCrash = 0
  MaxPause = 0
  MaxCut = 0
SYMMETRY NodeSymmetry
VIEW TimelyView
INVARIANTS
  ElectionSafety
  StateMachineSafety
  LeaderCompleteness
  AppliedOnMajority
  LogMatching
  MatchIndexTrue
PROPERTIES
  CommitMovesWithLog
  
  GivesOneLog
CHECK_DEADLOCK FALSE
