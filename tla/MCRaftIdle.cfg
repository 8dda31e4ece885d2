SPECIFICATION Spec
CONSTANTS
  Node = {n1, n2, n3}
  None = None
  Timely = FALSE
  MaxElection = 4
  MaxSend = 0
  MaxLog = 0
  MaxCrash = 1
  MaxPause = 0
  MaxCut = 0
SYMMETRY NodeSymmetry
INVARIANTS
  SomebodyActs
CHECK_DEADLOCK FALSE
