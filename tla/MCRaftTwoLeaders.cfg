SPECIFICATION Spec
CONSTANTS
  Node = {n1, n2, n3}
  None = None
  Timely = FALSE
  MaxElection = 3
  MaxSend = 0
  MaxLog = 0
  MaxCrash = 0
  MaxPause = 0
  MaxCut = 0
SYMMETRY NodeSymmetry
INVARIANTS
  ElectionSafety
CHECK_DEADLOCK FALSE
