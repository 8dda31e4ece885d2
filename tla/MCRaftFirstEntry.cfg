SPECIFICATION Spec
CONSTANTS
  Node = {n1, n2, n3}
  None = None
  Timely = TRUE
  MaxElection = 2
  MaxSend = 4
  MaxLog = 1
  MaxCrash = 0
  MaxPause = 0
  MaxCut = 0
SYMMETRY NodeSymmetry
INVARIANTS
  StateMachineSafety
CHECK_DEADLOCK FALSE
