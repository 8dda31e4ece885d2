SPECIFICATION Spec
CONSTANTS
  Request = {r1, r2}
  Reading = {}
  Refused = {}
  Foreign = {e1}
  None = None
  MaxLog = 1
  MaxChange = 1
  MaxSpurious = 0
INVARIANT SuccessMeansExecuted
\* The requests are finitely many: the server stops when all are answered.
CHECK_DEADLOCK FALSE
