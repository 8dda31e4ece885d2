SPECIFICATION FairSpec
CONSTANTS
  Request = {r1, r2, r3}
  Reading = {r3}
  Refused = {r2}
  Foreign = {e1}
  None = None
  MaxLog = 1
  MaxChange = 3
  MaxSpurious = 1
INVARIANTS
  TypeOK
  OneSuccessPerEntry
PROPERTIES
  EveryRequestAnswered
\* The requests are finitely many: the server stops when all are answered.
CHECK_DEADLOCK FALSE
