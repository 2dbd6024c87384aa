SPECIFICATION Spec
CONSTANTS
  Procs = {p1, p2}
  MaxRequests = 2
  MaxTries = 1
  MaxStrikes = 1
  MaxWedged = 0
  Legacy = TRUE
  NoFile = NoFile
  Torn = Torn
CHECK_DEADLOCK FALSE
INVARIANT
  OpensWithItsOwnVectors
