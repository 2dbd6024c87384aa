SPECIFICATION Spec
CONSTANTS
  a = a
  b = b
  c1 = c1
  c2 = c2
  Star = Star
  Blank = Blank
  Nowhere = Nowhere
  Absent = Absent
  Configured <- Standpoints
  Clients = {c1, c2}
  Decides <- SomeDecides
  Rescopes <- SomeRescopes
  Notes <- OtherNotes
  Legacy <- OneLegacy
  Similarity <- Overlap
  Queries <- SomeQueries
  Boost = 2
  MaxClock = 3
  MaxCommands = 3
SYMMETRY Processes
CHECK_DEADLOCK FALSE
INVARIANT RetiredChoiceFalls
