SPECIFICATION Spec
CONSTANTS
  Ids = {0, 1, 2}
  Attributes = {"a"}
  Fields = {"name", "mail"}
  Values = {1, 2}
  Blocking = {"name", "mail"}
  Mentions <- Namesakes
  Score <- MCScore
  ReviewAt = 2
  MatchAt = 3
  NoOne = NoOne
  Tombstone = Tombstone
  MaxEdges = 1
  MaxAssertions = 3
  MaxLog = 2
INVARIANT
  RejectedStaySettled
