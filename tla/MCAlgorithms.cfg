SPECIFICATION Spec
CONSTANTS
  N = 4
  Rules <- MCRules
  Blocks <- MCBlocks
  Blocking = TRUE
  ReviewAt = 1
  MatchAt = 4
  Given <- MCGiven
  Tokens = {"x", "y", "z"}
  Spellings <- MCSpellings
  Phrases <- MCPhrases
  ProseNames <- MCProseNames
  Histories <- MCHistories
  ReadAt = {0, 1, 2, 3, 4}
  MsPerDay = 3
  Spans <- MCSpans
  Cycles <- MCCycles
  Attributes = {1, 2, 3, 4, 5}
  Contested = {2, 3}
  Batch = 4
  Absent = Absent
  Silent = Silent
  Forever = Forever
  Size <- MCSize
  Orders <- MCOrders
  Values = {"it"}
  NoOne = NoOne
  Holders = {h}
  ValidTimes = {1, 2, 3}
  KnownTimes = {1, 2}
  Supersessions = {"corrects"}
  MaxVersions = 3
  Ids = {0, 1, 2}
  Predicates = {p, q}
  Times = {1, 2}
  Instants = {1, 2}
  Intervals <- TwoInstants
  MaxSaid = 2
  Snapshots <- SomeSnapshots
  Walks <- SomeWalks
SYMMETRY AnyPredicate
CHECK_DEADLOCK FALSE
INVARIANTS
  ResolvesExactly
  SimilarityIsFair
  DaysAndDatesAgree
  AnswersAddUp
  AnswersFollowTheRule
  ReadersAgree
  Reopens
  WalksAreExact
PROPERTIES
  PastBeliefIsSettled
  ResolvingChangesNoAnswer
  ImplementsEdgeFacts
