SPECIFICATION StorageSpec
CONSTANTS
  Procs = {p1, p2}
  MaxRequests = 2
  MaxTries = 2
  MaxStrikes = 2
  MaxWedged = 1
  Legacy = TRUE
  NoFile = NoFile
  Torn = Torn
  Ids <- MCIds
  Raw <- MCRaw
  Vecs <- MCVecs
  Prepare <- MCPrepare
  Queries = {"near", "boost"}
  Score <- MCScore
  MaxK = 3
  Files <- MCFiles
CHECK_DEADLOCK FALSE
INVARIANTS
  NoLostUpdate
  AnswersAreTrue
  ImageAgrees
PROPERTIES
  ImplementsSerialStore
  EveryCommandEnds
  ImplementsVectorMap
