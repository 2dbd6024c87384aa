SPECIFICATION Spec
CONSTANTS
  Mcp = mcp
  Cli = cli
  Procs = {mcp, cli}
  Attempts = 3
  BaseDelay = 1
  MaxDelay = 2
  Hints = {2, 3}
  MaxTexts = 1
  MaxChunks = 2
  Legacy <- MCLegacy
  Structured <- MCStructured
  Offered <- MCOffered
  Clients = {"ann", "bob", cli}
  Nobody = Nobody
  Messages <- MCMessages
  CliCommands = {"reindex", "ingest"}
  MaxLines = 3
  MaxCalls = 1
  MaxCommands = 1
CHECK_DEADLOCK FALSE
INVARIANTS
  AsksPatiently
  OneAnswerEach
  SignedByItsClient
PROPERTIES
  VectorsOfOneKind
  RequestsEnd
