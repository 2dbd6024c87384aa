SPECIFICATION Spec
CONSTANTS
  Procs = {p1, p2}
  Names <- TheNames
  Nameless = ""
  Examples = {"example"}
  Who <- TheWho
  Files <- TwoFiles
  Trees <- TheTrees
  Lines <- TheLines
  NamesIn <- TheNamesIn
  Replies <- TheReplies
  Session = alice
  Unset = Unset
  CliAtHost = CliAtHost
  AtSigns = {}
  Limit = 2
  MaxCommands = 3
  MaxEdits = 1
SYMMETRY AnyProcess
CHECK_DEADLOCK FALSE
INVARIANTS
  TreeIsReadWhole
  ReadAsWritten
  LedgerIsTrue
  ClosesTheRest
