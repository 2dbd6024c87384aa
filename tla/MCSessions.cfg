SPECIFICATION Spec
CONSTANTS
  Clients = {a, b}
  Threads = {t1, t2}
  Versions = {"2024-11-05", "2025-11-25"}
  Newest = "2025-11-25"
  Asked = {"2024-11-05", "2026-07-28"}
  Nobody = Nobody
  MaxSessions = 2
  Idle = 2
  HandshakesAtOnce = 1
  MaxClock = 2
  MaxMinted = 3
SYMMETRY AnyOfThem
CHECK_DEADLOCK FALSE
INVARIANTS
  RunsAsItself
  UseKeepsAlive
  NoDeadRows
