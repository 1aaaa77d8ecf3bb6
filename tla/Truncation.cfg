CONSTANTS
  NoPage = NoPage
  Threads = {t1, t2}
  Pages = {p1}
  LogType = "safe_writes"
  MinIncrement = 0
  LSN_T_MAX = 20
  MaxLSN = 2
SPECIFICATION Spec
SYMMETRY Symmetry
CHECK_DEADLOCK FALSE
INVARIANTS UpdatesKept
PROPERTIES IncrementKeepsUndo
