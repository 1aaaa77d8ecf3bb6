CONSTANTS
  NoPage = NoPage
  Threads = {t1, t2}
  Pages = {p1}
  LogType = "file_pool"
  MinIncrement = 0
  LSN_T_MAX = 20
  MaxLSN = 3
SPECIFICATION Spec
SYMMETRY Symmetry
CHECK_DEADLOCK FALSE
INVARIANTS UpdatesKept
