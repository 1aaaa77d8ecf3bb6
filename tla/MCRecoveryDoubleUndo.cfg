CONSTANTS
  x1 = x1  x2 = x2  p1 = p1  p2 = p2
  NoXid = NoXid  NoPage = NoPage
  Xids = {x1}
  Pages = {p1}
  UseNTA = TRUE
  UsePrepare = FALSE
  UseSoftCommit = FALSE
  LogType = "safe_writes"
  MaxClient = 3
  MaxCrashes = 2
SPECIFICATION OneSpec
SYMMETRY Symmetry
CHECK_DEADLOCK FALSE
INVARIANTS UndoneOnce
