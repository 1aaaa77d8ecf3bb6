CONSTANTS
  x1 = x1  x2 = x2  p1 = p1  p2 = p2
  NoXid = NoXid  NoPage = NoPage
  Xids = {x1, x2}
  Pages = {p1}
  UseNTA = FALSE
  UsePrepare = FALSE
  UseSoftCommit = TRUE
  LogType = "safe_writes"
  MaxClient = 3
  MaxCrashes = 2
SPECIFICATION LogsSpec
SYMMETRY Symmetry
CHECK_DEADLOCK FALSE
INVARIANTS TypeOK PagesReflectLog PagesCurrent Durability SafeWritesAtomic
PROPERTIES SoftCommitAtomic
