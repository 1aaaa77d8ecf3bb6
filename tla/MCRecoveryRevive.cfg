CONSTANTS
  x1 = x1  x2 = x2  p1 = p1  p2 = p2
  NoXid = NoXid  NoPage = NoPage
  Xids = {x1}
  Pages = {p1}
  UseNTA = FALSE
  UsePrepare = TRUE
  UseSoftCommit = FALSE
  LogType = "safe_writes"
  MaxClient = 4
  MaxCrashes = 2
SPECIFICATION OneSpec
CHECK_DEADLOCK FALSE
PROPERTIES AbortedStaysAborted
