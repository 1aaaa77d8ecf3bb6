CONSTANTS
  Threads = {t1, t2}
  Worker = worker
  Pages = {p1, p2}
  Frames = {f1, f2, f3}
  NoFrame = NoFrame  NoPage = NoPage
  Policy = "clock"
SPECIFICATION ClockSpec
SYMMETRY Symmetry
CHECK_DEADLOCK FALSE
INVARIANTS NoAbort
