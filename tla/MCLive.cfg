CONSTANTS
  None = None
  w1 = w1  w2 = w2  c1 = c1  c2 = c2  f1 = f1
  Writers = {w1, w2}
  Consumers = {c1}
  Flushers = {f1}
  Closer = closer
  N = 4
  Sizes = {1}
  ConsumeSize = 2
  InitialOffset = 1
  MaxOffset = 5
SPECIFICATION LiveSpec
CHECK_DEADLOCK FALSE
INVARIANTS WaitsExact
PROPERTIES ReserveReturns FlushReturns ShutdownDrains CallsReturn ReturnsKept
