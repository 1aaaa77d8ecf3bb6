CONSTANTS
  None = None
  w1 = w1  w2 = w2  c1 = c1  c2 = c2  f1 = f1
  Writers = {w1, w2}
  Consumers = {c1, c2}
  Flushers = {f1}
  Closer = closer
  N = 4
  Sizes = {1, 2}
  ConsumeSize = 2
  InitialOffset = 1
  MaxOffset = 6
SPECIFICATION RingSpec
SYMMETRY Symmetry
CHECK_DEADLOCK FALSE
INVARIANTS PointersOrdered BytesIntact ReadersDisjoint
PROPERTIES TailsAdvance
