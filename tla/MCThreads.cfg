CONSTANTS
  None = None
  Threads = {1, 2}
  MaxTransactions = 2
  Prepared = {1}
  Garbage <- UninitializedLSN
  MaxLSN = 1
SPECIFICATION SpecAll
VIEW View
CHECK_DEADLOCK FALSE
INVARIANTS SlotExclusive EntriesDisjoint ScanHonoursRunning SharedSound LogsSound
  
