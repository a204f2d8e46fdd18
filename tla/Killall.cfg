\* Every queue of up to four processes: the call alone, and the scheduler's own
\* accesses without it.
CONSTANTS
  Proc <- Procs
  priority <- priorities
  MAX_QUEUE_SIZE = 4
  Killed = {1}
  Other = {cpu1, cpu2}
  InitQueues <- AllQueues
  NOBODY = nobody
  Scenarios = {"call", "others"}
SPECIFICATION Spec
INVARIANTS
  SurvivorsKept
  OrderKept
  NobodyLost
