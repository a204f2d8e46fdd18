\* The call while another CPU takes a process from the queue.
CONSTANTS
  Proc <- Procs
  priority <- priorities
  MAX_QUEUE_SIZE = 4
  Killed = {}
  Other = {cpu}
  InitQueues <- OneQueue
  NOBODY = nobody
  Scenarios = {"both"}
SPECIFICATION Spec
INVARIANT NobodyLost
