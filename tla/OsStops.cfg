\* A CPU that is idle when the loader finishes never looks at done again.
CONSTANTS
  c1 = c1
  c2 = c2
  c3 = c3
  CPU <- TwoCPUs
  ld = ld
  Proc <- Procs3
  num_processes = 3
  start_time <- start3
  prio <- prio3
  priority <- priority3
  codeSize <- size3
  MAX_PRIO = 2
  MAX_QUEUE_SIZE = 3
  time_slot = 2
  TIME_MOD = 10
SPECIFICATION Spec
PROPERTY CPUsStop
