\* Three CPUs, four programs on two levels, queues just long enough.
CONSTANTS
  c1 = c1
  c2 = c2
  c3 = c3
  CPU <- ThreeCPUs
  ld = ld
  Proc <- Procs4
  num_processes = 4
  start_time <- start4
  prio <- prio4
  priority <- priority4
  codeSize <- size4
  MAX_PRIO = 2
  MAX_QUEUE_SIZE = 3
  time_slot = 2
  TIME_MOD = 10
SPECIFICATION Spec
INVARIANTS
  TypeOK
  ExclusiveOwner
  NothingLost
  WorkConserving
  StoppedMeansDrained
PROPERTIES
  DispatcherRefined
  AllFinish
