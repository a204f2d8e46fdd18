\* Two CPUs and the loader; the clock wraps after four slots.
CONSTANTS
  N = 3
  TIME_MOD = 4
SPECIFICATION Spec
INVARIANTS
  TypeOK
  NoLostWakeup
  NoErasedArrival
  LockStep
  TimerOutlivesDevices
PROPERTIES
  ClockRefined
  NextSlotReturns
  MainReturns
