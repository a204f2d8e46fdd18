---------------------------- MODULE TimerProofs ----------------------------
(***************************************************************************)
(* Proofs about Timer.tla, for any number of devices and any width of the  *)
(* clock.                                                                  *)
(*                                                                         *)
(* The safety properties rest on one inductive invariant, IInv: what each  *)
(* phase of main() implies (Phases), what the two flags say about where a  *)
(* device thread is (Flags), and what timer_routine knows of the devices   *)
(* its cursor has passed (Scanned, Releasing, Exited).                     *)
(***************************************************************************)
EXTENDS Timer, TLAPS

\* What main() has done so far bounds what the threads can have done.
Phases ==
  /\ main = "attach" => /\ tpc = "unborn"
                        /\ temp = NULL
                        /\ time = 0
                        /\ \A d \in Device : dpc[d] = "unborn" /\ slots[d] = 0
  /\ tpc = "unborn" => main = "attach"
  /\ main \in {"spawn", "join", "stop"} => dev_list = N
  /\ main \in {"stop", "end"} => \A d \in Device : dpc[d] = "exited"
  /\ timer_stop => main \in {"stop", "end"}
  /\ main = "end" => tpc = "exited"

\* A device's flags follow its thread: only a waiting device has done set.
Flags ==
  \A d \in Device :
    /\ fsh[d] <=> dpc[d] = "exited"
    /\ done[d] => dpc[d] \in {"await", "asleep"}
    /\ dpc[d] = "asleep" => done[d]

\* The devices the scan has passed (those above the cursor) wait or have left, and
\* the two counters agree only if all of them have left.
Scanned ==
  tpc \in {"scan", "asleep"} =>
    /\ nevent = N - temp
    /\ nfsh \leq nevent
    /\ \A d \in Device : d > temp => done[d] \/ fsh[d]
    /\ nfsh = nevent => \A d \in Device : d > temp => fsh[d]
    /\ tpc = "asleep" => temp # NULL /\ ~ done[temp] /\ ~ fsh[temp]

\* The devices not yet released still wait, or have left.
Releasing ==
  tpc = "release" =>
    /\ \A d \in Device : d \leq temp => done[d] \/ fsh[d]
    /\ nfsh = nevent => \A d \in Device : fsh[d]

Exited == tpc = "exited" => \A d \in Device : fsh[d]

IInv == TypeOK /\ Phases /\ Flags /\ Scanned /\ Releasing /\ Exited

-----------------------------------------------------------------------------
LEMMA IncType == ASSUME NEW t \in 0 .. TIME_MOD - 1
                 PROVE  Inc(t) \in 0 .. TIME_MOD - 1
  BY TimeModulus DEF Inc

LEMMA InitIInv == Init => IInv
<1> SUFFICES ASSUME Init PROVE IInv
  OBVIOUS
<1> USE NAssumption, TimeModulus DEF Init, Device, NULL
<1>1. TypeOK
  <2>1. 0 \in 0 .. N /\ 0 \in 0 .. TIME_MOD - 1
    OBVIOUS
  <2>2. /\ done \in [Device -> BOOLEAN]
        /\ fsh \in [Device -> BOOLEAN]
    BY Zenon
  <2> QED
    BY <2>1, <2>2 DEF TypeOK
<1>2. Phases
  BY DEF Phases
<1>3. Flags
  BY DEF Flags
<1>4. Scanned /\ Releasing /\ Exited
  BY DEF Scanned, Releasing, Exited
<1> QED
  BY <1>1, <1>2, <1>3, <1>4 DEF IInv

\* IInv is inductive: one step per action, and under it the parts it can disturb.
LEMMA NextIInv == IInv /\ [Next]_vars => IInv'
<1> SUFFICES ASSUME IInv, [Next]_vars PROVE IInv'
  OBVIOUS
<1> USE NAssumption, TimeModulus DEF Device, NULL, Loader
<1>1. CASE attach_event
  BY <1>1 DEF attach_event, IInv, TypeOK, Phases, Flags, Scanned, Releasing, Exited,
     timerVars
<1>2. CASE start_timer
  BY <1>2 DEF start_timer, IInv, TypeOK, Phases, Flags, Scanned, Releasing, Exited, devVars
<1>3. ASSUME NEW d \in Device, spawn(d) PROVE IInv'
  BY <1>3 DEF spawn, IInv, TypeOK, Phases, Flags, Scanned, Releasing, Exited, timerVars
<1>4. CASE join_devices
  BY <1>4 DEF join_devices, IInv, TypeOK, Phases, Flags, Scanned, Releasing, Exited,
     timerVars, devVars
<1>5. CASE stop_timer
  BY <1>5 DEF stop_timer, IInv, TypeOK, Phases, Flags, Scanned, Releasing, Exited,
     timerVars, devVars
<1>6. CASE free_list
  BY <1>6 DEF free_list, IInv, TypeOK, Phases, Flags, Scanned, Releasing, Exited,
     timerVars, devVars
<1>7. CASE timer_loop
  BY <1>7 DEF timer_loop, IInv, TypeOK, Phases, Flags, Scanned, Releasing, Exited,
     mainVars, devVars
<1>8. CASE timer_scan
  <2> USE <1>8 DEF timer_scan, mainVars, devVars
  <2>1. /\ tpc' = "scan" /\ temp \in Device /\ temp' = temp - 1
        /\ nevent = N - temp /\ nfsh \leq nevent
    BY DEF IInv, TypeOK, Scanned, next
  <2>2. TypeOK'
    BY <2>1 DEF IInv, TypeOK
  <2>3. Phases' /\ Flags'
    BY <2>1 DEF IInv, Phases, Flags
  <2>4. Scanned'
    <3>1. nevent' = N - temp' /\ nfsh' \leq nevent'
      BY <2>1 DEF IInv, TypeOK
    <3>2. \A d \in Device : d > temp' => d = temp \/ d > temp
      BY <2>1
    <3>3. \A d \in Device : d > temp' => done'[d] \/ fsh'[d]
      BY <3>2, <2>1 DEF IInv, Scanned
    <3>4. nfsh' = nevent' => fsh[temp] /\ nfsh = nevent
      BY <2>1 DEF IInv, TypeOK
    <3>5. nfsh' = nevent' => \A d \in Device : d > temp' => fsh'[d]
      BY <3>2, <3>4 DEF IInv, Scanned
    <3> QED
      BY <3>1, <3>3, <3>5, <2>1 DEF Scanned
  <2>5. Releasing' /\ Exited'
    BY <2>1 DEF Releasing, Exited
  <2> QED
    BY <2>2, <2>3, <2>4, <2>5 DEF IInv
<1>9. CASE timer_sleep
  BY <1>9 DEF timer_sleep, IInv, TypeOK, Phases, Flags, Scanned, Releasing, Exited,
     mainVars, devVars
<1>10. CASE timer_tick
  <2> USE <1>10 DEF timer_tick, mainVars, devVars
  <2>1. tpc = "scan" /\ temp = 0 /\ tpc' = "release" /\ main # "attach"
    BY DEF IInv, Phases
  <2>2. TypeOK'
    BY IncType DEF IInv, TypeOK
  <2>3. Phases' /\ Flags'
    BY <2>1 DEF IInv, Phases, Flags
  <2>4. \A d \in Device : d > temp
    BY <2>1
  <2>5. Releasing'
    BY <2>1, <2>4 DEF IInv, Scanned, Releasing
  <2>6. Scanned' /\ Exited'
    BY <2>1 DEF Scanned, Exited
  <2> QED
    BY <2>2, <2>3, <2>5, <2>6 DEF IInv
<1>11. CASE timer_release
  BY <1>11 DEF timer_release, next, IInv, TypeOK, Phases, Flags, Scanned, Releasing,
     Exited, mainVars
<1>12. CASE timer_check
  BY <1>12 DEF timer_check, IInv, TypeOK, Phases, Flags, Scanned, Releasing, Exited,
     mainVars, devVars
<1>13. CASE timer_spurious
  BY <1>13 DEF timer_spurious, IInv, TypeOK, Phases, Flags, Scanned, Releasing, Exited,
     mainVars, devVars
<1>14. ASSUME NEW d \in Device, next_slot(d) PROVE IInv'
  BY <1>14, IncType DEF next_slot, SignalTimer, IInv, TypeOK, Phases, Flags, Scanned,
     Releasing, Exited, mainVars
<1>15. ASSUME NEW d \in Device, next_slot_wait(d) PROVE IInv'
  BY <1>15 DEF next_slot_wait, IInv, TypeOK, Phases, Flags, Scanned, Releasing, Exited,
     mainVars, timerVars
<1>16. ASSUME NEW d \in Device, device_spurious(d) PROVE IInv'
  BY <1>16 DEF device_spurious, IInv, TypeOK, Phases, Flags, Scanned, Releasing, Exited,
     mainVars, timerVars
<1>17. ASSUME NEW d \in Device, detach_event(d) PROVE IInv'
  BY <1>17 DEF detach_event, SignalTimer, IInv, TypeOK, Phases, Flags, Scanned,
     Releasing, Exited, mainVars
<1>18. CASE UNCHANGED vars
  BY <1>18 DEF vars, mainVars, timerVars, devVars, IInv, TypeOK, Phases, Flags, Scanned,
     Releasing, Exited
<1> QED
  BY <1>1, <1>2, <1>3, <1>4, <1>5, <1>6, <1>7, <1>8, <1>9, <1>10, <1>11, <1>12, <1>13,
     <1>14, <1>15, <1>16, <1>17, <1>18
  DEF Next, mainNext, timerNext, deviceNext, Terminated

\* Every reachable state satisfies IInv.
THEOREM Invariance == Spec => []IInv
BY InitIInv, NextIInv, PTL DEF Spec

-----------------------------------------------------------------------------
\* Every variable of timer.c and main() keeps its type; in particular the cursor
\* stays on the list and the locals fsh and event stay within its length.
THEOREM TypeCorrect == Spec => []TypeOK
<1>1. IInv => TypeOK
  BY DEF IInv
<1> QED
  BY Invariance, <1>1, PTL

\* Dropping event_lock before taking timer_lock in next_slot loses no wakeup.
THEOREM WakeupsKept == Spec => []NoLostWakeup
<1>1. IInv => NoLostWakeup
  BY DEF IInv, Flags, Scanned, NoLostWakeup
<1> QED
  BY Invariance, <1>1, PTL

\* The stores of done under two different locks never collide.
THEOREM ArrivalsKept == Spec => []NoErasedArrival
<1>1. IInv => NoErasedArrival
  BY DEF IInv, Flags, Releasing, NoErasedArrival
<1> QED
  BY Invariance, <1>1, PTL

\* The timer thread is the last to leave.
THEOREM TimerLast == Spec => []TimerOutlivesDevices
<1>1. IInv => TimerOutlivesDevices
  BY DEF IInv, Flags, Exited, TimerOutlivesDevices
<1> QED
  BY Invariance, <1>1, PTL

-----------------------------------------------------------------------------
(* Every device counts the slots the clock counts. *)

LEMMA InitLockStep == Init => LockStep
  BY DEF Init, LockStep

LEMMA NextLockStep == IInv /\ LockStep /\ [Next]_vars => LockStep'
<1> SUFFICES ASSUME IInv, LockStep, [Next]_vars PROVE LockStep'
  OBVIOUS
<1> USE NAssumption DEF Device, NULL, Loader
<1>1. CASE attach_event
  BY <1>1 DEF attach_event, timerVars, LockStep, Released, IInv, TypeOK, Phases, Flags
<1>2. CASE start_timer
  BY <1>2 DEF start_timer, devVars, LockStep, Released, IInv, TypeOK, Phases, Flags
<1>3. ASSUME NEW d \in Device, spawn(d) PROVE LockStep'
  BY <1>3 DEF spawn, timerVars, LockStep, Released
<1>4. CASE join_devices \/ stop_timer \/ free_list
  BY <1>4 DEF join_devices, stop_timer, free_list, timerVars, devVars, LockStep, Released
<1>5. CASE timer_loop \/ timer_sleep \/ timer_scan \/ timer_spurious
  BY <1>5 DEF timer_loop, timer_sleep, timer_scan, timer_spurious, mainVars, devVars,
     LockStep, Released
<1>6. CASE timer_tick
  <2>1. ASSUME NEW d \in Device, ~ fsh'[d] PROVE slots'[d] = time' /\ Released(d)'
    <3>1. done[d] /\ ~ fsh[d] /\ ~ Released(d)
      BY <1>6, <2>1 DEF timer_tick, devVars, IInv, Scanned, Released
    <3>2. slots[d] = Inc(time)
      BY <3>1 DEF LockStep
    <3>3. dev_list = N
      BY <1>6 DEF timer_tick, IInv, TypeOK, Phases
    <3> QED
      BY <1>6, <3>2, <3>3 DEF timer_tick, devVars, Released
  <2> QED
    BY <2>1 DEF LockStep
<1>7. CASE timer_release
  <2>1. ASSUME NEW d \in Device, ~ fsh'[d]
        PROVE  slots'[d] = IF done'[d] /\ ~ Released(d)' THEN Inc(time') ELSE time'
    <3>1. CASE d = temp
      BY <1>7, <2>1, <3>1 DEF timer_release, mainVars, LockStep, Released, IInv, TypeOK
    <3>2. CASE d # temp
      BY <1>7, <2>1, <3>2 DEF timer_release, next, mainVars, LockStep, Released, IInv, TypeOK
    <3> QED
      BY <3>1, <3>2
  <2> QED
    BY <2>1 DEF LockStep
<1>8. CASE timer_check
  BY <1>8 DEF timer_check, mainVars, devVars, LockStep, Released
<1>9. ASSUME NEW d \in Device, next_slot(d) PROVE LockStep'
  <2>1. ~ fsh[d] /\ ~ done[d] /\ ~ Released(d)
    BY <1>9 DEF next_slot, IInv, Flags, Releasing, Released
  <2>2. slots[d] = time
    BY <2>1 DEF LockStep
  <2>3. tpc = "release" <=> tpc' = "release"
    BY <1>9 DEF next_slot, SignalTimer
  <2>4. slots'[d] = Inc(time) /\ done'[d] /\ ~ Released(d)'
    BY <1>9, <2>1, <2>2, <2>3 DEF next_slot, Released, IInv, TypeOK
  <2> QED
    BY <1>9, <2>3, <2>4 DEF next_slot, mainVars, LockStep, Released, IInv, TypeOK
<1>10. ASSUME NEW d \in Device, next_slot_wait(d) \/ device_spurious(d) PROVE LockStep'
  BY <1>10 DEF next_slot_wait, device_spurious, mainVars, timerVars, LockStep, Released
<1>11. ASSUME NEW d \in Device, detach_event(d) PROVE LockStep'
  <2>1. tpc = "release" <=> tpc' = "release"
    BY <1>11 DEF detach_event, SignalTimer
  <2> QED
    BY <1>11, <2>1 DEF detach_event, mainVars, LockStep, Released, IInv, TypeOK
<1>12. CASE UNCHANGED vars
  BY <1>12 DEF vars, mainVars, timerVars, devVars, LockStep, Released
<1> QED
  BY <1>1, <1>2, <1>3, <1>4, <1>5, <1>6, <1>7, <1>8, <1>9, <1>10, <1>11, <1>12
  DEF Next, mainNext, timerNext, deviceNext, Terminated

\* No device misses a slot or takes one twice.
THEOREM SlotsCounted == Spec => []LockStep
BY Invariance, InitLockStep, NextLockStep, PTL DEF Spec

-----------------------------------------------------------------------------
(* Timer implements SlotClock. *)

LEMMA InitRefines == Init => Clock!ClockInit
  BY DEF Init, ClockState, Released, Clock!ClockInit

\* A step that leaves the two flags, the place of the release and the time as they
\* are is a stuttering step of the clock.
LEMMA Stutter ==
  ASSUME UNCHANGED <<done, fsh, time>>,
         \A d \in Device : Released(d)' <=> Released(d)
  PROVE  UNCHANGED <<ClockState, time>>
  BY DEF ClockState

LEMMA StepRefines == IInv /\ [Next]_vars => [Clock!ClockNext]_<<ClockState, time>>
<1> SUFFICES ASSUME IInv, [Next]_vars PROVE [Clock!ClockNext]_<<ClockState, time>>
  OBVIOUS
<1> USE NAssumption DEF Device, NULL, Loader
<1>1. CASE attach_event
  <2>1. UNCHANGED <<done, fsh, time, tpc, temp>>
    BY <1>1 DEF attach_event, timerVars, IInv, TypeOK, Phases, Flags
  <2> QED
    BY <2>1, Stutter DEF Released
<1>2. CASE start_timer \/ join_devices \/ stop_timer \/ free_list \/ UNCHANGED vars
  BY <1>2, Stutter DEF start_timer, join_devices, stop_timer, free_list, vars, mainVars,
     timerVars, devVars, Released, IInv, Phases
<1>3. ASSUME NEW d \in Device, spawn(d) PROVE UNCHANGED <<ClockState, time>>
  BY <1>3, Stutter DEF spawn, timerVars, Released
<1>4. CASE timer_loop \/ timer_scan \/ timer_sleep \/ timer_spurious \/ timer_check
  BY <1>4, Stutter DEF timer_loop, timer_scan, timer_sleep, timer_spurious, timer_check,
     devVars, Released
<1>5. CASE timer_tick
  <2>1. \A d \in Device : (done[d] \/ fsh[d]) /\ ~ Released(d) /\ Released(d)'
    <3>1. tpc = "scan" /\ temp = 0 /\ tpc' = "release" /\ temp' = N
      BY <1>5 DEF timer_tick, IInv, TypeOK, Phases
    <3>2. TAKE d \in Device
    <3>3. d > temp /\ d \leq temp'
      BY <3>1
    <3> QED
      BY <3>1, <3>3 DEF IInv, Scanned, Released
  <2>2. \A d \in Device : ClockState[d] # "working"
    BY <2>1 DEF ClockState
  <2>3. ClockState' = [d \in Device |-> IF ClockState[d] = "arrived" THEN "working"
                                                                    ELSE ClockState[d]]
    BY <1>5, <2>1 DEF timer_tick, devVars, ClockState
  <2> QED
    BY <1>5, <2>2, <2>3 DEF timer_tick, Inc, Clock!Inc, Clock!Tick, Clock!ClockNext
<1>6. CASE timer_release
  <2>1. ASSUME NEW d \in Device PROVE ClockState'[d] = ClockState[d]
    <3>1. CASE d = temp
      BY <1>6, <3>1 DEF timer_release, ClockState, Released, IInv, TypeOK
    <3>2. CASE d # temp
      BY <1>6, <3>2 DEF timer_release, next, ClockState, Released, IInv, TypeOK
    <3> QED
      BY <3>1, <3>2
  <2> QED
    BY <1>6, <2>1 DEF timer_release, ClockState
<1>7. ASSUME NEW d \in Device, next_slot(d) PROVE Clock!Arrive(d)
  <2>1. ~ fsh[d] /\ ~ done[d] /\ ~ Released(d)
    BY <1>7 DEF next_slot, IInv, Flags, Releasing, Released
  <2>2. \A e \in Device : Released(e)' <=> Released(e)
    BY <1>7 DEF next_slot, SignalTimer, Released
  <2>3. /\ ClockState[d] = "working"
        /\ ClockState' = [ClockState EXCEPT ![d] = "arrived"]
    BY <1>7, <2>1, <2>2 DEF next_slot, ClockState, IInv, TypeOK
  <2> QED
    BY <1>7, <2>3 DEF next_slot, Clock!Arrive
<1>8. ASSUME NEW d \in Device, next_slot_wait(d) \/ device_spurious(d)
      PROVE  UNCHANGED <<ClockState, time>>
  BY <1>8, Stutter DEF next_slot_wait, device_spurious, timerVars, Released
<1>9. ASSUME NEW d \in Device, detach_event(d) PROVE Clock!Leave(d)
  <2>1. ~ fsh[d] /\ ~ done[d]
    BY <1>9 DEF detach_event, IInv, Flags
  <2>2. \A e \in Device : Released(e)' <=> Released(e)
    BY <1>9 DEF detach_event, SignalTimer, Released
  <2>3. /\ ClockState[d] = "working"
        /\ ClockState' = [ClockState EXCEPT ![d] = "gone"]
    BY <1>9, <2>1, <2>2 DEF detach_event, ClockState, IInv, TypeOK
  <2> QED
    BY <1>9, <2>3 DEF detach_event, Clock!Leave
<1> QED
  BY <1>1, <1>2, <1>3, <1>4, <1>5, <1>6, <1>7, <1>8, <1>9
  DEF Next, mainNext, timerNext, deviceNext, Terminated, Clock!ClockNext

\* Every behaviour of timer.c, seen through ClockState, is one of the clock: time
\* advances only at the end of everybody's slot and releases all who wait.
THEOREM ClockImplemented == Spec => ClockSafety
BY Invariance, InitRefines, StepRefines, PTL DEF Spec, ClockSafety
=============================================================================
