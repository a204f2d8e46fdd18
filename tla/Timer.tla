------------------------------- MODULE Timer -------------------------------
(***************************************************************************)
(* src/src/timer.c with the calls src/src/os.c makes to it: main attaches  *)
(* the devices, starts the timer thread and then the device threads, joins *)
(* them and stops the timer; a device thread alternates between its own    *)
(* work and next_slot, until it calls detach_event and exits.              *)
(*                                                                         *)
(* A step is one critical section (the region between a lock and the       *)
(* unlock or pthread_cond_wait that ends it) or one access to a shared     *)
(* variable outside any lock.  A thread blocked in pthread_cond_wait is    *)
(* "asleep"; a signal, or a spurious wakeup, makes it evaluate its         *)
(* condition again.                                                        *)
(*                                                                         *)
(* An operator named like an action with a suffix (timer_spurious_if,      *)
(* timer_release_no_signal, ...) is a faulty variant of it, no part of     *)
(* Next: PROJECT.json names the property that tells the two apart.         *)
(***************************************************************************)
EXTENDS Naturals

CONSTANTS N,            \* devices 1 .. N: the CPUs 1 .. N-1, the loader N
          TIME_MOD      \* _time is a uint64_t: 2^64 in the code

ASSUME NAssumption == N \in Nat \ {0}
ASSUME TimeModulus == TIME_MOD \in Nat \ {0}

Device == 1 .. N
NULL   == 0
Loader == N

VARIABLES
  main,            \* where main() is
  dev_list,        \* head of the list of attached devices
  timer_started, timer_stop,
  tpc,             \* where timer_routine is
  temp,            \* its list cursor
  nfsh, nevent,    \* its locals fsh and event
  time,            \* _time
  done, fsh,       \* the two flags of every struct timer_id_t
  dpc,             \* where every device thread is
  slots            \* history: slots[d], the calls of next_slot(d), counted like _time

mainVars  == <<main, dev_list, timer_started, timer_stop>>
timerVars == <<tpc, temp, nfsh, nevent, time>>
devVars   == <<done, fsh, dpc, slots>>
vars      == <<mainVars, timerVars, devVars>>

\* attach_event prepends, so each container points to the one attached before it.
next(d) == d - 1

IncNoWrap(t) == t + 1
Inc(t) == IF t + 1 = TIME_MOD THEN 0 ELSE t + 1

TypeOK ==
  /\ main \in {"attach", "spawn", "join", "stop", "end"}
  /\ dev_list \in Device \cup {NULL}
  /\ timer_started \in BOOLEAN
  /\ timer_stop \in BOOLEAN
  /\ tpc \in {"unborn", "loop", "scan", "asleep", "release", "exited"}
  /\ temp \in Device \cup {NULL}
  /\ nfsh \in 0 .. N
  /\ nevent \in 0 .. N
  /\ time \in 0 .. TIME_MOD - 1
  /\ done \in [Device -> BOOLEAN]
  /\ fsh \in [Device -> BOOLEAN]
  /\ dpc \in [Device -> {"unborn", "working", "await", "asleep", "exited"}]
  /\ slots \in [Device -> 0 .. TIME_MOD - 1]

Init ==
  /\ main = "attach"
  /\ dev_list = NULL
  /\ timer_started = FALSE
  /\ timer_stop = FALSE
  /\ tpc = "unborn"
  /\ temp = NULL
  /\ nfsh = 0
  /\ nevent = 0
  /\ time = 0
  /\ done = [d \in Device |-> FALSE]
  /\ fsh = [d \in Device |-> FALSE]
  /\ dpc = [d \in Device |-> "unborn"]
  /\ slots = [d \in Device |-> 0]

-----------------------------------------------------------------------------
(* main() *)

\* A new container, its flags clear, becomes the head of dev_list.
attach_event ==
  /\ main = "attach"
  /\ ~ timer_started
  /\ dev_list < N
  /\ dev_list' = dev_list + 1
  /\ done' = [done EXCEPT ![dev_list + 1] = FALSE]
  /\ fsh' = [fsh EXCEPT ![dev_list + 1] = FALSE]
  /\ UNCHANGED <<main, timer_started, timer_stop, timerVars, dpc, slots>>

start_timer ==
  /\ main = "attach"
  /\ dev_list = N
  /\ timer_started' = TRUE
  /\ tpc' = "loop"
  /\ main' = "spawn"
  /\ UNCHANGED <<dev_list, timer_stop, temp, nfsh, nevent, time, devVars>>

\* main creates the loader thread first, then the CPU threads in order.
spawn(d) ==
  /\ main = "spawn"
  /\ dpc[d] = "unborn"
  /\ d # Loader => \A e \in Device : e < d \/ e = Loader => dpc[e] # "unborn"
  /\ dpc' = [dpc EXCEPT ![d] = "working"]
  /\ main' = IF \A e \in Device \ {d} : dpc[e] # "unborn" THEN "join" ELSE main
  /\ UNCHANGED <<dev_list, timer_started, timer_stop, timerVars, done, fsh, slots>>

join_devices ==
  /\ main = "join"
  /\ \A d \in Device : dpc[d] = "exited"
  /\ main' = "stop"
  /\ UNCHANGED <<dev_list, timer_started, timer_stop, timerVars, devVars>>

\* The store to timer_stop is not ordered by any lock.
stop_timer ==
  /\ main = "stop"
  /\ ~ timer_stop
  /\ timer_stop' = TRUE
  /\ UNCHANGED <<main, dev_list, timer_started, timerVars, devVars>>

\* stop_timer, once pthread_join(_timer) has returned: every container is freed.
free_list ==
  /\ main = "stop"
  /\ timer_stop
  /\ tpc = "exited"
  /\ dev_list' = NULL
  /\ main' = "end"
  /\ UNCHANGED <<timer_started, timer_stop, timerVars, devVars>>

-----------------------------------------------------------------------------
(* timer_routine *)

\* while (!timer_stop): both counters restart at the head of the list.
timer_loop ==
  /\ tpc = "loop"
  /\ IF timer_stop
     THEN tpc' = "exited" /\ UNCHANGED <<temp, nfsh, nevent>>
     ELSE tpc' = "scan" /\ temp' = dev_list /\ nfsh' = 0 /\ nevent' = 0
  /\ UNCHANGED <<time, mainVars, devVars>>

\* The device under the cursor has arrived or left: count it, move on.
timer_scan ==
  /\ tpc = "scan"
  /\ temp # NULL
  /\ done[temp] \/ fsh[temp]
  /\ nfsh' = IF fsh[temp] THEN nfsh + 1 ELSE nfsh
  /\ nevent' = nevent + 1
  /\ temp' = next(temp)
  /\ UNCHANGED <<tpc, time, mainVars, devVars>>

timer_sleep ==
  /\ tpc = "scan"
  /\ temp # NULL
  /\ ~ (done[temp] \/ fsh[temp])
  /\ tpc' = "asleep"
  /\ UNCHANGED <<temp, nfsh, nevent, time, mainVars, devVars>>

\* The whole list has been scanned: advance the time, rewind the cursor.
timer_tick ==
  /\ tpc = "scan"
  /\ temp = NULL
  /\ time' = Inc(time)
  /\ temp' = dev_list
  /\ tpc' = "release"
  /\ UNCHANGED <<nfsh, nevent, mainVars, devVars>>

timer_release_no_signal ==
  /\ tpc = "release"
  /\ temp # NULL
  /\ done' = [done EXCEPT ![temp] = FALSE]
  /\ temp' = next(temp)
  /\ UNCHANGED <<tpc, nfsh, nevent, time, mainVars, fsh, dpc, slots>>

\* done = 0 and signal, under the device's timer_lock.
timer_release ==
  /\ tpc = "release"
  /\ temp # NULL
  /\ done' = [done EXCEPT ![temp] = FALSE]
  /\ dpc' = [dpc EXCEPT ![temp] = IF @ = "asleep" THEN "await" ELSE @]
  /\ temp' = next(temp)
  /\ UNCHANGED <<tpc, nfsh, nevent, time, mainVars, fsh, slots>>

timer_check_any_left ==
  /\ tpc = "release"
  /\ temp = NULL
  /\ tpc' = IF nfsh > 0 THEN "exited" ELSE "loop"
  /\ UNCHANGED <<temp, nfsh, nevent, time, mainVars, devVars>>

\* if (fsh == event) break;
timer_check ==
  /\ tpc = "release"
  /\ temp = NULL
  /\ tpc' = IF nfsh = nevent THEN "exited" ELSE "loop"
  /\ UNCHANGED <<temp, nfsh, nevent, time, mainVars, devVars>>

timer_spurious_if ==
  /\ tpc = "asleep"
  /\ tpc' = "scan"
  /\ temp' = next(temp)
  /\ nevent' = nevent + 1
  /\ UNCHANGED <<nfsh, time, mainVars, devVars>>

\* POSIX lets pthread_cond_wait return without a signal.
timer_spurious ==
  /\ tpc = "asleep"
  /\ tpc' = "scan"
  /\ UNCHANGED <<temp, nfsh, nevent, time, mainVars, devVars>>

-----------------------------------------------------------------------------
(* The device threads *)

SignalNobody(d) == UNCHANGED tpc

\* pthread_cond_signal(&event_cond) of device d: only the timer waits there.
SignalTimer(d) == tpc' = IF tpc = "asleep" /\ temp = d THEN "scan" ELSE tpc

\* First critical section of next_slot: done = 1, wake the timer.
next_slot(d) ==
  /\ dpc[d] = "working"
  /\ done' = [done EXCEPT ![d] = TRUE]
  /\ dpc' = [dpc EXCEPT ![d] = "await"]
  /\ slots' = [slots EXCEPT ![d] = Inc(@)]
  /\ SignalTimer(d)
  /\ UNCHANGED <<temp, nfsh, nevent, time, mainVars, fsh>>

\* Second critical section: while (done) wait, then return to the caller.
next_slot_wait(d) ==
  /\ dpc[d] = "await"
  /\ dpc' = [dpc EXCEPT ![d] = IF done[d] THEN "asleep" ELSE "working"]
  /\ UNCHANGED <<mainVars, timerVars, done, fsh, slots>>

device_spurious_if(d) ==
  /\ dpc[d] = "asleep"
  /\ dpc' = [dpc EXCEPT ![d] = "working"]
  /\ UNCHANGED <<mainVars, timerVars, done, fsh, slots>>

device_spurious(d) ==
  /\ dpc[d] = "asleep"
  /\ dpc' = [dpc EXCEPT ![d] = "await"]
  /\ UNCHANGED <<mainVars, timerVars, done, fsh, slots>>

\* fsh = 1, wake the timer; os.c then exits the thread.
detach_event(d) ==
  /\ dpc[d] = "working"
  /\ fsh' = [fsh EXCEPT ![d] = TRUE]
  /\ dpc' = [dpc EXCEPT ![d] = "exited"]
  /\ SignalTimer(d)
  /\ UNCHANGED <<temp, nfsh, nevent, time, mainVars, done, slots>>

-----------------------------------------------------------------------------
mainNext == \/ attach_event \/ start_timer \/ (\E d \in Device : spawn(d))
            \/ join_devices \/ stop_timer \/ free_list

timerNext == \/ timer_loop \/ timer_scan \/ timer_sleep \/ timer_tick
             \/ timer_release \/ timer_check

deviceNext(d) == next_slot(d) \/ next_slot_wait(d) \/ detach_event(d)

\* The process has ended.
Terminated == main = "end" /\ UNCHANGED vars

Next == \/ mainNext
        \/ timerNext
        \/ timer_spurious
        \/ \E d \in Device : deviceNext(d) \/ device_spurious(d)
        \/ Terminated

\* The kernel schedules every runnable thread.  A device thread always comes
\* back to next_slot or detach_event: the body of cpu_routine's and ld_routine's
\* loop is finite.  Spurious wakeups are never relied on.
Fairness == /\ WF_vars(mainNext)
            /\ WF_vars(timerNext)
            /\ \A d \in Device : WF_vars(deviceNext(d))

Spec == Init /\ [][Next]_vars /\ Fairness

-----------------------------------------------------------------------------
(* Properties *)

\* What d has done in the current slot: between the tick and its release a
\* device already counts as released.
Released(d) == tpc = "release" /\ d \leq temp

ClockState == [d \in Device |-> IF fsh[d] THEN "gone"
                               ELSE IF done[d] /\ ~ Released(d) THEN "arrived"
                               ELSE "working"]

\* No wakeup is lost although next_slot drops event_lock before it takes
\* timer_lock: whoever sleeps on a condition variable sleeps on a condition
\* that still holds.
NoLostWakeup ==
  /\ \A d \in Device : dpc[d] = "asleep" => done[d]
  /\ tpc = "asleep" => ~ done[temp] /\ ~ fsh[temp]

\* The second loop of timer_routine stores done = 0 under another lock than
\* the one next_slot stores done = 1 under.  It never overwrites an arrival the
\* scan has not counted: the device it releases is waiting, or has left.
NoErasedArrival ==
  tpc = "release" =>
    \A d \in Device : d \leq temp =>
      fsh[d] \/ (done[d] /\ dpc[d] \in {"await", "asleep"})

\* Every device has begun next_slot exactly once per elapsed slot, plus once
\* if it is now waiting for the end of the current one.
LockStep ==
  \A d \in Device : ~ fsh[d] =>
    slots[d] = IF done[d] /\ ~ Released(d) THEN Inc(time) ELSE time

\* timer_routine leaves its loop (fsh == event, or timer_stop) only after every
\* device has detached: nobody is left waiting for a slot that never comes, and
\* stop_timer frees no container in use.
TimerOutlivesDevices ==
  tpc = "exited" => \A d \in Device : dpc[d] = "exited"

\* Every call of next_slot returns.
NextSlotReturns ==
  \A d \in Device : dpc[d] \in {"await", "asleep"} ~> dpc[d] = "working"

\* Once every device has detached the timer thread ends and main returns.
MainReturns ==
  (\A d \in Device : dpc[d] = "exited") ~> main = "end"

\* timer.c implements the abstract clock: no tick while a device is working,
\* every arrived device released by the tick, and every waiter gets its tick.
Clock == INSTANCE SlotClock WITH state <- ClockState
ClockRefined == Clock!ClockSpec

\* Its safety part, the initial state and the steps.
ClockSafety == Clock!ClockInit /\ [][Clock!ClockNext]_<<ClockState, time>>
=============================================================================
