----------------------------- MODULE SlotClock -----------------------------
(***************************************************************************)
(* What the simulated clock of src/src/timer.c promises to the devices     *)
(* attached to it (every CPU thread and the loader thread): the time slot  *)
(* only advances when every device has either arrived at the end of the    *)
(* slot (next_slot) or left for good (detach_event), and the advance       *)
(* releases all the arrived devices at once.                               *)
(*                                                                         *)
(* Timer.tla shows that the mutexes, condition variables and flags of      *)
(* timer.c implement this; Os.tla runs the CPUs and the loader on it.      *)
(***************************************************************************)
EXTENDS Naturals

CONSTANTS Device,       \* the attached devices
          TIME_MOD      \* _time is a uint64_t: 2^64 in the code (not 0)

VARIABLES state,        \* what each device does in the current slot
          time          \* _time, what current_time() returns

clockVars == <<state, time>>

Inc(t) == IF t + 1 = TIME_MOD THEN 0 ELSE t + 1

ClockTypeOK == /\ state \in [Device -> {"working", "arrived", "gone"}]
               /\ time \in 0 .. TIME_MOD - 1

ClockInit == /\ state = [d \in Device |-> "working"]
             /\ time = 0

\* next_slot(d), as far as its caller sees: it is done with the slot.
Arrive(d) == /\ state[d] = "working"
             /\ state' = [state EXCEPT ![d] = "arrived"]
             /\ UNCHANGED time

\* detach_event(d): nobody waits for d any more.
Leave(d) == /\ state[d] = "working"
            /\ state' = [state EXCEPT ![d] = "gone"]
            /\ UNCHANGED time

\* One turn of timer_routine: next_slot returns in every arrived device.
Tick == /\ \A d \in Device : state[d] # "working"
        /\ state' = [d \in Device |-> IF state[d] = "arrived" THEN "working"
                                                              ELSE state[d]]
        /\ time' = Inc(time)

\* The timer keeps turning as long as somebody waits for it.
TickForWaiters == Tick /\ \E d \in Device : state[d] = "arrived"

ClockNext == Tick \/ \E d \in Device : Arrive(d) \/ Leave(d)

ClockSpec == ClockInit /\ [][ClockNext]_clockVars /\ WF_clockVars(TickForWaiters)
=============================================================================
