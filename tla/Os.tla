--------------------------------- MODULE Os ---------------------------------
(***************************************************************************)
(* The simulated system: the CPU threads and the loader thread of          *)
(* src/src/os.c over the multi-level queues of src/src/sched.c, in step    *)
(* with the clock (SlotClock, which Timer.tla refines).                    *)
(*                                                                         *)
(* A step is one critical section of queue_lock with the local work around *)
(* it.  next_slot and detach_event are merged into the step that ends in   *)
(* them: only Tick, which waits for them, can tell the difference.         *)
(* run() executes one instruction; what instructions do to memory is the   *)
(* subject of Paging.tla.                                                  *)
(*                                                                         *)
(* Operators named like another one with a suffix (Waiting_skips_0,        *)
(* PutReady_keeps_proc, ...) are faulty variants, no part of Next.         *)
(***************************************************************************)
EXTENDS Queue, FiniteSets

CONSTANTS CPU,              \* the CPU threads
          ld,               \* the loader thread
          num_processes,
          MAX_PRIO,         \* 140 in the code
          time_slot,
          start_time, prio, \* ld_processes, in the order of the configuration
          codeSize,         \* code->size
          TIME_MOD

NULL == 0
Device == CPU \cup {ld}

\* The configuration file is outside the program's control: prio indexes an
\* array of MAX_PRIO queues, and a slice of 0 slots would never be used up.
ASSUME OsAssumption ==
  /\ ld \notin CPU
  /\ IsFiniteSet(CPU)
  /\ num_processes \in Nat
  /\ Proc = 1 .. num_processes
  /\ MAX_PRIO \in Nat \ {0}
  /\ time_slot \in Nat \ {0}
  /\ start_time \in [Proc -> 0 .. TIME_MOD - 1]
  /\ prio \in [Proc -> 0 .. MAX_PRIO - 1]
  /\ codeSize \in [Proc -> Nat]
  /\ TIME_MOD \in Nat \ {0}

VARIABLES
  state, time,          \* the clock
  mlq_ready_queue, running_list,
  pc,                   \* pcb_t.pc of every process
  freed,                \* the PCBs given back with free()
  proc, time_left,      \* locals of cpu_routine
  cpc,                  \* where cpu_routine is
  i,                    \* local of ld_routine: the next process to load
  lpc,                  \* where ld_routine is
  done                  \* set by the loader, read by the CPUs without a lock

schedVars == <<mlq_ready_queue, running_list>>
cpuVars   == <<proc, time_left, cpc>>
ldVars    == <<i, lpc, done>>
procVars  == <<pc, freed>>
clock     == <<state, time>>
vars      == <<clock, schedVars, procVars, cpuVars, ldVars>>

Clock == INSTANCE SlotClock

Prio == 0 .. MAX_PRIO - 1

TypeOK ==
  /\ state \in [Device -> {"working", "arrived", "gone"}]
  /\ time \in 0 .. TIME_MOD - 1
  /\ mlq_ready_queue \in [Prio -> queue_t]
  /\ running_list \in queue_t
  /\ pc \in [Proc -> Nat]
  /\ \A p \in Proc : pc[p] \leq codeSize[p]
  /\ freed \subseteq Proc
  /\ proc \in [CPU -> Proc \cup {NULL}]
  /\ time_left \in [CPU -> 0 .. time_slot]
  /\ cpc \in [CPU -> {"top", "putReady", "get", "recheck", "stopped"}]
  /\ i \in 1 .. num_processes + 1
  /\ lpc \in {"loop", "addReady", "finished"}
  /\ done \in BOOLEAN

\* init_scheduler, and the locals the threads start with.
Init ==
  /\ Clock!ClockInit
  /\ mlq_ready_queue = [l \in Prio |-> << >>]
  /\ running_list = << >>
  /\ pc = [p \in Proc |-> 0]
  /\ freed = {}
  /\ proc = [c \in CPU |-> NULL]
  /\ time_left = [c \in CPU |-> 0]
  /\ cpc = [c \in CPU |-> "top"]
  /\ i = 1
  /\ lpc = "loop"
  /\ done = FALSE

-----------------------------------------------------------------------------
(* sched.c *)

Waiting_skips_0 == {l \in Prio \ {0} : ~ empty(mlq_ready_queue[l])}
Waiting == {l \in Prio : ~ empty(mlq_ready_queue[l])}

\* The scan starts from index MAX_PRIO - 1.
highest_index == CHOOSE l \in Waiting : \A k \in Waiting : k \leq l

\* get_mlq_proc, for CPU c: the first non-empty level's best process.
get_proc(c) ==
  IF Waiting = {}
  THEN proc' = [proc EXCEPT ![c] = NULL] /\ UNCHANGED mlq_ready_queue
  ELSE /\ proc' = [proc EXCEPT ![c] = selected(mlq_ready_queue[highest_index])]
       /\ mlq_ready_queue' = [mlq_ready_queue EXCEPT ![highest_index] = dequeue(@)]

\* First half of put_proc and add_proc.
put_running_list(p) == /\ running_list' = enqueue(running_list, p)
                       /\ UNCHANGED mlq_ready_queue

\* Second half: put_mlq_proc and add_mlq_proc.
put_mlq_proc(p) ==
  /\ mlq_ready_queue' = [mlq_ready_queue EXCEPT ![prio[p]] = enqueue(@, p)]
  /\ UNCHANGED running_list

-----------------------------------------------------------------------------
(* cpu_routine *)

At(c, place) == state[c] = "working" /\ cpc[c] = place
Goto(c, place) == cpc' = [cpc EXCEPT ![c] = place]
Ended(p) == pc[p] = codeSize[p]

\* proc == NULL at the top of the loop: load one, or skip the slot.  This path
\* does not look at `done`.
FirstLoad(c) ==
  /\ At(c, "top")
  /\ proc[c] = NULL
  /\ get_proc(c)
  /\ IF proc'[c] = NULL
     THEN Clock!Arrive(c) /\ UNCHANGED cpc
     ELSE Goto(c, "recheck") /\ UNCHANGED clock
  /\ UNCHANGED <<running_list, procVars, time_left, ldVars>>

\* pc == code->size: the PCB is freed, whoever else still points to it.
Finish(c) ==
  /\ At(c, "top")
  /\ proc[c] # NULL
  /\ Ended(proc[c])
  /\ freed' = freed \cup {proc[c]}
  /\ proc' = [proc EXCEPT ![c] = NULL]
  /\ time_left' = [time_left EXCEPT ![c] = 0]
  /\ Goto(c, "get")
  /\ UNCHANGED <<clock, schedVars, pc, ldVars>>

\* time_left == 0: put_proc, in its two critical sections.
PutRunning(c) ==
  /\ At(c, "top")
  /\ proc[c] # NULL
  /\ ~ Ended(proc[c])
  /\ time_left[c] = 0
  /\ put_running_list(proc[c])
  /\ Goto(c, "putReady")
  /\ UNCHANGED <<clock, procVars, proc, time_left, ldVars>>

PutReady_keeps_proc(c) ==
  /\ At(c, "putReady")
  /\ put_mlq_proc(proc[c])
  /\ Goto(c, "recheck")
  /\ UNCHANGED <<clock, procVars, proc, time_left, ldVars>>

PutReady(c) ==
  /\ At(c, "putReady")
  /\ put_mlq_proc(proc[c])
  /\ proc' = [proc EXCEPT ![c] = NULL]
  /\ Goto(c, "get")
  /\ UNCHANGED <<clock, procVars, time_left, ldVars>>

GetNext(c) ==
  /\ At(c, "get")
  /\ get_proc(c)
  /\ Goto(c, "recheck")
  /\ UNCHANGED <<clock, running_list, procVars, time_left, ldVars>>

\* "No process to run, exit": detach_event ends the thread.
Stop(c) ==
  /\ At(c, "recheck")
  /\ proc[c] = NULL
  /\ done
  /\ Clock!Leave(c)
  /\ Goto(c, "stopped")
  /\ UNCHANGED <<schedVars, procVars, proc, time_left, ldVars>>

\* "There may be new processes to run in next time slots".
SkipSlot(c) ==
  /\ At(c, "recheck")
  /\ proc[c] = NULL
  /\ ~ done
  /\ Clock!Arrive(c)
  /\ Goto(c, "top")
  /\ UNCHANGED <<schedVars, procVars, proc, time_left, ldVars>>

\* A process fresh from the queue gets a new slice.
slice(c) == IF time_left[c] = 0 THEN time_slot ELSE time_left[c]

\* run(proc), which returns at once when the code is over; time_left--.
Run(c) ==
  /\ \/ At(c, "recheck")
     \/ At(c, "top") /\ proc[c] # NULL /\ ~ Ended(proc[c]) /\ time_left[c] # 0
  /\ proc[c] # NULL
  /\ pc' = [pc EXCEPT ![proc[c]] = IF Ended(proc[c]) THEN @ ELSE @ + 1]
  /\ time_left' = [time_left EXCEPT ![c] = slice(c) - 1]
  /\ Clock!Arrive(c)
  /\ Goto(c, "top")
  /\ UNCHANGED <<schedVars, freed, proc, ldVars>>

cpu_routine(c) == \/ FirstLoad(c) \/ Finish(c) \/ PutRunning(c) \/ PutReady(c)
                  \/ GetNext(c) \/ Stop(c) \/ SkipSlot(c) \/ Run(c)

-----------------------------------------------------------------------------
(* ld_routine *)

ldAt(place) == state[ld] = "working" /\ lpc = place

\* while (current_time() < start_time[i]) next_slot();
WaitForStart ==
  /\ ldAt("loop")
  /\ i \leq num_processes
  /\ time < start_time[i]
  /\ Clock!Arrive(ld)
  /\ UNCHANGED <<schedVars, procVars, cpuVars, ldVars>>

\* add_proc, in its two critical sections.
AddRunning ==
  /\ ldAt("loop")
  /\ i \leq num_processes
  /\ ~ (time < start_time[i])
  /\ put_running_list(i)
  /\ lpc' = "addReady"
  /\ UNCHANGED <<clock, procVars, cpuVars, i, done>>

AddReady_last_is_done ==
  /\ ldAt("addReady")
  /\ put_mlq_proc(i)
  /\ i' = i + 1
  /\ lpc' = "loop"
  /\ done' = (i = num_processes)
  /\ Clock!Arrive(ld)
  /\ UNCHANGED <<procVars, cpuVars>>

AddReady ==
  /\ ldAt("addReady")
  /\ put_mlq_proc(i)
  /\ i' = i + 1
  /\ lpc' = "loop"
  /\ Clock!Arrive(ld)
  /\ UNCHANGED <<procVars, cpuVars, done>>

\* done = 1; detach_event.
AllLoaded ==
  /\ ldAt("loop")
  /\ i > num_processes
  /\ done' = TRUE
  /\ lpc' = "finished"
  /\ Clock!Leave(ld)
  /\ UNCHANGED <<schedVars, procVars, cpuVars, i>>

ld_routine == WaitForStart \/ AddRunning \/ AddReady \/ AllLoaded

-----------------------------------------------------------------------------
Tick == Clock!Tick /\ UNCHANGED <<schedVars, procVars, cpuVars, ldVars>>

Next == ld_routine \/ Tick \/ \E c \in CPU : cpu_routine(c)

\* Every thread is scheduled; the clock ticks for whoever waits for it.
Fairness == /\ \A c \in CPU : WF_vars(cpu_routine(c))
            /\ WF_vars(ld_routine)
            /\ WF_vars(Tick /\ \E d \in Device : state[d] = "arrived")

Spec == Init /\ [][Next]_vars /\ Fairness

-----------------------------------------------------------------------------
(* Properties *)

OnCPU(p)   == \E c \in CPU : proc[c] = p
InReady(p) == \E l \in Prio : \E k \in DOMAIN mlq_ready_queue[l] :
                mlq_ready_queue[l][k] = p
ReadySet   == {p \in Proc : InReady(p)}

\* A process belongs to at most one place: no two CPUs run it, no two entries
\* of the ready queues name it, and a freed PCB is in neither.
ExclusiveOwner ==
  /\ \A c, d \in CPU : proc[c] = proc[d] /\ proc[c] # NULL => c = d
  /\ \A l, m \in Prio : \A j \in DOMAIN mlq_ready_queue[l] :
       \A k \in DOMAIN mlq_ready_queue[m] :
         mlq_ready_queue[l][j] = mlq_ready_queue[m][k] => l = m /\ j = k
  /\ \A p \in Proc : InReady(p) => ~ OnCPU(p)
  /\ \A p \in freed : ~ InReady(p) /\ ~ OnCPU(p)

\* add_proc and put_proc keep what they are given: a loaded process is ready,
\* on a CPU or finished.
NothingLost ==
  \A p \in Proc : p < i => InReady(p) \/ OnCPU(p) \/ p \in freed

EndOfSlot == \A d \in Device : state[d] # "working"
Idle(c) == cpc[c] \in {"top", "stopped"} /\ proc[c] = NULL

\* A CPU stays idle for a slot only when there is nothing to run: at the end of
\* the slot the ready queues hold at most the process the loader brought in
\* after the CPU had looked.
WorkConserving ==
  EndOfSlot /\ (\E c \in CPU : Idle(c)) =>
    /\ \A p, q \in ReadySet : p = q
    /\ state[ld] = "gone" => ReadySet = {}

\* A CPU that stops leaves nobody behind: the others already hold, one each,
\* all the processes that are left, and the loader brings no more.
StoppedMeansDrained ==
  EndOfSlot /\ (\E c \in CPU : cpc[c] = "stopped") =>
    ReadySet = {} /\ i = num_processes + 1

\* Every process of the configuration is executed to its end.
AllFinish == \A p \in Proc : <>(p \in freed)

\* "CPU %d stopped" ends the run of every CPU (src/output/os_sc.output:17).
CPUsStop == <>(\A c \in CPU : cpc[c] = "stopped")

\* os.c over sched.c implements the abstract dispatcher.
HigherRank(p, q) == \/ prio[p] > prio[q]
                    \/ prio[p] = prio[q] /\ priority[p] > priority[q]

Where == [p \in Proc |-> IF p \in freed THEN "finished"
                         ELSE IF OnCPU(p) THEN "running"
                         ELSE IF InReady(p) THEN "ready"
                         ELSE "new"]

Budget == [p \in Proc |->
  IF ~ OnCPU(p) THEN 0
  ELSE LET c == CHOOSE d \in CPU : proc[d] = p
       IN  IF cpc[c] = "recheck" THEN slice(c) ELSE time_left[c]]

Ahead == UNION {
  LET q == mlq_ready_queue[l]
  IN  {<<q[k[1]], q[k[2]]>> : k \in {h \in (DOMAIN q) \X (DOMAIN q) :
         h[1] < h[2] /\ priority[q[h[1]]] = priority[q[h[2]]]}} : l \in Prio}

Abstract == INSTANCE Dispatcher WITH
  CPUs <- CPU, Higher <- HigherRank, where <- Where, budget <- Budget,
  left <- [p \in Proc |-> codeSize[p] - pc[p]], ahead <- Ahead
DispatcherRefined == Abstract!DispSpec
=============================================================================
