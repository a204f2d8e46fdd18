----------------------------- MODULE Dispatcher ----------------------------
(***************************************************************************)
(* What the scheduler promises to the processes of the simulated system,   *)
(* with no CPU, queue or lock in sight: a process is admitted once, runs   *)
(* in bursts of at most time_slot instructions, is preempted only when its *)
(* burst is used up and finishes only when its code is.  A burst goes to   *)
(* the waiting process of the highest rank, the longest waiting one among  *)
(* equals.  Os.tla shows that os.c, sched.c and queue.c implement it.      *)
(***************************************************************************)
EXTENDS Naturals, FiniteSets

CONSTANTS Proc,
          CPUs,         \* how many processes can run at once
          time_slot,
          codeSize,     \* instructions of each process
          Higher(_, _)  \* Higher(p, q): p goes before q, whoever came first

VARIABLES where,        \* "new", "ready", "running" or "finished"
          left,         \* instructions still to execute
          budget,       \* of them, how many in the current burst
          ahead         \* <<p, q>>: both ready, neither Higher, p came first

dispVars == <<where, left, budget, ahead>>

In(place) == {p \in Proc : where[p] = place}

DispInit == /\ where = [p \in Proc |-> "new"]
            /\ left = codeSize
            /\ budget = [p \in Proc |-> 0]
            /\ ahead = {}

Peers(p, q) == ~ Higher(p, q) /\ ~ Higher(q, p)

Enqueue(p) == /\ where' = [where EXCEPT ![p] = "ready"]
              /\ ahead' = ahead \cup ({q \in In("ready") : Peers(p, q)} \X {p})
              /\ UNCHANGED left

Admit(p) == where[p] = "new" /\ Enqueue(p) /\ UNCHANGED budget

Dispatch(p) ==
  /\ where[p] = "ready"
  /\ Cardinality(In("running")) < Cardinality(CPUs)
  /\ \A q \in In("ready") : ~ Higher(q, p) /\ <<q, p>> \notin ahead
  /\ where' = [where EXCEPT ![p] = "running"]
  /\ budget' = [budget EXCEPT ![p] = time_slot]
  /\ ahead' = {pair \in ahead : pair[1] # p}
  /\ UNCHANGED left

Execute(p) ==
  /\ where[p] = "running"
  /\ left[p] > 0 \/ codeSize[p] = 0   \* an empty program gets a slot too
  /\ budget[p] > 0
  /\ left' = [left EXCEPT ![p] = IF @ = 0 THEN 0 ELSE @ - 1]
  /\ budget' = [budget EXCEPT ![p] = @ - 1]
  /\ UNCHANGED <<where, ahead>>

Preempt(p) == /\ where[p] = "running"
              /\ left[p] > 0
              /\ budget[p] = 0
              /\ Enqueue(p)
              /\ UNCHANGED budget

Finish(p) == /\ where[p] = "running"
             /\ left[p] = 0
             /\ where' = [where EXCEPT ![p] = "finished"]
             /\ budget' = [budget EXCEPT ![p] = 0]
             /\ UNCHANGED <<left, ahead>>

DispNext == \E p \in Proc :
  Admit(p) \/ Dispatch(p) \/ Execute(p) \/ Preempt(p) \/ Finish(p)

DispSpec == DispInit /\ [][DispNext]_dispVars
=============================================================================
