------------------------------ MODULE OsProofs ------------------------------
(***************************************************************************)
(* Where the processes of Os.tla are, for any number of CPUs, processes    *)
(* and levels: each has one owner, and none is lost as long as a queue has *)
(* room for all of them; then os.c over sched.c and queue.c implements the *)
(* dispatcher of Dispatcher.tla.                                           *)
(***************************************************************************)
EXTENDS Os, NumberFacts

-----------------------------------------------------------------------------
(* enqueue and dequeue of queue.c *)

\* The entry dequeue chooses has the greatest priority, and is the first that has it
\* (queue.c:28).
THEOREM BestIsFirst ==
  ASSUME NEW s \in queue_t, ~ empty(s)
  PROVE  FirstOfGreatest(priority, s, Len(s), best_index(s))
<1>1. s \in Seq(Proc) /\ Len(s) \in Nat \ {0} /\ DOMAIN s = 1 .. Len(s)
  BY DEF queue_t, empty
<1>2. priority \in [Proc -> Nat] /\ Len(s) \in 1 .. Len(s)
  BY <1>1, QueueAssumption
<1>3. \E k \in 1 .. Len(s) : FirstOfGreatest(priority, s, Len(s), k)
  BY <1>1, <1>2, GreatestExists
<1> QED
  BY <1>1, <1>3 DEF best_index, FirstOfGreatest

\* dequeue takes one entry out and closes the gap: all others stay, in their order.
LEMMA Dequeued ==
  ASSUME NEW s \in queue_t, ~ empty(s)
  PROVE  /\ best_index(s) \in 1 .. Len(s)
         /\ selected(s) \in Proc
         /\ dequeue(s) \in queue_t
         /\ Len(dequeue(s)) = Len(s) - 1
         /\ \A k \in 1 .. Len(s) - 1 :
              dequeue(s)[k] = s[IF k < best_index(s) THEN k ELSE k + 1]
<1>1. s \in Seq(Proc) /\ Len(s) \in Nat /\ Len(s) \leq MAX_QUEUE_SIZE
  BY DEF queue_t
<1>2. best_index(s) \in 1 .. Len(s)
  BY BestIsFirst DEF FirstOfGreatest
<1>3. Without(s, best_index(s), dequeue(s), Proc)
  BY <1>1, <1>2, TakenOut DEF dequeue, Seqs!RemoveAt
<1>4. selected(s) \in Proc
  BY <1>1, <1>2 DEF selected
<1>5. dequeue(s) \in queue_t
  BY <1>1, <1>2, <1>3, QueueAssumption DEF queue_t, Without
<1> QED
  BY <1>2, <1>3, <1>4, <1>5 DEF Without

\* enqueue appends, or leaves a full queue alone.
LEMMA Enqueued ==
  ASSUME NEW s \in queue_t, NEW p \in Proc
  PROVE  /\ enqueue(s, p) \in queue_t
         /\ \/ Len(s) = MAX_QUEUE_SIZE /\ enqueue(s, p) = s
            \/ /\ Len(enqueue(s, p)) = Len(s) + 1
               /\ enqueue(s, p)[Len(s) + 1] = p
               /\ \A k \in 1 .. Len(s) : enqueue(s, p)[k] = s[k]
<1>1. s \in Seq(Proc) /\ Len(s) \in Nat /\ Len(s) \leq MAX_QUEUE_SIZE
  BY DEF queue_t
<1>2. CASE Len(s) \geq MAX_QUEUE_SIZE
  BY <1>1, <1>2, QueueAssumption DEF enqueue
<1>3. CASE ~ (Len(s) \geq MAX_QUEUE_SIZE)
  BY <1>1, <1>3, QueueAssumption DEF enqueue, queue_t
<1> QED
  BY <1>2, <1>3

-----------------------------------------------------------------------------
(* The ready queues *)

QueuesOK == mlq_ready_queue \in [Prio -> queue_t]

\* No process is named by two entries.
EntriesApart ==
  \A l, m \in Prio : \A j \in DOMAIN mlq_ready_queue[l] :
    \A k \in DOMAIN mlq_ready_queue[m] :
      mlq_ready_queue[l][j] = mlq_ready_queue[m][k] => l = m /\ j = k

\* get_mlq_proc serves the highest level at which a process waits.
LEMMA HighestWaits ==
  ASSUME Waiting # {}
  PROVE  highest_index \in Waiting /\ \A l \in Waiting : l \leq highest_index
<1> DEFINE T == {n \in Nat : \E l \in Waiting : n = MAX_PRIO - 1 - l}
<1>1. Waiting \subseteq 0 .. MAX_PRIO - 1 /\ MAX_PRIO \in Nat
  BY OsAssumption DEF Waiting, Prio
<1>2. T \in SUBSET Nat /\ T # {}
  <2>1. PICK l \in Waiting : TRUE
    OBVIOUS
  <2>2. MAX_PRIO - 1 - l \in T
    BY <1>1, <2>1
  <2> QED
    BY <2>2
<1>3. PICK n \in T : \A m \in T : n \leq m
  <2> HIDE DEF T
  <2> QED BY <1>2, LeastNumber
<1>4. PICK l \in Waiting : n = MAX_PRIO - 1 - l
  OBVIOUS
<1>5. \A k \in Waiting : k \leq l
  <2> SUFFICES ASSUME NEW k \in Waiting PROVE k \leq l
    OBVIOUS
  <2>1. MAX_PRIO - 1 - k \in T
    BY <1>1
  <2> QED
    BY <1>1, <1>3, <1>4, <2>1
<1> QED
  BY <1>4, <1>5 DEF highest_index

\* A CPU without a process takes nothing, or takes one entry out of the queues and
\* leaves all others.
LEMMA TakesOne ==
  ASSUME NEW c \in CPU, QueuesOK, EntriesApart, get_proc(c)
  PROVE  /\ QueuesOK' /\ EntriesApart'
         /\ \/ /\ Waiting = {}
               /\ UNCHANGED mlq_ready_queue
               /\ proc' = [proc EXCEPT ![c] = NULL]
            \/ \E p \in Proc :
                 /\ InReady(p)
                 /\ proc' = [proc EXCEPT ![c] = p]
                 /\ \A r \in Proc : InReady(r)' <=> InReady(r) /\ r # p
<1>1. CASE Waiting = {}
  BY <1>1 DEF get_proc, QueuesOK, EntriesApart
<1>2. CASE Waiting # {}
  <2> DEFINE h == highest_index
             q == mlq_ready_queue[h]
             b == best_index(q)
             p == selected(q)
             Old(k) == IF k < b THEN k ELSE k + 1
             New(l) == mlq_ready_queue'[l]
  <2>1. h \in Prio /\ q \in queue_t /\ ~ empty(q)
    BY <1>2, HighestWaits DEF Waiting, QueuesOK
  <2>2. mlq_ready_queue' = [mlq_ready_queue EXCEPT ![h] = dequeue(q)]
    BY <1>2 DEF get_proc
  <2>3. proc' = [proc EXCEPT ![c] = p]
    BY <1>2 DEF get_proc
  <2> HIDE DEF h
  <2>4. /\ b \in 1 .. Len(q) /\ p \in Proc /\ dequeue(q) \in queue_t
        /\ Len(dequeue(q)) = Len(q) - 1
        /\ \A k \in 1 .. Len(q) - 1 : dequeue(q)[k] = q[Old(k)]
    BY <2>1, Dequeued
  <2>5. \A l \in Prio : /\ mlq_ready_queue[l] \in queue_t
                        /\ New(l) = IF l = h THEN dequeue(q) ELSE mlq_ready_queue[l]
    BY <2>2 DEF QueuesOK
  <2>6. QueuesOK'
    BY <2>1, <2>2, <2>4 DEF QueuesOK
  <2>7. \A s \in queue_t : DOMAIN s = 1 .. Len(s) /\ Len(s) \in Nat
    BY DEF queue_t
  <2>8. p = q[b]
    BY DEF selected
  <2> HIDE DEF b, p
  \* An entry that is left was there before, at a place that tells it from the others.
  <2>9. \A l \in Prio : \A j \in DOMAIN New(l) :
          LET o == IF l = h THEN Old(j) ELSE j
          IN  /\ o \in DOMAIN mlq_ready_queue[l]
              /\ New(l)[j] = mlq_ready_queue[l][o]
              /\ l = h => o # b
    <3> SUFFICES ASSUME NEW l \in Prio, NEW j \in DOMAIN New(l)
                 PROVE  LET o == IF l = h THEN Old(j) ELSE j
                        IN  /\ o \in DOMAIN mlq_ready_queue[l]
                            /\ New(l)[j] = mlq_ready_queue[l][o]
                            /\ l = h => o # b
      OBVIOUS
    <3>1. CASE l = h
      <4>1. New(l) = dequeue(q) /\ j \in 1 .. Len(q) - 1
        BY <2>4, <2>5, <2>7, <3>1
      <4>2. Old(j) \in 1 .. Len(q) /\ Old(j) # b
        BY <2>1, <2>4, <2>7, <4>1
      <4> QED
        BY <2>1, <2>4, <2>7, <3>1, <4>1, <4>2
    <3>2. CASE l # h
      BY <2>5, <3>2
    <3> QED
      BY <3>1, <3>2
  <2>10. EntriesApart'
    <3> SUFFICES ASSUME NEW l \in Prio, NEW m \in Prio,
                        NEW j \in DOMAIN New(l), NEW k \in DOMAIN New(m),
                        New(l)[j] = New(m)[k]
                 PROVE  l = m /\ j = k
      BY DEF EntriesApart
    <3> DEFINE jo == IF l = h THEN Old(j) ELSE j
               ko == IF m = h THEN Old(k) ELSE k
    <3>1. /\ jo \in DOMAIN mlq_ready_queue[l] /\ New(l)[j] = mlq_ready_queue[l][jo]
          /\ ko \in DOMAIN mlq_ready_queue[m] /\ New(m)[k] = mlq_ready_queue[m][ko]
      BY <2>9
    <3>2. l = m /\ jo = ko
      <4> HIDE DEF jo, ko
      <4>1. mlq_ready_queue[l][jo] = mlq_ready_queue[m][ko]
        BY <3>1
      <4> QED
        BY <3>1, <4>1 DEF EntriesApart
    <3>3. j \in Nat /\ k \in Nat
      BY <2>4, <2>5, <2>7
    <3>4. j = k
      BY <2>1, <2>4, <2>7, <3>2, <3>3
    <3> QED
      BY <3>2, <3>4
  <2>11. InReady(p)
    BY <2>1, <2>4, <2>7, <2>8 DEF InReady
  <2>12. ASSUME NEW r \in Proc, InReady(r)'
         PROVE  InReady(r) /\ r # p
    <3>1. PICK l \in Prio : \E j \in DOMAIN New(l) : New(l)[j] = r
      BY <2>12 DEF InReady
    <3>2. PICK j \in DOMAIN New(l) : New(l)[j] = r
      BY <3>1
    <3> DEFINE o == IF l = h THEN Old(j) ELSE j
    <3>3. o \in DOMAIN mlq_ready_queue[l] /\ r = mlq_ready_queue[l][o] /\ (l = h => o # b)
      BY <2>9, <3>2
    <3> HIDE DEF o
    <3>4. InReady(r)
      BY <3>3 DEF InReady
    <3>5. b \in DOMAIN mlq_ready_queue[h]
      BY <2>1, <2>4, <2>7
    <3>6. r # p
      BY <2>1, <2>8, <3>3, <3>5 DEF EntriesApart
    <3> QED
      BY <3>4, <3>6
  <2>13. ASSUME NEW r \in Proc, InReady(r), r # p
         PROVE  InReady(r)'
    <3>1. PICK l \in Prio : \E j \in DOMAIN mlq_ready_queue[l] : mlq_ready_queue[l][j] = r
      BY <2>13 DEF InReady
    <3>2. PICK j \in DOMAIN mlq_ready_queue[l] : mlq_ready_queue[l][j] = r
      BY <3>1
    <3>3. CASE l # h
      <4>1. New(l) = mlq_ready_queue[l]
        BY <2>5, <3>3
      <4> QED BY <3>2, <4>1 DEF InReady
    <3>4. CASE l = h
      <4> DEFINE n == IF j < b THEN j ELSE j - 1
      <4>1. j \in 1 .. Len(q) /\ j # b
        BY <2>1, <2>7, <2>8, <2>13, <3>2, <3>4
      <4>2. n \in 1 .. Len(q) - 1 /\ Old(n) = j
        BY <2>1, <2>4, <2>7, <4>1
      <4>3. New(l) = dequeue(q) /\ DOMAIN New(l) = 1 .. Len(q) - 1
        BY <2>4, <2>5, <2>7, <3>4
      <4>4. New(l)[n] = r
        BY <2>4, <3>2, <3>4, <4>2, <4>3
      <4> QED
        BY <4>2, <4>3, <4>4 DEF InReady
    <3> QED
      BY <3>3, <3>4
  <2> QED
    BY <2>3, <2>4, <2>6, <2>10, <2>11, <2>12, <2>13
<1> QED
  BY <1>1, <1>2

\* put_mlq_proc adds one entry behind those of its level, or drops the process when
\* the level is full; no other entry moves.
LEMMA PutsOne ==
  ASSUME NEW p \in Proc, QueuesOK, EntriesApart, ~ InReady(p), put_mlq_proc(p)
  PROVE  /\ QueuesOK' /\ EntriesApart'
         /\ \A r \in Proc : InReady(r) => InReady(r)'
         /\ \A r \in Proc : InReady(r)' => InReady(r) \/ r = p
         /\ Len(mlq_ready_queue[prio[p]]) < MAX_QUEUE_SIZE => InReady(p)'
<1> DEFINE h == prio[p]
           q == mlq_ready_queue[h]
           New(l) == mlq_ready_queue'[l]
<1>1. h \in Prio /\ q \in queue_t
  BY OsAssumption DEF QueuesOK, Prio
<1>2. mlq_ready_queue' = [mlq_ready_queue EXCEPT ![h] = enqueue(q, p)]
  BY DEF put_mlq_proc
<1>3. /\ enqueue(q, p) \in queue_t
      /\ \/ Len(q) = MAX_QUEUE_SIZE /\ enqueue(q, p) = q
         \/ /\ Len(enqueue(q, p)) = Len(q) + 1
            /\ enqueue(q, p)[Len(q) + 1] = p
            /\ \A k \in 1 .. Len(q) : enqueue(q, p)[k] = q[k]
  BY <1>1, Enqueued
<1>4. QueuesOK'
  BY <1>1, <1>2, <1>3 DEF QueuesOK
<1>5. CASE Len(q) = MAX_QUEUE_SIZE /\ enqueue(q, p) = q
  <2>1. mlq_ready_queue' = mlq_ready_queue
    BY <1>1, <1>2, <1>5 DEF QueuesOK
  <2>2. EntriesApart' /\ \A r \in Proc : InReady(r)' <=> InReady(r)
    BY <2>1 DEF EntriesApart, InReady
  <2>3. ~ (Len(q) < MAX_QUEUE_SIZE)
    BY <1>5, QueueAssumption
  <2> QED
    BY <1>4, <2>2, <2>3
<1>6. CASE /\ Len(enqueue(q, p)) = Len(q) + 1
           /\ enqueue(q, p)[Len(q) + 1] = p
           /\ \A k \in 1 .. Len(q) : enqueue(q, p)[k] = q[k]
  <2> DEFINE last == Len(q) + 1
  <2>1. \A s \in queue_t : DOMAIN s = 1 .. Len(s) /\ Len(s) \in Nat
    BY DEF queue_t
  <2>2. \A l \in Prio : mlq_ready_queue[l] \in queue_t
    BY DEF QueuesOK
  <2>3. New(h) = enqueue(q, p) /\ \A l \in Prio : l # h => New(l) = mlq_ready_queue[l]
    BY <1>1, <1>2 DEF QueuesOK
  <2>4. DOMAIN New(h) = 1 .. last /\ DOMAIN q = 1 .. Len(q) /\ Len(q) \in Nat
    BY <1>1, <1>3, <1>6, <2>1, <2>3
  \* An entry is the new one or was there before at the same place.
  <2>5. \A l \in Prio : \A j \in DOMAIN New(l) :
          \/ l = h /\ j = last /\ New(l)[j] = p
          \/ j \in DOMAIN mlq_ready_queue[l] /\ New(l)[j] = mlq_ready_queue[l][j]
    <3> SUFFICES ASSUME NEW l \in Prio, NEW j \in DOMAIN New(l)
                 PROVE  \/ l = h /\ j = last /\ New(l)[j] = p
                        \/ /\ j \in DOMAIN mlq_ready_queue[l]
                           /\ New(l)[j] = mlq_ready_queue[l][j]
      OBVIOUS
    <3>1. CASE l # h
      BY <2>3, <3>1
    <3>2. CASE l = h
      <4>1. j \in 1 .. last /\ New(l) = enqueue(q, p)
        BY <2>3, <2>4, <3>2
      <4>2. CASE j = last
        BY <1>6, <3>2, <4>1, <4>2
      <4>3. CASE j # last
        <5>1. j \in 1 .. Len(q)
          BY <2>4, <4>1, <4>3
        <5> QED
          BY <1>6, <2>4, <3>2, <4>1, <5>1
      <4> QED
        BY <4>2, <4>3
    <3> QED
      BY <3>1, <3>2
  <2>6. \A l \in Prio : \A j \in DOMAIN mlq_ready_queue[l] :
          j \in DOMAIN New(l) /\ New(l)[j] = mlq_ready_queue[l][j]
    <3> SUFFICES ASSUME NEW l \in Prio, NEW j \in DOMAIN mlq_ready_queue[l]
                 PROVE  j \in DOMAIN New(l) /\ New(l)[j] = mlq_ready_queue[l][j]
      OBVIOUS
    <3>1. CASE l # h
      BY <2>3, <3>1
    <3>2. CASE l = h
      BY <1>6, <2>3, <2>4, <3>2
    <3> QED
      BY <3>1, <3>2
  <2>7. \A l \in Prio : \A j \in DOMAIN mlq_ready_queue[l] : mlq_ready_queue[l][j] # p
    BY DEF InReady
  <2>8. EntriesApart'
    <3> SUFFICES ASSUME NEW l \in Prio, NEW m \in Prio,
                        NEW j \in DOMAIN New(l), NEW k \in DOMAIN New(m),
                        New(l)[j] = New(m)[k]
                 PROVE  l = m /\ j = k
      BY DEF EntriesApart
    <3> HIDE DEF New, last, h, q
    <3>1. CASE New(l)[j] = p
      BY <2>5, <2>7, <3>1
    <3>2. CASE New(l)[j] # p
      <4>1. /\ j \in DOMAIN mlq_ready_queue[l] /\ k \in DOMAIN mlq_ready_queue[m]
            /\ mlq_ready_queue[l][j] = mlq_ready_queue[m][k]
        BY <2>5, <3>2
      <4> QED
        BY <4>1 DEF EntriesApart
    <3> QED
      BY <3>1, <3>2
  <2>9. \A r \in Proc : InReady(r) => InReady(r)'
    BY <2>6 DEF InReady
  <2>10. \A r \in Proc : InReady(r)' => InReady(r) \/ r = p
    BY <2>5 DEF InReady
  <2>11. InReady(p)'
    BY <1>1, <1>6, <2>3, <2>4 DEF InReady
  <2> QED
    BY <1>4, <2>8, <2>9, <2>10, <2>11
<1> QED
  BY <1>3, <1>5, <1>6

\* When a queue could hold all processes and one is missing from it, it is not full.
LEMMA HasRoom ==
  ASSUME QueuesOK, EntriesApart, num_processes \leq MAX_QUEUE_SIZE,
         NEW p \in Proc, ~ InReady(p), NEW l \in Prio
  PROVE  Len(mlq_ready_queue[l]) < MAX_QUEUE_SIZE
<1> DEFINE q == mlq_ready_queue[l]
<1>1. q \in Seq(Proc) /\ Len(q) \in Nat /\ DOMAIN q = 1 .. Len(q)
  BY DEF QueuesOK, queue_t
<1>2. \A j, k \in 1 .. Len(q) : q[j] = q[k] => j = k
  BY <1>1 DEF EntriesApart
<1>3. q \in [1 .. Len(q) -> (1 .. num_processes) \ {p}]
  <2>1. \A j \in 1 .. Len(q) : q[j] \in Proc /\ q[j] # p
    BY <1>1 DEF InReady
  <2>2. q \in [1 .. Len(q) -> Proc \ {p}]
    BY <1>1, <2>1
  <2> QED
    BY <2>2, OsAssumption
<1>4. num_processes \in Nat /\ p \in 1 .. num_processes
  BY OsAssumption
<1>5. Len(q) < num_processes
  BY <1>1, <1>2, <1>3, <1>4, OneMissing
<1> QED
  BY <1>1, <1>4, <1>5, QueueAssumption

-----------------------------------------------------------------------------
(* Types *)

\* The type invariant needs two places at which a thread holds a process.
Held ==
  /\ \A c \in CPU : cpc[c] = "putReady" => proc[c] # NULL
  /\ lpc = "addReady" => i \leq num_processes

\* get_mlq_proc on queues of the right type.
LEMMA TakesTyped ==
  ASSUME NEW c \in CPU, QueuesOK, get_proc(c)
  PROVE  /\ QueuesOK'
         /\ \E p \in Proc \cup {NULL} : proc' = [proc EXCEPT ![c] = p]
<1>1. CASE Waiting = {}
  BY <1>1 DEF get_proc, QueuesOK
<1>2. CASE Waiting # {}
  <2>1. /\ highest_index \in Prio
        /\ mlq_ready_queue[highest_index] \in queue_t
        /\ ~ empty(mlq_ready_queue[highest_index])
    BY <1>2, HighestWaits DEF Waiting, QueuesOK
  <2>2. /\ selected(mlq_ready_queue[highest_index]) \in Proc
        /\ dequeue(mlq_ready_queue[highest_index]) \in queue_t
    BY <2>1, Dequeued
  <2> QED
    BY <1>2, <2>1, <2>2 DEF get_proc, QueuesOK
<1> QED
  BY <1>1, <1>2

\* A thread that arrives at the end of its slot or detaches leaves the time alone.
ClockTyped == state \in [Device -> {"working", "arrived", "gone"}] /\ time \in 0 .. TIME_MOD - 1

LEMMA ClockMoves ==
  ASSUME ClockTyped, NEW d \in Device, Clock!Arrive(d) \/ Clock!Leave(d)
  PROVE  ClockTyped'
BY DEF ClockTyped, Clock!Arrive, Clock!Leave

LEMMA TypeInit == Init => TypeOK /\ Held
<1> SUFFICES ASSUME Init PROVE TypeOK /\ Held
  OBVIOUS
<1>1. mlq_ready_queue \in [Prio -> queue_t] /\ running_list \in queue_t
  BY QueueAssumption DEF Init, queue_t
<1>2. state \in [Device -> {"working", "arrived", "gone"}] /\ time \in 0 .. TIME_MOD - 1
  BY OsAssumption DEF Init, Clock!ClockInit
<1>3. /\ pc \in [Proc -> Nat] /\ \A p \in Proc : pc[p] \leq codeSize[p]
      /\ freed \subseteq Proc /\ time_left \in [CPU -> 0 .. time_slot]
      /\ i \in 1 .. num_processes + 1
  BY OsAssumption DEF Init
<1> QED
  BY <1>1, <1>2, <1>3 DEF Init, TypeOK, Held, NULL

LEMMA TypeStep == TypeOK /\ Held /\ [Next]_vars => TypeOK' /\ Held'
<1> SUFFICES ASSUME TypeOK, Held, [Next]_vars PROVE TypeOK' /\ Held'
  OBVIOUS
<1> USE DEF TypeOK, Held, schedVars, cpuVars, ldVars, procVars, clock, Goto, At, ldAt
<1>a. QueuesOK /\ ClockTyped
  BY DEF QueuesOK, ClockTyped
<1>b. Proc = 1 .. num_processes /\ num_processes \in Nat /\ NULL \notin Proc
  BY OsAssumption DEF NULL
<1>1. ASSUME NEW c \in CPU, FirstLoad(c) PROVE TypeOK' /\ Held'
  <2>1. QueuesOK' /\ \E p \in Proc \cup {NULL} : proc' = [proc EXCEPT ![c] = p]
    BY <1>1, <1>a, TakesTyped DEF FirstLoad
  <2>2. ClockTyped'
    BY <1>1, <1>a, ClockMoves DEF FirstLoad, ClockTyped, Device
  <2> QED
    BY <1>1, <2>1, <2>2 DEF FirstLoad, QueuesOK, ClockTyped
<1>2. ASSUME NEW c \in CPU, Finish(c) PROVE TypeOK' /\ Held'
  <2>1. proc[c] \in Proc /\ freed' \subseteq Proc
    BY <1>2 DEF Finish
  <2>2. time_left' \in [CPU -> 0 .. time_slot]
    BY <1>2, OsAssumption DEF Finish
  <2> QED
    BY <1>2, <2>1, <2>2 DEF Finish
<1>3. ASSUME NEW c \in CPU, PutRunning(c) PROVE TypeOK' /\ Held'
  <2>1. running_list' \in queue_t
    BY <1>3, Enqueued DEF PutRunning, put_running_list
  <2> QED
    BY <1>3, <2>1 DEF PutRunning, put_running_list
<1>4. ASSUME NEW c \in CPU, PutReady(c) PROVE TypeOK' /\ Held'
  <2>1. proc[c] \in Proc /\ prio[proc[c]] \in Prio
    BY <1>4, OsAssumption DEF PutReady, Prio
  <2>2. enqueue(mlq_ready_queue[prio[proc[c]]], proc[c]) \in queue_t
    BY <2>1, Enqueued
  <2> QED
    BY <1>4, <2>1, <2>2 DEF PutReady, put_mlq_proc
<1>5. ASSUME NEW c \in CPU, GetNext(c) PROVE TypeOK' /\ Held'
  <2>1. QueuesOK' /\ \E p \in Proc \cup {NULL} : proc' = [proc EXCEPT ![c] = p]
    BY <1>5, <1>a, TakesTyped DEF GetNext
  <2> QED
    BY <1>5, <2>1 DEF GetNext, QueuesOK
<1>6. ASSUME NEW c \in CPU, Stop(c) PROVE TypeOK' /\ Held'
  BY <1>6, <1>a, ClockMoves DEF Stop, ClockTyped, Device
<1>7. ASSUME NEW c \in CPU, SkipSlot(c) PROVE TypeOK' /\ Held'
  BY <1>7, <1>a, ClockMoves DEF SkipSlot, ClockTyped, Device
<1>8. ASSUME NEW c \in CPU, Run(c) PROVE TypeOK' /\ Held'
  <2>1. ClockTyped'
    BY <1>8, <1>a, ClockMoves DEF Run, ClockTyped, Device
  <2>2. slice(c) - 1 \in 0 .. time_slot
    BY OsAssumption DEF slice
  <2>3. pc' \in [Proc -> Nat] /\ \A p \in Proc : pc'[p] \leq codeSize[p]
    <3>1. proc[c] \in Proc /\ codeSize \in [Proc -> Nat]
      BY <1>8, OsAssumption DEF Run
    <3>2. CASE Ended(proc[c])
      BY <1>8, <3>1, <3>2 DEF Run
    <3>3. CASE ~ Ended(proc[c])
      <4>1. pc' = [pc EXCEPT ![proc[c]] = @ + 1]
        BY <1>8, <3>3 DEF Run
      <4>2. pc[proc[c]] \in Nat /\ pc[proc[c]] + 1 \leq codeSize[proc[c]]
        BY <3>1, <3>3 DEF Ended
      <4> QED
        BY <3>1, <4>1, <4>2
    <3> QED
      BY <3>2, <3>3
  <2> QED
    BY <1>8, <2>1, <2>2, <2>3 DEF Run, ClockTyped
<1>9. ASSUME WaitForStart PROVE TypeOK' /\ Held'
  BY <1>9, <1>a, ClockMoves DEF WaitForStart, ClockTyped, Device
<1>10. ASSUME AddRunning PROVE TypeOK' /\ Held'
  <2>1. running_list' \in queue_t
    BY <1>10, <1>b, Enqueued DEF AddRunning, put_running_list
  <2> QED
    BY <1>10, <2>1 DEF AddRunning, put_running_list
<1>11. ASSUME AddReady PROVE TypeOK' /\ Held'
  <2>1. i \in Proc /\ prio[i] \in Prio
    BY <1>11, <1>b, OsAssumption DEF AddReady, Prio
  <2>2. enqueue(mlq_ready_queue[prio[i]], i) \in queue_t
    BY <2>1, Enqueued
  <2>3. ClockTyped'
    BY <1>11, <1>a, ClockMoves DEF AddReady, ClockTyped, Device
  <2> QED
    BY <1>11, <1>b, <2>1, <2>2, <2>3 DEF AddReady, put_mlq_proc, ClockTyped
<1>12. ASSUME AllLoaded PROVE TypeOK' /\ Held'
  BY <1>12, <1>a, ClockMoves DEF AllLoaded, ClockTyped, Device
<1>13. ASSUME Tick PROVE TypeOK' /\ Held'
  <2>1. time' \in 0 .. TIME_MOD - 1
    BY <1>13, OsAssumption DEF Tick, Clock!Tick, Clock!Inc
  <2>2. state' \in [Device -> {"working", "arrived", "gone"}]
    BY <1>13 DEF Tick, Clock!Tick
  <2> QED
    BY <1>13, <2>1, <2>2 DEF Tick
<1>14. CASE UNCHANGED vars
  BY <1>14 DEF vars
<1> QED
  BY <1>1, <1>2, <1>3, <1>4, <1>5, <1>6, <1>7, <1>8, <1>9, <1>10, <1>11, <1>12, <1>13,
     <1>14 DEF Next, cpu_routine, ld_routine

\* os.c's threads and sched.c's queues keep their types, for any number of CPUs,
\* processes and levels.
THEOREM TypesKept == Spec => []TypeOK
<1>1. Init => TypeOK /\ Held
  BY TypeInit
<1>2. TypeOK /\ Held /\ [Next]_vars => TypeOK' /\ Held'
  BY TypeStep
<1> QED
  BY <1>1, <1>2, PTL DEF Spec

-----------------------------------------------------------------------------
(* Owners *)

\* What is known of the places that ExclusiveOwner does not mention: only a loaded
\* process is anywhere, and a CPU about to look for a process has none.
Owned ==
  /\ TypeOK /\ Held
  /\ ExclusiveOwner
  /\ \A c \in CPU : cpc[c] \in {"get", "stopped"} => proc[c] = NULL
  /\ \A p \in Proc : InReady(p) \/ OnCPU(p) \/ p \in freed => p < i

\* The four parts of ExclusiveOwner, the entries of the queues under their name.
LEMMA OwnerParts ==
  ExclusiveOwner <=>
    /\ \A c, d \in CPU : proc[c] = proc[d] /\ proc[c] # NULL => c = d
    /\ EntriesApart
    /\ \A p \in Proc : InReady(p) => ~ OnCPU(p)
    /\ \A p \in freed : ~ InReady(p) /\ ~ OnCPU(p)
BY DEF ExclusiveOwner, EntriesApart

LEMMA OwnedInit == Init => Owned
<1> SUFFICES ASSUME Init PROVE Owned
  OBVIOUS
<1>1. TypeOK /\ Held
  BY TypeInit
<1>2. /\ \A p \in Proc : ~ InReady(p) /\ ~ OnCPU(p)
      /\ EntriesApart
  BY OsAssumption DEF Init, InReady, OnCPU, EntriesApart, NULL
<1> QED
  BY <1>1, <1>2, OwnerParts DEF Init, Owned

\* A step that moves no process.
LEMMA NobodyMoves ==
  ASSUME Owned, TypeOK', Held', UNCHANGED <<mlq_ready_queue, proc, freed, i>>,
         \A c \in CPU : cpc'[c] \in {"get", "stopped"} => proc[c] = NULL
  PROVE  Owned'
<1>1. \A p \in Proc : (InReady(p)' <=> InReady(p)) /\ (OnCPU(p)' <=> OnCPU(p))
  BY DEF InReady, OnCPU
<1>2. ExclusiveOwner'
  BY DEF Owned, ExclusiveOwner, InReady, OnCPU
<1> QED
  BY <1>1, <1>2 DEF Owned

\* A CPU without a process calls get_proc.
LEMMA CpuTakes ==
  ASSUME Owned, TypeOK', Held', NEW c \in CPU, proc[c] = NULL, get_proc(c),
         UNCHANGED <<freed, i>>,
         \A d \in CPU : cpc'[d] \in {"get", "stopped"} => d # c /\ cpc[d] = cpc'[d]
  PROVE  Owned'
<1> USE DEF Owned
<1>a. QueuesOK /\ EntriesApart /\ proc \in [CPU -> Proc \cup {NULL}]
  BY OwnerParts DEF QueuesOK, TypeOK
<1>b. NULL \notin Proc
  BY OsAssumption DEF NULL
<1>1. CASE Waiting = {} /\ UNCHANGED mlq_ready_queue /\ proc' = [proc EXCEPT ![c] = NULL]
  <2>1. proc' = proc
    BY <1>1, <1>a
  <2> QED
    BY <1>1, <2>1, NobodyMoves
<1>2. ASSUME NEW p \in Proc, InReady(p), proc' = [proc EXCEPT ![c] = p],
             \A r \in Proc : InReady(r)' <=> InReady(r) /\ r # p
      PROVE  Owned'
  <2>1. \A r \in Proc : OnCPU(r)' <=> OnCPU(r) \/ r = p
    BY <1>2, <1>a, <1>b DEF OnCPU
  <2>2. EntriesApart'
    BY <1>a, TakesOne
  <2>3. ~ OnCPU(p) /\ p \notin freed
    BY <1>2, OwnerParts
  <2>4. \A d, e \in CPU : proc'[d] = proc'[e] /\ proc'[d] # NULL => d = e
    BY <1>2, <1>a, <1>b, <2>3, OwnerParts DEF OnCPU
  <2>5. \A r \in Proc : InReady(r)' => ~ OnCPU(r)'
    BY <1>2, <2>1, OwnerParts
  <2>6. \A r \in freed' : ~ InReady(r)' /\ ~ OnCPU(r)'
    <3>1. freed \subseteq Proc
      BY DEF TypeOK
    <3> QED
      BY <1>2, <2>1, <2>3, <3>1, OwnerParts
  <2>7. ExclusiveOwner'
    BY <2>2, <2>4, <2>5, <2>6 DEF ExclusiveOwner, EntriesApart
  <2>8. \A d \in CPU : cpc'[d] \in {"get", "stopped"} => proc'[d] = NULL
    BY <1>2, <1>a
  <2>9. \A r \in Proc : InReady(r)' \/ OnCPU(r)' \/ r \in freed' => r < i'
    BY <1>2, <2>1
  <2> QED
    BY <2>7, <2>8, <2>9
<1> QED
  BY <1>1, <1>2, <1>a, TakesOne

LEMMA OwnedStep == Owned /\ [Next]_vars => Owned'
<1> SUFFICES ASSUME Owned, [Next]_vars PROVE Owned'
  OBVIOUS
<1>a. TypeOK' /\ Held'
  BY TypeStep DEF Owned
<1>b. /\ proc \in [CPU -> Proc \cup {NULL}]
      /\ cpc \in [CPU -> {"top", "putReady", "get", "recheck", "stopped"}]
      /\ \A c \in CPU : cpc[c] \in {"get", "stopped"} => proc[c] = NULL
      /\ QueuesOK /\ EntriesApart /\ freed \subseteq Proc
  BY OwnerParts DEF Owned, TypeOK, QueuesOK
<1>c. Proc = 1 .. num_processes /\ NULL \notin Proc
  BY OsAssumption DEF NULL
<1> USE DEF schedVars, cpuVars, ldVars, procVars, Goto, At, ldAt
<1>1. ASSUME NEW c \in CPU, FirstLoad(c) PROVE Owned'
  <2>1. proc[c] = NULL /\ get_proc(c) /\ UNCHANGED <<freed, i>>
    BY <1>1 DEF FirstLoad
  <2>2. \A d \in CPU : cpc'[d] \in {"get", "stopped"} => d # c /\ cpc[d] = cpc'[d]
    BY <1>1, <1>b DEF FirstLoad
  <2> QED
    BY <1>a, <2>1, <2>2, CpuTakes
<1>2. ASSUME NEW c \in CPU, Finish(c) PROVE Owned'
  <2> DEFINE p == proc[c]
  <2>1. p \in Proc /\ OnCPU(p)
    BY <1>2, <1>b DEF Finish, OnCPU
  <2>2. /\ UNCHANGED <<mlq_ready_queue, i>> /\ freed' = freed \cup {p}
        /\ proc' = [proc EXCEPT ![c] = NULL] /\ cpc' = [cpc EXCEPT ![c] = "get"]
    BY <1>2 DEF Finish
  <2> HIDE DEF p
  <2>3. \A d \in CPU : proc[d] = p => d = c
    BY <2>1, <1>c, OwnerParts DEF Owned, p
  <2>4. \A r \in Proc : OnCPU(r)' <=> OnCPU(r) /\ r # p
    BY <1>b, <1>c, <2>1, <2>2, <2>3 DEF OnCPU, p
  <2>5. \A r \in Proc : InReady(r)' <=> InReady(r)
    BY <2>2 DEF InReady
  <2>6. EntriesApart'
    BY <1>b, <2>2 DEF EntriesApart
  <2>7. \A d, e \in CPU : proc'[d] = proc'[e] /\ proc'[d] # NULL => d = e
    BY <1>b, <2>2, OwnerParts DEF Owned
  <2>8. \A r \in Proc : InReady(r)' => ~ OnCPU(r)'
    BY <2>4, <2>5, OwnerParts DEF Owned
  <2>9. \A r \in freed' : ~ InReady(r)' /\ ~ OnCPU(r)'
    BY <1>b, <2>1, <2>2, <2>4, <2>5, OwnerParts DEF Owned
  <2>10. ExclusiveOwner'
    BY <2>6, <2>7, <2>8, <2>9 DEF ExclusiveOwner, EntriesApart
  <2>11. \A d \in CPU : cpc'[d] \in {"get", "stopped"} => proc'[d] = NULL
    BY <1>b, <2>2
  <2>12. \A r \in Proc : InReady(r)' \/ OnCPU(r)' \/ r \in freed' => r < i'
    BY <2>1, <2>2, <2>4, <2>5 DEF Owned
  <2> QED
    BY <1>a, <2>10, <2>11, <2>12 DEF Owned
<1>3. ASSUME NEW c \in CPU, PutRunning(c) PROVE Owned'
  BY <1>3, <1>a, <1>b, NobodyMoves DEF PutRunning, put_running_list
<1>4. ASSUME NEW c \in CPU, PutReady(c) PROVE Owned'
  <2> DEFINE p == proc[c]
  <2>1. p \in Proc /\ OnCPU(p)
    BY <1>4, <1>b DEF PutReady, OnCPU, Owned, Held
  <2>2. /\ put_mlq_proc(p) /\ UNCHANGED <<freed, i>>
        /\ proc' = [proc EXCEPT ![c] = NULL] /\ cpc' = [cpc EXCEPT ![c] = "get"]
    BY <1>4 DEF PutReady
  <2> HIDE DEF p
  <2>3. ~ InReady(p) /\ p \notin freed
    BY <2>1, OwnerParts DEF Owned
  <2>4. \A d \in CPU : proc[d] = p => d = c
    BY <2>1, <1>c, OwnerParts DEF Owned, p
  <2>5. \A r \in Proc : OnCPU(r)' <=> OnCPU(r) /\ r # p
    BY <1>b, <1>c, <2>1, <2>2, <2>4 DEF OnCPU, p
  <2>6. EntriesApart' /\ \A r \in Proc : InReady(r)' => InReady(r) \/ r = p
    BY <1>b, <2>1, <2>2, <2>3, PutsOne
  <2>7. \A d, e \in CPU : proc'[d] = proc'[e] /\ proc'[d] # NULL => d = e
    BY <1>b, <2>2, OwnerParts DEF Owned
  <2>8. \A r \in Proc : InReady(r)' => ~ OnCPU(r)'
    BY <2>5, <2>6, OwnerParts DEF Owned
  <2>9. \A r \in freed' : ~ InReady(r)' /\ ~ OnCPU(r)'
    BY <1>b, <2>2, <2>3, <2>5, <2>6, OwnerParts DEF Owned
  <2>10. ExclusiveOwner'
    BY <2>6, <2>7, <2>8, <2>9 DEF ExclusiveOwner, EntriesApart
  <2>11. \A d \in CPU : cpc'[d] \in {"get", "stopped"} => proc'[d] = NULL
    BY <1>b, <2>2
  <2>12. \A r \in Proc : InReady(r)' \/ OnCPU(r)' \/ r \in freed' => r < i'
    BY <2>1, <2>2, <2>5, <2>6 DEF Owned
  <2> QED
    BY <1>a, <2>10, <2>11, <2>12 DEF Owned
<1>5. ASSUME NEW c \in CPU, GetNext(c) PROVE Owned'
  <2>1. proc[c] = NULL /\ get_proc(c) /\ UNCHANGED <<freed, i>>
    BY <1>5, <1>b DEF GetNext
  <2>2. \A d \in CPU : cpc'[d] \in {"get", "stopped"} => d # c /\ cpc[d] = cpc'[d]
    BY <1>5, <1>b DEF GetNext
  <2> QED
    BY <1>a, <2>1, <2>2, CpuTakes
<1>6. ASSUME NEW c \in CPU, Stop(c) PROVE Owned'
  BY <1>6, <1>a, <1>b, NobodyMoves DEF Stop
<1>7. ASSUME NEW c \in CPU, SkipSlot(c) PROVE Owned'
  BY <1>7, <1>a, <1>b, NobodyMoves DEF SkipSlot
<1>8. ASSUME NEW c \in CPU, Run(c) PROVE Owned'
  BY <1>8, <1>a, <1>b, NobodyMoves DEF Run
<1>9. ASSUME WaitForStart PROVE Owned'
  BY <1>9, <1>a, <1>b, NobodyMoves DEF WaitForStart
<1>10. ASSUME AddRunning PROVE Owned'
  BY <1>10, <1>a, <1>b, NobodyMoves DEF AddRunning, put_running_list
<1>11. ASSUME AddReady PROVE Owned'
  <2>1. i \in Proc /\ put_mlq_proc(i) /\ i' = i + 1 /\ UNCHANGED <<freed, proc, cpc>>
    BY <1>11, <1>c DEF AddReady, Owned, Held, TypeOK
  <2>2. ~ InReady(i) /\ ~ OnCPU(i) /\ i \notin freed
    BY <1>c, <2>1 DEF Owned
  <2>3. \A r \in Proc : OnCPU(r)' <=> OnCPU(r)
    BY <2>1 DEF OnCPU
  <2>4. EntriesApart' /\ \A r \in Proc : InReady(r)' => InReady(r) \/ r = i
    BY <1>b, <2>1, <2>2, PutsOne
  <2>5. \A r \in Proc : InReady(r)' => ~ OnCPU(r)'
    BY <2>2, <2>3, <2>4, OwnerParts DEF Owned
  <2>6. \A r \in freed' : ~ InReady(r)' /\ ~ OnCPU(r)'
    BY <1>b, <2>1, <2>2, <2>3, <2>4, OwnerParts DEF Owned
  <2>7. ExclusiveOwner'
    BY <2>1, <2>4, <2>5, <2>6, OwnerParts DEF ExclusiveOwner, EntriesApart, Owned
  <2>8. \A r \in Proc : InReady(r)' \/ OnCPU(r)' \/ r \in freed' => r < i'
    BY <1>c, <2>1, <2>3, <2>4 DEF Owned
  <2> QED
    BY <1>a, <1>b, <2>1, <2>7, <2>8 DEF Owned
<1>12. ASSUME AllLoaded PROVE Owned'
  BY <1>12, <1>a, <1>b, NobodyMoves DEF AllLoaded
<1>13. ASSUME Tick PROVE Owned'
  BY <1>13, <1>a, <1>b, NobodyMoves DEF Tick
<1>14. CASE UNCHANGED vars
  BY <1>14, <1>a, <1>b, NobodyMoves DEF vars
<1> QED
  BY <1>1, <1>2, <1>3, <1>4, <1>5, <1>6, <1>7, <1>8, <1>9, <1>10, <1>11, <1>12, <1>13,
     <1>14 DEF Next, cpu_routine, ld_routine

\* A process has one owner, however get_proc, put_proc and free() interleave on any
\* number of CPUs (sched.c:86, os.c:67, os.c:74).
THEOREM OneOwner == Spec => []ExclusiveOwner
<1>1. Init => Owned
  BY OwnedInit
<1>2. Owned /\ [Next]_vars => Owned'
  BY OwnedStep
<1>3. Owned => ExclusiveOwner
  BY DEF Owned
<1> QED
  BY <1>1, <1>2, <1>3, PTL DEF Spec

-----------------------------------------------------------------------------
(* Nothing lost *)

\* A process is somewhere.
Somewhere(p) == InReady(p) \/ OnCPU(p) \/ p \in freed

\* Of the processes with an owner, none loses it but for another one.
LEMMA StaysSomewhere ==
  ASSUME Owned, num_processes \leq MAX_QUEUE_SIZE, [Next]_vars,
         NEW p \in Proc, Somewhere(p)
  PROVE  Somewhere(p)'
<1>b. /\ proc \in [CPU -> Proc \cup {NULL}]
      /\ \A c \in CPU : cpc[c] \in {"get", "stopped"} => proc[c] = NULL
      /\ QueuesOK /\ EntriesApart
  BY OwnerParts DEF Owned, TypeOK, QueuesOK
<1>c. Proc = 1 .. num_processes /\ NULL \notin Proc
  BY OsAssumption DEF NULL
<1> USE DEF schedVars, cpuVars, ldVars, procVars, Goto, At, ldAt
\* get_proc by a CPU without a process.
<1>1. ASSUME NEW c \in CPU, proc[c] = NULL, get_proc(c), UNCHANGED freed
      PROVE  Somewhere(p)'
  <2>1. CASE UNCHANGED mlq_ready_queue /\ proc' = [proc EXCEPT ![c] = NULL]
    <3>1. proc' = proc
      BY <1>1, <1>b, <2>1
    <3> QED
      BY <1>1, <2>1, <3>1 DEF Somewhere, InReady, OnCPU
  <2>2. ASSUME NEW q \in Proc, proc' = [proc EXCEPT ![c] = q],
               \A r \in Proc : InReady(r)' <=> InReady(r) /\ r # q
        PROVE  Somewhere(p)'
    <3>1. \A r \in Proc : OnCPU(r) \/ r = q => OnCPU(r)'
      BY <1>1, <1>b, <1>c, <2>2 DEF OnCPU
    <3> QED
      BY <1>1, <2>2, <3>1 DEF Somewhere
  <2> QED
    BY <1>1, <1>b, <2>1, <2>2, TakesOne
\* put_mlq_proc of a process with a free place in the queues.
<1>2. ASSUME NEW q \in Proc, ~ InReady(q), put_mlq_proc(q)
      PROVE  InReady(q)' /\ (InReady(p) => InReady(p)')
  <2>1. prio[q] \in Prio
    BY OsAssumption DEF Prio
  <2>2. Len(mlq_ready_queue[prio[q]]) < MAX_QUEUE_SIZE
    BY <1>2, <1>b, <2>1, HasRoom
  <2> QED
    BY <1>2, <1>b, <2>2, PutsOne
<1>3. ASSUME NEW c \in CPU, FirstLoad(c) \/ GetNext(c) PROVE Somewhere(p)'
  BY <1>1, <1>3, <1>b DEF FirstLoad, GetNext
<1>4. ASSUME NEW c \in CPU, Finish(c) PROVE Somewhere(p)'
  <2>1. /\ InReady(p) => InReady(p)'
        /\ OnCPU(p) => OnCPU(p)' \/ p = proc[c]
    BY <1>4, <1>b DEF Finish, InReady, OnCPU
  <2> QED
    BY <1>4, <2>1 DEF Finish, Somewhere
<1>5. ASSUME NEW c \in CPU, PutReady(c) PROVE Somewhere(p)'
  <2>1. PICK q \in Proc : q = proc[c]
    BY <1>5, <1>b DEF PutReady, Owned, Held
  <2>2. ~ InReady(q) /\ put_mlq_proc(q)
    BY <1>5, <2>1, OwnerParts DEF PutReady, OnCPU, Owned
  <2>3. InReady(q)' /\ (InReady(p) => InReady(p)')
    BY <1>2, <2>2
  <2>4. OnCPU(p) => OnCPU(p)' \/ p = q
    BY <1>5, <1>b, <2>1 DEF PutReady, OnCPU
  <2> QED
    BY <1>5, <2>3, <2>4 DEF PutReady, Somewhere
<1>6. ASSUME AddReady PROVE Somewhere(p)'
  <2>1. i \in Proc /\ ~ InReady(i)
    BY <1>6, <1>c DEF AddReady, Owned, Held, TypeOK
  <2> QED
    BY <1>2, <1>6, <2>1 DEF AddReady, Somewhere, OnCPU
<1>7. CASE UNCHANGED <<mlq_ready_queue, proc, freed>>
  BY <1>7 DEF Somewhere, InReady, OnCPU
<1> QED
  BY <1>3, <1>4, <1>5, <1>6, <1>7 DEF Next, cpu_routine, ld_routine, vars, Tick,
     PutRunning, put_running_list, Stop, SkipSlot, Run, WaitForStart, AddRunning, AllLoaded

\* As long as a queue could hold every process, none that was loaded is ever lost:
\* `enqueue` ignores no request (queue.c:12).
THEOREM NobodyDropped ==
  ASSUME num_processes \leq MAX_QUEUE_SIZE
  PROVE  Spec => []NothingLost
<1>1. Init => Owned /\ NothingLost
  BY OwnedInit DEF Init, NothingLost, Owned, TypeOK
<1>2. Owned /\ NothingLost /\ [Next]_vars => Owned' /\ NothingLost'
  <2> SUFFICES ASSUME Owned, NothingLost, [Next]_vars PROVE NothingLost'
    BY OwnedStep
  <2>1. \A p \in Proc : p < i => Somewhere(p)'
    BY StaysSomewhere DEF NothingLost, Somewhere
  <2>2. CASE i' = i
    BY <2>1, <2>2 DEF NothingLost, Somewhere
  <2>3. CASE i' # i
    <3>1. AddReady
      BY <2>3 DEF Next, cpu_routine, ld_routine, vars, Tick, FirstLoad, Finish, PutRunning,
         PutReady, GetNext, Stop, SkipSlot, Run, WaitForStart, AddRunning, AllLoaded,
         ldVars
    <3>2. PICK q \in Proc : q = i
      BY <3>1, OsAssumption DEF AddReady, Owned, Held, TypeOK, ldAt
    <3>3. ~ InReady(q) /\ put_mlq_proc(q) /\ i' = q + 1
      BY <3>1, <3>2, OsAssumption DEF AddReady, Owned
    <3>4. QueuesOK /\ EntriesApart /\ prio[q] \in Prio
      BY OwnerParts, OsAssumption DEF Owned, TypeOK, QueuesOK, Prio
    <3>5. InReady(q)'
      BY <3>3, <3>4, HasRoom, PutsOne
    <3>6. \A p \in Proc : p < i' => p < i \/ p = q
      BY <3>2, <3>3, OsAssumption
    <3> QED
      BY <2>1, <3>5, <3>6 DEF NothingLost, Somewhere
  <2> QED
    BY <2>2, <2>3
<1> QED
  BY <1>1, <1>2, PTL DEF Spec

-----------------------------------------------------------------------------
(* Sets of which one has no more members than the other *)

NoMoreThan(R, G) == \E f \in [R -> G] : \A p, q \in R : f[p] = f[q] => p = q

LEMMA Fewer ==
  ASSUME NEW R, NEW G, NoMoreThan(R, G), NEW S \in SUBSET R, NEW H, G \subseteq H
  PROVE  NoMoreThan(S, H)
<1>1. PICK f \in [R -> G] : \A p, q \in R : f[p] = f[q] => p = q
  BY DEF NoMoreThan
<1>2. [p \in S |-> f[p]] \in [S -> H]
  BY <1>1
<1> QED
  BY <1>1, <1>2 DEF NoMoreThan

LEMMA BothGrow ==
  ASSUME NEW R, NEW G, NoMoreThan(R, G), NEW p, NEW c, c \notin G
  PROVE  NoMoreThan(R \cup {p}, G \cup {c})
<1>1. PICK f \in [R -> G] : \A q, r \in R : f[q] = f[r] => q = r
  BY DEF NoMoreThan
<1> DEFINE g == [q \in R \cup {p} |-> IF q \in R THEN f[q] ELSE c]
<1>2. g \in [R \cup {p} -> G \cup {c}]
  BY <1>1
<1>3. \A q, r \in R \cup {p} : g[q] = g[r] => q = r
  BY <1>1
<1> QED
  BY <1>2, <1>3 DEF NoMoreThan

LEMMA BothShrink ==
  ASSUME NEW R, NEW G, NoMoreThan(R, G), NEW p \in R, NEW c
  PROVE  NoMoreThan(R \ {p}, G \ {c})
<1>1. PICK f \in [R -> G] : \A q, r \in R : f[q] = f[r] => q = r
  BY DEF NoMoreThan
\* Whoever was counted against c is now counted against p's partner.
<1> DEFINE g == [q \in R \ {p} |-> IF f[q] = c THEN f[p] ELSE f[q]]
<1>2. g \in [R \ {p} -> G \ {c}]
  <2> SUFFICES ASSUME NEW q \in R \ {p}
               PROVE  g[q] \in G \ {c}
    OBVIOUS
  <2> QED
    BY <1>1
<1>3. \A q, r \in R \ {p} : g[q] = g[r] => q = r
  BY <1>1
<1> QED
  BY <1>2, <1>3 DEF NoMoreThan

LEMMA OneOver ==
  ASSUME NEW R, NEW G, NoMoreThan(R, G), NEW c, NEW other
  PROVE  \E x \in R \cup {other} : NoMoreThan(R \ {x}, G \ {c})
<1>1. PICK f \in [R -> G] : \A q, r \in R : f[q] = f[r] => q = r
  BY DEF NoMoreThan
<1>2. PICK x \in R \cup {other} : \A q \in R : f[q] = c => q = x
  BY <1>1
<1> DEFINE g == [q \in R \ {x} |-> f[q]]
<1>3. g \in [R \ {x} -> G \ {c}]
  <2> SUFFICES ASSUME NEW q \in R \ {x}
               PROVE  g[q] \in G \ {c}
    OBVIOUS
  <2> QED
    BY <1>1, <1>2
<1>4. \A q, r \in R \ {x} : g[q] = g[r] => q = r
  BY <1>1
<1>5. NoMoreThan(R \ {x}, G \ {c})
  <2> HIDE DEF g
  <2> QED BY <1>3, <1>4 DEF NoMoreThan
<1> QED
  BY <1>5

LEMMA NoneOfAny == \A G : NoMoreThan({}, G)
<1> SUFFICES ASSUME NEW G PROVE NoMoreThan({}, G)
  OBVIOUS
<1>1. [p \in {} |-> p] \in [{} -> G]
  OBVIOUS
<1> QED
  BY <1>1 DEF NoMoreThan

-----------------------------------------------------------------------------
(* Idle CPUs *)

\* CPUs that are about to take a process.
Getting == {c \in CPU : cpc[c] = "get"}

\* In this slot some CPU has found the queues empty, or has stopped.
Looked == \E c \in CPU :
  \/ cpc[c] = "stopped"
  \/ cpc[c] = "recheck" /\ proc[c] = NULL
  \/ cpc[c] = "top" /\ proc[c] = NULL /\ state[c] # "working"

\* The clock and the places agree, and `done` ends the loading.
Places ==
  /\ \A c \in CPU : /\ cpc[c] \in {"putReady", "get", "recheck"} => state[c] = "working"
                    /\ state[c] = "gone" <=> cpc[c] = "stopped"
                    /\ cpc[c] = "stopped" => done
  /\ done <=> state[ld] = "gone"
  /\ done => i = num_processes + 1

\* Once a CPU has found the queues empty, what is ready again was put back by a CPU
\* that has still to take one, but for a process the loader added to end its slot.
SpokenFor ==
  Looked =>
    /\ state[ld] # "arrived" => NoMoreThan(ReadySet, Getting)
    /\ \E x \in Proc \cup {NULL} : NoMoreThan(ReadySet \ {x}, Getting)

Drained == Owned /\ Places /\ SpokenFor

LEMMA DrainedInit == Init => Drained
<1> SUFFICES ASSUME Init PROVE Drained
  OBVIOUS
<1>1. Places
  BY DEF Init, Places, Clock!ClockInit, Device
<1>2. ~ Looked
  BY DEF Init, Looked, Clock!ClockInit, Device
<1> QED
  BY <1>1, <1>2, OwnedInit DEF Drained, SpokenFor

LEMMA PlacesStep == Owned /\ Places /\ [Next]_vars => Places'
<1> SUFFICES ASSUME Owned, Places, [Next]_vars PROVE Places'
  OBVIOUS
<1>a. /\ ld \notin CPU /\ ld \in Device /\ CPU \subseteq Device
      /\ cpc \in [CPU -> {"top", "putReady", "get", "recheck", "stopped"}]
      /\ state \in [Device -> {"working", "arrived", "gone"}]
      /\ i \in 1 .. num_processes + 1
  BY OsAssumption DEF Owned, TypeOK, Device
<1> USE DEF Places, schedVars, cpuVars, ldVars, procVars, clock, Goto, At, ldAt
<1>1. ASSUME NEW c \in CPU, cpu_routine(c) PROVE Places'
  <2>1. CASE FirstLoad(c)
    BY <1>a, <2>1 DEF FirstLoad, Clock!Arrive
  <2>2. CASE Finish(c)
    BY <1>a, <2>2 DEF Finish
  <2>3. CASE PutRunning(c)
    BY <1>a, <2>3 DEF PutRunning
  <2>4. CASE PutReady(c)
    BY <1>a, <2>4 DEF PutReady
  <2>5. CASE GetNext(c)
    BY <1>a, <2>5 DEF GetNext
  <2>6. CASE Stop(c)
    BY <1>a, <2>6 DEF Stop, Clock!Leave
  <2>7. CASE SkipSlot(c)
    BY <1>a, <2>7 DEF SkipSlot, Clock!Arrive
  <2>8. CASE Run(c)
    BY <1>a, <2>8 DEF Run, Clock!Arrive
  <2> QED
    BY <1>1, <2>1, <2>2, <2>3, <2>4, <2>5, <2>6, <2>7, <2>8 DEF cpu_routine
<1>2. ASSUME ld_routine PROVE Places'
  <2>1. CASE WaitForStart
    BY <1>a, <2>1 DEF WaitForStart, Clock!Arrive
  <2>2. CASE AddRunning
    BY <1>a, <2>2 DEF AddRunning
  <2>3. CASE AddReady
    BY <1>a, <2>3 DEF AddReady, Clock!Arrive
  <2>4. CASE AllLoaded
    <3>1. i' = num_processes + 1
      BY <1>a, <2>4, OsAssumption DEF AllLoaded
    <3> QED
      BY <1>a, <2>4, <3>1 DEF AllLoaded, Clock!Leave
  <2> QED
    BY <1>2, <2>1, <2>2, <2>3, <2>4 DEF ld_routine
<1>3. ASSUME Tick PROVE Places'
  BY <1>a, <1>3 DEF Tick, Clock!Tick
<1>4. CASE UNCHANGED vars
  BY <1>4 DEF vars
<1> QED
  BY <1>1, <1>2, <1>3, <1>4 DEF Next

\* get_proc takes a ready process away, or nothing is ready.
LEMMA TakesReady ==
  ASSUME Owned, NEW c \in CPU, get_proc(c)
  PROVE  \/ ReadySet = {} /\ ReadySet' = {} /\ proc'[c] = NULL
         \/ \E p \in ReadySet : ReadySet' = ReadySet \ {p} /\ proc'[c] = p
<1>a. QueuesOK /\ EntriesApart /\ proc \in [CPU -> Proc \cup {NULL}]
  BY OwnerParts DEF Owned, TypeOK, QueuesOK
<1>1. CASE Waiting = {} /\ UNCHANGED mlq_ready_queue /\ proc' = [proc EXCEPT ![c] = NULL]
  <2>1. \A p \in Proc : ~ InReady(p) /\ ~ InReady(p)'
    BY <1>1 DEF Waiting, empty, InReady
  <2> QED
    BY <1>1, <1>a, <2>1 DEF ReadySet
<1>2. ASSUME NEW p \in Proc, InReady(p), proc' = [proc EXCEPT ![c] = p],
             \A r \in Proc : InReady(r)' <=> InReady(r) /\ r # p
      PROVE  p \in ReadySet /\ ReadySet' = ReadySet \ {p} /\ proc'[c] = p
  BY <1>2, <1>a DEF ReadySet
<1> QED
  BY <1>1, <1>2, <1>a, TakesOne

\* A step that makes nothing ready, lets no CPU go without its process and shows no
\* CPU the queues for the first time.
LEMMA StaysSpokenFor ==
  ASSUME SpokenFor, Looked' => Looked, ReadySet' \subseteq ReadySet,
         Getting \subseteq Getting',
         state'[ld] # "arrived" => state[ld] # "arrived"
  PROVE  SpokenFor'
<1> SUFFICES ASSUME Looked'
             PROVE  /\ state'[ld] # "arrived" => NoMoreThan(ReadySet', Getting')
                    /\ \E x \in Proc \cup {NULL} : NoMoreThan(ReadySet' \ {x}, Getting')
  BY DEF SpokenFor
<1>1. state'[ld] # "arrived" => NoMoreThan(ReadySet', Getting')
  BY Fewer DEF SpokenFor
<1>2. PICK x \in Proc \cup {NULL} : NoMoreThan(ReadySet \ {x}, Getting)
  BY DEF SpokenFor
<1>3. NoMoreThan(ReadySet' \ {x}, Getting')
  <2>1. ReadySet' \ {x} \subseteq ReadySet \ {x}
    OBVIOUS
  <2> QED
    BY <1>2, <2>1, Fewer
<1> QED
  BY <1>1, <1>3

LEMMA SpokenForStep == Drained /\ [Next]_vars => SpokenFor'
<1> SUFFICES ASSUME Drained, [Next]_vars PROVE SpokenFor'
  OBVIOUS
<1>a. /\ ld \notin CPU /\ ld \in Device /\ CPU \subseteq Device
      /\ proc \in [CPU -> Proc \cup {NULL}]
      /\ cpc \in [CPU -> {"top", "putReady", "get", "recheck", "stopped"}]
      /\ state \in [Device -> {"working", "arrived", "gone"}]
      /\ QueuesOK /\ EntriesApart
  BY OsAssumption, OwnerParts DEF Drained, Owned, TypeOK, Device, QueuesOK
<1>b. SpokenFor /\ Owned /\ Places
  BY DEF Drained
<1>c. NULL \notin Proc /\ Proc = 1 .. num_processes
  BY OsAssumption DEF NULL
<1> USE DEF schedVars, cpuVars, ldVars, procVars, clock, Goto, At, ldAt
<1>1. ASSUME NEW c \in CPU, FirstLoad(c) PROVE SpokenFor'
  <2>1. get_proc(c)
    BY <1>1 DEF FirstLoad
  <2>2. state'[ld] = state[ld]
    BY <1>1, <1>a DEF FirstLoad, Clock!Arrive
  <2>3. CASE ReadySet = {} /\ ReadySet' = {} /\ proc'[c] = NULL
    <3>1. \A x : ReadySet' \ {x} = {}
      BY <2>3
    <3> QED
      BY <2>3, <3>1, NoneOfAny DEF SpokenFor
  <2>4. ASSUME NEW p \in ReadySet, ReadySet' = ReadySet \ {p}, proc'[c] = p
        PROVE  SpokenFor'
    <3>1. p # NULL
      BY <1>c DEF ReadySet
    <3>2. cpc' = [cpc EXCEPT ![c] = "recheck"] /\ state' = state /\ cpc[c] = "top"
      BY <1>1, <2>4, <3>1 DEF FirstLoad
    <3>3. Getting' = Getting
      BY <1>a, <3>2 DEF Getting
    <3>4. \A d \in CPU : d # c => proc'[d] = proc[d]
      BY <2>1, <1>a DEF get_proc
    <3>5. Looked' => Looked
      BY <1>a, <2>4, <3>1, <3>2, <3>4 DEF Looked
    <3> QED
      BY <1>b, <2>2, <2>4, <3>3, <3>5, StaysSpokenFor
  <2> QED
    BY <1>b, <2>1, <2>3, <2>4, TakesReady
<1>2. ASSUME NEW c \in CPU, Finish(c) \/ PutRunning(c) \/ Run(c) PROVE SpokenFor'
  <2>1. ReadySet' = ReadySet
    BY <1>2 DEF Finish, PutRunning, put_running_list, Run, ReadySet, InReady
  <2>2. Getting \subseteq Getting'
    BY <1>2, <1>a DEF Finish, PutRunning, Run, Getting
  <2>3. Looked' => Looked
    BY <1>2, <1>a DEF Finish, PutRunning, Run, Looked, Clock!Arrive
  <2>4. state'[ld] = state[ld]
    BY <1>2, <1>a DEF Finish, PutRunning, Run, Clock!Arrive
  <2> QED
    BY <1>b, <2>1, <2>2, <2>3, <2>4, StaysSpokenFor
<1>3. ASSUME NEW c \in CPU, PutReady(c) PROVE SpokenFor'
  <2>1. PICK p \in Proc : p = proc[c]
    BY <1>3, <1>a, <1>b DEF PutReady, Owned, Held
  <2>2. ~ InReady(p) /\ put_mlq_proc(p)
    BY <1>3, <1>b, <2>1, OwnerParts DEF PutReady, Owned, OnCPU
  <2>3. ReadySet' \subseteq ReadySet \cup {p}
    BY <1>a, <2>2, PutsOne DEF ReadySet
  <2>4. Getting' = Getting \cup {c} /\ c \notin Getting
    BY <1>3, <1>a DEF PutReady, Getting
  <2>5. state' = state
    BY <1>3 DEF PutReady
  <2>6. Looked' => Looked
    BY <1>3, <1>a DEF PutReady, Looked
  <2> SUFFICES ASSUME Looked'
               PROVE  /\ state[ld] # "arrived" => NoMoreThan(ReadySet', Getting')
                      /\ \E x \in Proc \cup {NULL} : NoMoreThan(ReadySet' \ {x}, Getting')
    BY <2>5 DEF SpokenFor
  <2>7. state[ld] # "arrived" => NoMoreThan(ReadySet', Getting')
    <3> SUFFICES ASSUME state[ld] # "arrived"
                 PROVE  NoMoreThan(ReadySet', Getting')
      OBVIOUS
    <3>1. NoMoreThan(ReadySet \cup {p}, Getting \cup {c})
      BY <1>b, <2>4, <2>6, BothGrow DEF SpokenFor
    <3> QED
      BY <2>3, <2>4, <3>1, Fewer
  <2>8. PICK x \in Proc \cup {NULL} : NoMoreThan(ReadySet \ {x}, Getting)
    BY <1>b, <2>6 DEF SpokenFor
  <2>9. NoMoreThan(ReadySet' \ {x}, Getting')
    <3>1. NoMoreThan((ReadySet \ {x}) \cup {p}, Getting \cup {c})
      BY <2>4, <2>8, BothGrow
    <3>2. ReadySet' \ {x} \subseteq (ReadySet \ {x}) \cup {p}
      BY <2>3
    <3> QED
      BY <2>4, <3>1, <3>2, Fewer
  <2> QED
    BY <2>7, <2>9
<1>4. ASSUME NEW c \in CPU, GetNext(c) PROVE SpokenFor'
  <2>1. get_proc(c) /\ cpc[c] = "get" /\ cpc' = [cpc EXCEPT ![c] = "recheck"]
        /\ state' = state
    BY <1>4 DEF GetNext
  <2>2. Getting' = Getting \ {c}
    BY <1>a, <2>1 DEF Getting
  <2>3. CASE ReadySet = {} /\ ReadySet' = {} /\ proc'[c] = NULL
    <3>1. \A x : ReadySet' \ {x} = {}
      BY <2>3
    <3> QED
      BY <2>3, <3>1, NoneOfAny DEF SpokenFor
  <2>4. ASSUME NEW p \in ReadySet, ReadySet' = ReadySet \ {p}, proc'[c] = p
        PROVE  SpokenFor'
    <3>1. p # NULL
      BY <1>c DEF ReadySet
    <3>2. \A d \in CPU : d # c => proc'[d] = proc[d]
      BY <2>1, <1>a DEF get_proc
    <3>3. Looked' => Looked
      BY <1>a, <2>1, <2>4, <3>1, <3>2 DEF Looked
    <3> SUFFICES ASSUME Looked'
                 PROVE  /\ state[ld] # "arrived" => NoMoreThan(ReadySet', Getting')
                        /\ \E x \in Proc \cup {NULL} : NoMoreThan(ReadySet' \ {x}, Getting')
      BY <2>1 DEF SpokenFor
    <3>4. state[ld] # "arrived" => NoMoreThan(ReadySet', Getting')
      BY <1>b, <2>2, <2>4, <3>3, BothShrink DEF SpokenFor
    <3>5. PICK x \in Proc \cup {NULL} : NoMoreThan(ReadySet \ {x}, Getting)
      BY <1>b, <3>3 DEF SpokenFor
    <3>6. CASE x # p
      <4>1. NoMoreThan((ReadySet \ {x}) \ {p}, Getting')
        BY <2>2, <2>4, <3>5, <3>6, BothShrink
      <4>2. ReadySet' \ {x} = (ReadySet \ {x}) \ {p}
        BY <2>4
      <4> QED
        BY <3>4, <4>1, <4>2
    <3>7. CASE x = p
      <4>1. NoMoreThan(ReadySet', Getting)
        BY <2>4, <3>5, <3>7
      <4>2. PICK y \in ReadySet' \cup {NULL} : NoMoreThan(ReadySet' \ {y}, Getting')
        BY <2>2, <4>1, OneOver
      <4>3. y \in Proc \cup {NULL}
        BY <2>4 DEF ReadySet
      <4> QED
        BY <3>4, <4>2, <4>3
    <3> QED
      BY <3>6, <3>7
  <2> QED
    BY <1>b, <2>1, <2>3, <2>4, TakesReady
<1>5. ASSUME NEW c \in CPU, Stop(c) \/ SkipSlot(c) PROVE SpokenFor'
  <2>1. ReadySet' = ReadySet
    BY <1>5 DEF Stop, SkipSlot, ReadySet, InReady
  <2>2. Getting' = Getting
    BY <1>5, <1>a DEF Stop, SkipSlot, Getting
  <2>3. Looked
    BY <1>5 DEF Stop, SkipSlot, Looked
  <2>4. state'[ld] = state[ld]
    BY <1>5, <1>a DEF Stop, SkipSlot, Clock!Arrive, Clock!Leave
  <2> QED
    BY <1>b, <2>1, <2>2, <2>3, <2>4, StaysSpokenFor
<1>6. ASSUME WaitForStart \/ AddRunning \/ AllLoaded PROVE SpokenFor'
  <2>1. ReadySet' = ReadySet
    BY <1>6 DEF WaitForStart, AddRunning, put_running_list, AllLoaded, ReadySet, InReady
  <2>2. Getting' = Getting
    BY <1>6 DEF WaitForStart, AddRunning, AllLoaded, Getting
  <2>3. Looked' => Looked
    BY <1>6, <1>a DEF WaitForStart, AddRunning, AllLoaded, Looked, Clock!Arrive, Clock!Leave
  <2>4. state[ld] = "working"
    BY <1>6 DEF WaitForStart, AddRunning, AllLoaded
  <2> QED
    BY <1>b, <2>1, <2>2, <2>3, <2>4, StaysSpokenFor
<1>7. ASSUME AddReady PROVE SpokenFor'
  <2>1. PICK p \in Proc : p = i
    BY <1>7, <1>b, <1>c DEF AddReady, Owned, Held, TypeOK
  <2>2. ~ InReady(p) /\ put_mlq_proc(p)
    BY <1>7, <1>b, <1>c, <2>1 DEF AddReady, Owned, TypeOK
  <2>3. ReadySet' \subseteq ReadySet \cup {p}
    BY <1>a, <2>2, PutsOne DEF ReadySet
  <2>4. Getting' = Getting
    BY <1>7 DEF AddReady, Getting
  <2>5. state[ld] = "working" /\ state'[ld] = "arrived"
    BY <1>7, <1>a DEF AddReady, Clock!Arrive
  <2>6. Looked' => Looked
    BY <1>7, <1>a DEF AddReady, Looked, Clock!Arrive
  <2> SUFFICES ASSUME Looked'
               PROVE  NoMoreThan(ReadySet' \ {p}, Getting')
    BY <2>5 DEF SpokenFor
  <2>7. NoMoreThan(ReadySet, Getting)
    BY <1>b, <2>5, <2>6 DEF SpokenFor
  <2>8. ReadySet' \ {p} \subseteq ReadySet
    BY <2>3
  <2> QED
    BY <2>4, <2>7, <2>8, Fewer
<1>8. ASSUME Tick PROVE SpokenFor'
  <2>1. /\ \A d \in Device : state[d] # "working"
        /\ state' = [d \in Device |-> IF state[d] = "arrived" THEN "working" ELSE state[d]]
        /\ UNCHANGED <<cpc, proc, mlq_ready_queue>>
    BY <1>8 DEF Tick, Clock!Tick
  <2>2. ReadySet' = ReadySet /\ Getting' = Getting
    BY <2>1 DEF ReadySet, InReady, Getting
  <2> SUFFICES ASSUME Looked' PROVE SpokenFor'
    BY DEF SpokenFor
  <2>3. \E c \in CPU : cpc[c] = "stopped"
    BY <1>a, <1>b, <2>1 DEF Looked, Places
  <2>4. state[ld] = "gone" /\ state'[ld] = "gone"
    BY <1>a, <1>b, <2>1, <2>3 DEF Places
  <2>5. Looked
    BY <2>3 DEF Looked
  <2> QED
    BY <1>b, <2>2, <2>4, <2>5, StaysSpokenFor
<1>9. CASE UNCHANGED vars
  <2>1. UNCHANGED <<cpc, proc, mlq_ready_queue, state>>
    BY <1>9 DEF vars
  <2>2. ReadySet' = ReadySet /\ Getting' = Getting /\ (Looked' => Looked)
    BY <2>1 DEF ReadySet, InReady, Getting, Looked
  <2> QED
    BY <1>b, <2>1, <2>2, StaysSpokenFor
<1> QED
  BY <1>1, <1>2, <1>3, <1>4, <1>5, <1>6, <1>7, <1>8, <1>9 DEF Next, cpu_routine, ld_routine

LEMMA DrainedStep == Drained /\ [Next]_vars => Drained'
  BY OwnedStep, PlacesStep, SpokenForStep DEF Drained

\* At the end of a slot no CPU is about to take a process.
LEMMA NobodyGetting == Drained /\ EndOfSlot => Getting = {}
  BY DEF Drained, Places, EndOfSlot, Getting, Device

\* A CPU stays idle for a slot only when there is nothing to run (sched.c:52, os.c:58).
THEOREM NoIdleForNothing == Spec => []WorkConserving
<1>1. Init => Drained
  BY DrainedInit
<1>2. Drained /\ [Next]_vars => Drained'
  BY DrainedStep
<1>3. Drained => WorkConserving
  <2> SUFFICES ASSUME Drained, EndOfSlot, NEW c \in CPU, Idle(c)
               PROVE  /\ \A p, q \in ReadySet : p = q
                      /\ state[ld] = "gone" => ReadySet = {}
    BY DEF WorkConserving
  <2>1. Looked
    BY DEF Looked, Idle, EndOfSlot, Device
  <2>2. Getting = {}
    BY NobodyGetting
  <2>3. PICK x \in Proc \cup {NULL} : NoMoreThan(ReadySet \ {x}, {})
    BY <2>1, <2>2 DEF Drained, SpokenFor
  <2>4. ReadySet \ {x} = {}
    BY <2>3 DEF NoMoreThan
  <2>5. state[ld] = "gone" => ReadySet = {}
    BY <2>1, <2>2 DEF Drained, SpokenFor, NoMoreThan
  <2> QED
    BY <2>4, <2>5
<1> QED
  BY <1>1, <1>2, <1>3, PTL DEF Spec

\* A CPU that reads `done` and stops leaves nothing behind (os.c:79).
THEOREM NothingLeftBehind == Spec => []StoppedMeansDrained
<1>1. Init => Drained
  BY DrainedInit
<1>2. Drained /\ [Next]_vars => Drained'
  BY DrainedStep
<1>3. Drained => StoppedMeansDrained
  <2> SUFFICES ASSUME Drained, EndOfSlot, NEW c \in CPU, cpc[c] = "stopped"
               PROVE  ReadySet = {} /\ i = num_processes + 1
    BY DEF StoppedMeansDrained
  <2>1. Looked /\ state[ld] = "gone" /\ i = num_processes + 1
    BY DEF Looked, Drained, Places
  <2>2. NoMoreThan(ReadySet, {})
    BY <2>1, NobodyGetting DEF Drained, SpokenFor
  <2> QED
    BY <2>1, <2>2 DEF NoMoreThan
<1> QED
  BY <1>1, <1>2, <1>3, PTL DEF Spec

-----------------------------------------------------------------------------
(* The order of the entries of queues M *)

\* q and r are peers in one queue and q is the first of the two.
Before(M, q, r) ==
  \E l \in Prio : \E j, k \in DOMAIN M[l] :
    j < k /\ M[l][j] = q /\ M[l][k] = r /\ priority[q] = priority[r]

ApartIn(M) == \A l, m \in Prio : \A j \in DOMAIN M[l] : \A k \in DOMAIN M[m] :
                M[l][j] = M[m][k] => l = m /\ j = k

AheadIn(M) == UNION {
  LET q == M[l]
  IN  {<<q[k[1]], q[k[2]]>> : k \in {h \in (DOMAIN q) \X (DOMAIN q) :
         h[1] < h[2] /\ priority[q[h[1]]] = priority[q[h[2]]]}} : l \in Prio}

LEMMA AheadPairs ==
  ASSUME NEW M \in [Prio -> queue_t]
  PROVE  /\ AheadIn(M) \subseteq Proc \X Proc
         /\ \A q, r \in Proc : <<q, r>> \in AheadIn(M) <=> Before(M, q, r)
<1> DEFINE Pairs(l) ==
      {<<M[l][k[1]], M[l][k[2]]>> : k \in {h \in (DOMAIN M[l]) \X (DOMAIN M[l]) :
         h[1] < h[2] /\ priority[M[l][h[1]]] = priority[M[l][h[2]]]}}
<1>1. AheadIn(M) = UNION {Pairs(l) : l \in Prio}
  BY DEF AheadIn
<1>2. \A l \in Prio : \A k \in DOMAIN M[l] : M[l][k] \in Proc
  BY DEF queue_t
<1>3. \A l \in Prio : Pairs(l) \subseteq Proc \X Proc
  BY <1>2
<1>4. \A l \in Prio : \A q, r \in Proc :
        <<q, r>> \in Pairs(l) <=>
          \E j, k \in DOMAIN M[l] :
            j < k /\ M[l][j] = q /\ M[l][k] = r /\ priority[q] = priority[r]
  <2> SUFFICES ASSUME NEW l \in Prio, NEW q \in Proc, NEW r \in Proc
               PROVE  <<q, r>> \in Pairs(l) <=>
                        \E j, k \in DOMAIN M[l] :
                          j < k /\ M[l][j] = q /\ M[l][k] = r /\ priority[q] = priority[r]
    OBVIOUS
  <2>1. ASSUME <<q, r>> \in Pairs(l)
        PROVE  \E j, k \in DOMAIN M[l] :
                 j < k /\ M[l][j] = q /\ M[l][k] = r /\ priority[q] = priority[r]
    BY <2>1
  <2>2. ASSUME NEW j \in DOMAIN M[l], NEW k \in DOMAIN M[l],
               j < k /\ M[l][j] = q /\ M[l][k] = r /\ priority[q] = priority[r]
        PROVE  <<q, r>> \in Pairs(l)
    <3>1. <<j, k>> \in {h \in (DOMAIN M[l]) \X (DOMAIN M[l]) :
            h[1] < h[2] /\ priority[M[l][h[1]]] = priority[M[l][h[2]]]}
      BY <2>2
    <3>2. <<q, r>> = <<M[l][<<j, k>>[1]], M[l][<<j, k>>[2]]>>
      BY <2>2
    <3> QED
      BY <3>1, <3>2
  <2> QED
    BY <2>1, <2>2
<1> HIDE DEF Pairs
<1> QED
  BY <1>1, <1>3, <1>4 DEF Before

\* Taking the chosen entry out of queue h: it had no peer before it, and the order of
\* all others stays.
LEMMA OrderTaken ==
  ASSUME NEW M \in [Prio -> queue_t], ApartIn(M), NEW h \in Prio, ~ empty(M[h])
  PROVE  \A q, r \in Proc :
           /\ ~ Before(M, q, selected(M[h]))
           /\ Before([M EXCEPT ![h] = dequeue(M[h])], q, r) <=>
                Before(M, q, r) /\ q # selected(M[h])
<1> DEFINE N == [M EXCEPT ![h] = dequeue(M[h])]
           s == M[h]
           b == best_index(s)
           p == selected(s)
           Old(k) == IF k < b THEN k ELSE k + 1
           New(k) == IF k < b THEN k ELSE k - 1
<1>1. s \in queue_t /\ ~ empty(s) /\ s \in Seq(Proc) /\ DOMAIN s = 1 .. Len(s) /\ Len(s) \in Nat
  BY DEF queue_t
<1>2. /\ b \in 1 .. Len(s) /\ p \in Proc /\ dequeue(s) \in queue_t
      /\ Len(dequeue(s)) = Len(s) - 1
      /\ \A k \in 1 .. Len(s) - 1 : dequeue(s)[k] = s[Old(k)]
  BY <1>1, Dequeued
<1>3. \A j \in 1 .. Len(s) : j < b => priority[s[j]] < priority[p]
  BY <1>1, BestIsFirst DEF FirstOfGreatest, selected
<1>4. N[h] = dequeue(s) /\ \A l \in Prio : l # h => N[l] = M[l]
  OBVIOUS
<1>5. DOMAIN N[h] = 1 .. Len(s) - 1
  BY <1>1, <1>2, <1>4 DEF queue_t
<1>6. p = s[b]
  BY DEF selected
<1> HIDE DEF N, b, p
<1>7. ASSUME NEW q \in Proc PROVE ~ Before(M, q, p)
  <2> SUFFICES ASSUME NEW l \in Prio, NEW j \in DOMAIN M[l], NEW k \in DOMAIN M[l],
                      j < k, M[l][j] = q, M[l][k] = p, priority[q] = priority[p]
               PROVE  FALSE
    BY DEF Before
  <2>1. l = h /\ k = b
    BY <1>1, <1>2, <1>6 DEF ApartIn
  <2>2. priority[q] < priority[p]
    BY <1>1, <1>3, <2>1
  <2>3. priority[q] \in Nat /\ priority[p] \in Nat
    BY <1>2, QueueAssumption
  <2> QED
    BY <2>2, <2>3
<1>8. ASSUME NEW q \in Proc, NEW r \in Proc, Before(N, q, r)
      PROVE  Before(M, q, r) /\ q # p
  <2> PICK l \in Prio : \E j, k \in DOMAIN N[l] :
             j < k /\ N[l][j] = q /\ N[l][k] = r /\ priority[q] = priority[r]
    BY <1>8 DEF Before
  <2> PICK j \in DOMAIN N[l], k \in DOMAIN N[l] :
             j < k /\ N[l][j] = q /\ N[l][k] = r /\ priority[q] = priority[r]
    OBVIOUS
  <2>1. CASE l # h
    <3>1. Before(M, q, r)
      BY <1>4, <2>1 DEF Before
    <3>2. q # p
      BY <1>1, <1>2, <1>4, <1>6, <2>1 DEF ApartIn
    <3> QED
      BY <3>1, <3>2
  <2>2. CASE l = h
    <3>1. j \in 1 .. Len(s) - 1 /\ k \in 1 .. Len(s) - 1
      BY <1>5, <2>2
    <3>2. q = s[Old(j)] /\ r = s[Old(k)]
      BY <1>2, <1>4, <2>2, <3>1
    <3>3. Old(j) \in DOMAIN s /\ Old(k) \in DOMAIN s /\ Old(j) < Old(k) /\ Old(j) # b
      BY <1>1, <1>2, <3>1
    <3> HIDE DEF Old
    <3>4. Before(M, q, r)
      BY <3>2, <3>3 DEF Before
    <3>5. q # p
      BY <1>1, <1>2, <1>6, <3>2, <3>3 DEF ApartIn
    <3> QED
      BY <3>4, <3>5
  <2> QED
    BY <2>1, <2>2
<1>9. ASSUME NEW q \in Proc, NEW r \in Proc, Before(M, q, r), q # p
      PROVE  Before(N, q, r)
  <2>0. r # p
    BY <1>7, <1>9
  <2> PICK l \in Prio : \E j, k \in DOMAIN M[l] :
             j < k /\ M[l][j] = q /\ M[l][k] = r /\ priority[q] = priority[r]
    BY <1>9 DEF Before
  <2> PICK j \in DOMAIN M[l], k \in DOMAIN M[l] :
             j < k /\ M[l][j] = q /\ M[l][k] = r /\ priority[q] = priority[r]
    OBVIOUS
  <2>1. CASE l # h
    BY <1>4, <2>1 DEF Before
  <2>2. CASE l = h
    <3>1. j \in 1 .. Len(s) /\ k \in 1 .. Len(s) /\ j # b /\ k # b
      BY <1>1, <1>6, <1>9, <2>0, <2>2
    <3>2. /\ New(j) \in 1 .. Len(s) - 1 /\ New(k) \in 1 .. Len(s) - 1 /\ New(j) < New(k)
          /\ Old(New(j)) = j /\ Old(New(k)) = k
      BY <1>1, <1>2, <3>1
    <3>3. N[l][New(j)] = q /\ N[l][New(k)] = r
      BY <1>2, <1>4, <2>2, <3>2
    <3> HIDE DEF New
    <3> QED
      BY <1>5, <2>2, <3>2, <3>3 DEF Before
  <2> QED
    BY <2>1, <2>2
<1> QED
  BY <1>7, <1>8, <1>9 DEF N, p

\* A process put behind queue h comes after all its peers there; the order of all
\* others stays.
PutLast(M, N, h, p) ==
  \A q, r \in Proc :
    Before(N, q, r) <=>
      \/ Before(M, q, r)
      \/ r = p /\ priority[q] = priority[p] /\ \E j \in DOMAIN M[h] : M[h][j] = q

LEMMA OrderPut ==
  ASSUME NEW M \in [Prio -> queue_t], NEW h \in Prio, NEW p \in Proc,
         Len(M[h]) < MAX_QUEUE_SIZE,
         \A l \in Prio : \A k \in DOMAIN M[l] : M[l][k] # p
  PROVE  PutLast(M, [M EXCEPT ![h] = enqueue(M[h], p)], h, p)
<1> DEFINE N == [M EXCEPT ![h] = enqueue(M[h], p)]
           s == M[h]
           last == Len(s) + 1
<1>1. s \in queue_t /\ DOMAIN s = 1 .. Len(s) /\ Len(s) \in Nat /\ ~ (Len(s) = MAX_QUEUE_SIZE)
  BY QueueAssumption DEF queue_t
<1>2. /\ enqueue(s, p) \in queue_t /\ Len(enqueue(s, p)) = last
      /\ enqueue(s, p)[last] = p
      /\ \A k \in 1 .. Len(s) : enqueue(s, p)[k] = s[k]
  BY <1>1, Enqueued
<1>3. N[h] = enqueue(s, p) /\ \A l \in Prio : l # h => N[l] = M[l]
  OBVIOUS
<1> HIDE DEF N
<1>4. DOMAIN N[h] = 1 .. last
  BY <1>1, <1>2, <1>3 DEF queue_t
<1>5. ASSUME NEW q \in Proc, NEW r \in Proc, Before(N, q, r)
      PROVE  \/ Before(M, q, r)
             \/ r = p /\ priority[q] = priority[p] /\ \E j \in DOMAIN s : s[j] = q
  <2> PICK l \in Prio : \E j, k \in DOMAIN N[l] :
             j < k /\ N[l][j] = q /\ N[l][k] = r /\ priority[q] = priority[r]
    BY <1>5 DEF Before
  <2> PICK j \in DOMAIN N[l], k \in DOMAIN N[l] :
             j < k /\ N[l][j] = q /\ N[l][k] = r /\ priority[q] = priority[r]
    OBVIOUS
  <2>1. CASE l # h
    BY <1>3, <2>1 DEF Before
  <2>2. CASE l = h
    <3>1. j \in 1 .. Len(s) /\ s[j] = q
      BY <1>1, <1>2, <1>3, <1>4, <2>2
    <3>2. CASE k = last
      BY <1>1, <1>2, <1>3, <2>2, <3>1, <3>2
    <3>3. CASE k # last
      <4>1. k \in 1 .. Len(s) /\ s[k] = r
        BY <1>1, <1>2, <1>3, <1>4, <2>2, <3>3
      <4> QED
        BY <1>1, <3>1, <4>1 DEF Before
    <3> QED
      BY <3>2, <3>3
  <2> QED
    BY <2>1, <2>2
<1>6. ASSUME NEW q \in Proc, NEW r \in Proc, Before(M, q, r)
      PROVE  Before(N, q, r)
  <2> PICK l \in Prio : \E j, k \in DOMAIN M[l] :
             j < k /\ M[l][j] = q /\ M[l][k] = r /\ priority[q] = priority[r]
    BY <1>6 DEF Before
  <2> PICK j \in DOMAIN M[l], k \in DOMAIN M[l] :
             j < k /\ M[l][j] = q /\ M[l][k] = r /\ priority[q] = priority[r]
    OBVIOUS
  <2>1. CASE l # h
    BY <1>3, <2>1 DEF Before
  <2>2. CASE l = h
    <3>1. /\ j \in DOMAIN N[l] /\ N[l][j] = q
          /\ k \in DOMAIN N[l] /\ N[l][k] = r
      BY <1>1, <1>2, <1>3, <1>4, <2>2
    <3> QED
      BY <3>1 DEF Before
  <2> QED
    BY <2>1, <2>2
<1>7. ASSUME NEW q \in Proc, priority[q] = priority[p], NEW j \in DOMAIN s, s[j] = q
      PROVE  Before(N, q, p)
  <2>1. /\ j \in DOMAIN N[h] /\ N[h][j] = q /\ j < last
        /\ last \in DOMAIN N[h] /\ N[h][last] = p
    BY <1>1, <1>2, <1>3, <1>4, <1>7
  <2> HIDE DEF last
  <2> QED
    BY <1>7, <2>1 DEF Before
<1> QED
  BY <1>5, <1>6, <1>7 DEF N, PutLast

-----------------------------------------------------------------------------
(* Slices and levels *)

Unfinished(p) == pc[p] < codeSize[p] \/ codeSize[p] = 0

\* Every process waits on the level of its `prio`.
LevelsIn(M) == \A l \in Prio : \A k \in DOMAIN M[l] : prio[M[l][k]] = l

\* A CPU without a process has no slice; one that goes to a queue has used it up; what
\* waits or was just dispatched has something to execute.
Slices ==
  /\ \A c \in CPU : proc[c] = NULL => time_left[c] = 0
  /\ \A c \in CPU : cpc[c] = "putReady" => time_left[c] = 0 /\ ~ Ended(proc[c])
  /\ \A c \in CPU : cpc[c] = "recheck" /\ proc[c] # NULL =>
                      time_left[c] = 0 /\ Unfinished(proc[c])
  /\ \A p \in Proc : InReady(p) => Unfinished(p)
  /\ \A p \in Proc : i \leq p => pc[p] = 0
  /\ LevelsIn(mlq_ready_queue)

LEMMA SlicesInit == Init => Slices
<1> SUFFICES ASSUME Init PROVE Slices
  OBVIOUS
<1>1. \A p \in Proc : ~ InReady(p)
  BY DEF Init, InReady
<1>2. LevelsIn(mlq_ready_queue)
  BY DEF Init, LevelsIn
<1> QED
  BY <1>1, <1>2 DEF Init, Slices

\* get_proc finds a process of the highest level, the first of the greatest priority.
LEMMA TakesBest ==
  ASSUME NEW c \in CPU, QueuesOK, get_proc(c), Waiting # {}
  PROVE  \E h \in Prio :
           /\ ~ empty(mlq_ready_queue[h])
           /\ \A l \in Prio : ~ empty(mlq_ready_queue[l]) => l \leq h
           /\ mlq_ready_queue' = [mlq_ready_queue EXCEPT ![h] = dequeue(mlq_ready_queue[h])]
           /\ proc' = [proc EXCEPT ![c] = selected(mlq_ready_queue[h])]
<1>1. highest_index \in Waiting /\ \A l \in Waiting : l \leq highest_index
  BY HighestWaits
<1> QED
  BY <1>1 DEF get_proc, Waiting

LEMMA LevelsTaken ==
  ASSUME NEW M \in [Prio -> queue_t], LevelsIn(M), NEW h \in Prio, ~ empty(M[h]),
         NEW N, N = [M EXCEPT ![h] = dequeue(M[h])]
  PROVE  LevelsIn(N)
<1>1. /\ best_index(M[h]) \in 1 .. Len(M[h]) /\ dequeue(M[h]) \in queue_t
      /\ Len(dequeue(M[h])) = Len(M[h]) - 1
      /\ \A k \in 1 .. Len(M[h]) - 1 :
           dequeue(M[h])[k] = M[h][IF k < best_index(M[h]) THEN k ELSE k + 1]
  BY Dequeued
<1>2. \A s \in queue_t : DOMAIN s = 1 .. Len(s) /\ Len(s) \in Nat
  BY DEF queue_t
<1> SUFFICES ASSUME NEW l \in Prio, NEW k \in DOMAIN N[l] PROVE prio[N[l][k]] = l
  BY DEF LevelsIn
<1>3. CASE l # h
  BY <1>3 DEF LevelsIn
<1>4. CASE l = h
  <2>1. k \in 1 .. Len(M[h]) - 1
    BY <1>1, <1>2, <1>4
  <2>2. PICK m \in 1 .. Len(M[h]) : N[l][k] = M[h][m]
    BY <1>1, <1>2, <1>4, <2>1
  <2> QED
    BY <1>2, <1>4, <2>2 DEF LevelsIn
<1> QED
  BY <1>3, <1>4

LEMMA LevelsPut ==
  ASSUME NEW M \in [Prio -> queue_t], LevelsIn(M), NEW p \in Proc,
         NEW N, N = [M EXCEPT ![prio[p]] = enqueue(M[prio[p]], p)]
  PROVE  LevelsIn(N)
<1> DEFINE h == prio[p]
<1>1. h \in Prio
  BY OsAssumption DEF Prio
<1>2. /\ enqueue(M[h], p) \in queue_t
      /\ \/ Len(M[h]) = MAX_QUEUE_SIZE /\ enqueue(M[h], p) = M[h]
         \/ /\ Len(enqueue(M[h], p)) = Len(M[h]) + 1
            /\ enqueue(M[h], p)[Len(M[h]) + 1] = p
            /\ \A k \in 1 .. Len(M[h]) : enqueue(M[h], p)[k] = M[h][k]
  BY <1>1, Enqueued
<1>3. \A s \in queue_t : DOMAIN s = 1 .. Len(s) /\ Len(s) \in Nat
  BY DEF queue_t
<1> SUFFICES ASSUME NEW l \in Prio, NEW k \in DOMAIN N[l] PROVE prio[N[l][k]] = l
  BY DEF LevelsIn
<1>4. CASE l # h
  BY <1>4 DEF LevelsIn
<1>5. CASE l = h
  <2>1. N[l] = enqueue(M[h], p)
    BY <1>1, <1>5
  <2>2. CASE enqueue(M[h], p) = M[h]
    BY <1>5, <2>1, <2>2 DEF LevelsIn
  <2>3. CASE /\ Len(enqueue(M[h], p)) = Len(M[h]) + 1
             /\ enqueue(M[h], p)[Len(M[h]) + 1] = p
             /\ \A m \in 1 .. Len(M[h]) : enqueue(M[h], p)[m] = M[h][m]
    <3>1. k \in 1 .. Len(M[h]) + 1 /\ M[h] \in queue_t /\ Len(M[h]) \in Nat
      BY <1>1, <1>2, <1>3, <2>1, <2>3
    <3>2. CASE k = Len(M[h]) + 1
      BY <1>5, <2>1, <2>3, <3>2
    <3>3. CASE k # Len(M[h]) + 1
      <4>1. k \in DOMAIN M[h] /\ N[l][k] = M[h][k]
        BY <1>3, <2>1, <2>3, <3>1, <3>3
      <4> QED
        BY <1>1, <1>5, <4>1 DEF LevelsIn
    <3> QED
      BY <3>2, <3>3
  <2> QED
    BY <1>2, <2>2, <2>3
<1> QED
  BY <1>4, <1>5

LEMMA CpuTakesSlice ==
  ASSUME Owned, Slices, NEW c \in CPU, proc[c] = NULL, get_proc(c),
         UNCHANGED <<pc, time_left, i>>, cpc'[c] # "putReady",
         \A d \in CPU \ {c} : cpc'[d] = cpc[d]
  PROVE  Slices'
<1>a. QueuesOK /\ EntriesApart /\ proc \in [CPU -> Proc \cup {NULL}]
  BY OwnerParts DEF Owned, TypeOK, QueuesOK
<1>1. CASE Waiting = {}
  <2>1. proc' = proc /\ mlq_ready_queue' = mlq_ready_queue
    BY <1>1, <1>a DEF get_proc
  <2>2. \A p \in Proc : InReady(p)' <=> InReady(p)
    BY <2>1 DEF InReady
  <2>3. \A d \in CPU : d = c \/ cpc'[d] = cpc[d]
    OBVIOUS
  <2> QED
    BY <2>1, <2>2, <2>3 DEF Slices, Ended, Unfinished
<1>2. CASE Waiting # {}
  <2>1. PICK h \in Prio :
          /\ ~ empty(mlq_ready_queue[h])
          /\ mlq_ready_queue' = [mlq_ready_queue EXCEPT ![h] = dequeue(mlq_ready_queue[h])]
    BY <1>a, <1>2, TakesBest
  <2>2. LevelsIn(mlq_ready_queue')
    BY <1>a, <2>1, LevelsTaken DEF QueuesOK, Slices
  <2>3. PICK p \in Proc : /\ InReady(p)
                          /\ proc' = [proc EXCEPT ![c] = p]
                          /\ \A r \in Proc : InReady(r)' <=> InReady(r) /\ r # p
    BY <1>a, <1>2, TakesOne
  <2>4. proc'[c] = p /\ p # NULL /\ Unfinished(p) /\ time_left[c] = 0
    BY <1>a, <2>3, OsAssumption DEF Slices, NULL
  <2>5. \A d \in CPU : d = c \/ (cpc'[d] = cpc[d] /\ proc'[d] = proc[d])
    BY <1>a, <2>3
  <2> QED
    BY <2>2, <2>3, <2>4, <2>5 DEF Slices, Ended, Unfinished
<1> QED
  BY <1>1, <1>2

LEMMA SlicesStep == Owned /\ Slices /\ [Next]_vars => Slices'
<1> SUFFICES ASSUME Owned, Slices, [Next]_vars PROVE Slices'
  OBVIOUS
<1>a. /\ proc \in [CPU -> Proc \cup {NULL}]
      /\ cpc \in [CPU -> {"top", "putReady", "get", "recheck", "stopped"}]
      /\ time_left \in [CPU -> 0 .. time_slot]
      /\ pc \in [Proc -> Nat] /\ codeSize \in [Proc -> Nat]
      /\ \A p \in Proc : pc[p] \leq codeSize[p]
      /\ QueuesOK /\ EntriesApart /\ i \in 1 .. num_processes + 1
  BY OwnerParts, OsAssumption DEF Owned, TypeOK, QueuesOK
<1>b. \A c \in CPU : cpc[c] \in {"get", "stopped"} => proc[c] = NULL
  BY DEF Owned
<1>c. Proc = 1 .. num_processes /\ NULL \notin Proc /\ num_processes \in Nat
  BY OsAssumption DEF NULL
<1> USE DEF schedVars, cpuVars, ldVars, procVars, Goto, At, ldAt
<1>1. ASSUME NEW c \in CPU, FirstLoad(c) \/ GetNext(c) PROVE Slices'
  <2>1. proc[c] = NULL /\ get_proc(c) /\ UNCHANGED <<pc, time_left, i>>
    BY <1>1, <1>b DEF FirstLoad, GetNext
  <2>2. cpc'[c] # "putReady" /\ \A d \in CPU \ {c} : cpc'[d] = cpc[d]
    BY <1>1, <1>a DEF FirstLoad, GetNext
  <2> QED
    BY <2>1, <2>2, CpuTakesSlice
<1>2. ASSUME NEW c \in CPU, Finish(c) PROVE Slices'
  <2>1. UNCHANGED <<mlq_ready_queue, pc, i>>
    BY <1>2 DEF Finish
  <2>2. \A p \in Proc : InReady(p)' <=> InReady(p)
    BY <2>1 DEF InReady
  <2>3. \A d \in CPU :
          \/ d = c /\ proc'[d] = NULL /\ time_left'[d] = 0 /\ cpc'[d] = "get"
          \/ proc'[d] = proc[d] /\ time_left'[d] = time_left[d] /\ cpc'[d] = cpc[d]
    BY <1>2, <1>a DEF Finish
  <2> QED
    BY <2>1, <2>2, <2>3 DEF Slices, Ended, Unfinished
<1>3. ASSUME NEW c \in CPU, PutRunning(c) PROVE Slices'
  <2>1. UNCHANGED <<mlq_ready_queue, pc, i, proc, time_left>>
    BY <1>3 DEF PutRunning, put_running_list
  <2>2. \A p \in Proc : InReady(p)' <=> InReady(p)
    BY <2>1 DEF InReady
  <2>3. \A d \in CPU :
          \/ d = c /\ cpc'[d] = "putReady" /\ time_left[d] = 0 /\ ~ Ended(proc[d])
          \/ cpc'[d] = cpc[d]
    BY <1>3, <1>a DEF PutRunning
  <2> QED
    BY <2>1, <2>2, <2>3 DEF Slices, Ended, Unfinished
<1>4. ASSUME NEW c \in CPU, PutReady(c) PROVE Slices'
  <2>1. PICK p \in Proc : p = proc[c]
    BY <1>4, <1>a DEF PutReady, Owned, Held
  <2>2. ~ InReady(p) /\ put_mlq_proc(p)
    BY <1>4, <2>1, OwnerParts DEF PutReady, Owned, OnCPU
  <2>3. \A r \in Proc : InReady(r)' => InReady(r) \/ r = p
    BY <1>a, <2>2, PutsOne
  <2>4. LevelsIn(mlq_ready_queue')
    BY <1>a, <2>2, LevelsPut DEF QueuesOK, Slices, put_mlq_proc
  <2>5. Unfinished(p) /\ time_left[c] = 0
    BY <1>4, <1>a, <2>1 DEF PutReady, Slices, Unfinished, Ended
  <2>6. \A d \in CPU :
          \/ d = c /\ proc'[d] = NULL /\ cpc'[d] = "get"
          \/ proc'[d] = proc[d] /\ cpc'[d] = cpc[d]
    BY <1>4, <1>a DEF PutReady
  <2>7. UNCHANGED <<pc, i, time_left>>
    BY <1>4 DEF PutReady
  <2> QED
    BY <2>3, <2>4, <2>5, <2>6, <2>7 DEF Slices, Ended, Unfinished
<1>5. ASSUME NEW c \in CPU, Run(c) PROVE Slices'
  <2>1. PICK p \in Proc : p = proc[c]
    BY <1>5, <1>a DEF Run
  <2>2. /\ UNCHANGED <<mlq_ready_queue, i, proc>>
        /\ \A r \in Proc : r # p => pc'[r] = pc[r]
    BY <1>5, <1>a, <2>1 DEF Run
  <2>3. \A r \in Proc : (InReady(r)' <=> InReady(r)) /\ (InReady(r) => r # p)
    <3>1. ~ InReady(p)
      BY <2>1, OwnerParts DEF Owned, OnCPU
    <3> QED
      BY <2>2, <3>1 DEF InReady
  <2>4. p < i
    BY <2>1 DEF Owned, OnCPU
  <2>5. \A d \in CPU :
          \/ d = c /\ proc[d] # NULL /\ cpc'[d] = "top"
          \/ cpc'[d] = cpc[d] /\ time_left'[d] = time_left[d] /\ proc[d] # p
    BY <1>5, <1>a, <1>c, <2>1, OwnerParts DEF Run, Owned
  <2>6. \A r \in Proc : i \leq r => r # p
    BY <1>a, <1>c, <2>4
  <2>7. \A d \in CPU : proc[d] \in Proc \/ proc[d] = NULL
    BY <1>a
  <2>8. \A d \in CPU : cpc[d] = "putReady" => proc[d] \in Proc
    BY <2>7 DEF Owned, Held
  <2> QED
    BY <2>2, <2>3, <2>5, <2>6, <2>7, <2>8 DEF Slices, Ended, Unfinished
<1>6. ASSUME AddReady PROVE Slices'
  <2>1. PICK p \in Proc : p = i
    BY <1>6, <1>a, <1>c DEF AddReady, Owned, Held
  <2>2. ~ InReady(p) /\ put_mlq_proc(p) /\ i' = i + 1 /\ UNCHANGED <<pc, proc, time_left, cpc>>
    BY <1>6, <1>c, <2>1 DEF AddReady, Owned
  <2>3. \A r \in Proc : InReady(r)' => InReady(r) \/ r = p
    BY <1>a, <2>2, PutsOne
  <2>4. LevelsIn(mlq_ready_queue')
    BY <1>a, <2>2, LevelsPut DEF QueuesOK, Slices, put_mlq_proc
  <2>5. Unfinished(p)
    BY <1>a, <2>1 DEF Slices, Unfinished
  <2>6. \A r \in Proc : i' \leq r => i \leq r
    BY <1>a, <1>c, <2>2
  <2> QED
    BY <2>2, <2>3, <2>4, <2>5, <2>6 DEF Slices, Ended, Unfinished
<1>7. ASSUME UNCHANGED <<mlq_ready_queue, proc, pc, time_left, i>>,
             \A c \in CPU : cpc'[c] \in {"putReady", "recheck"} => cpc[c] = cpc'[c]
      PROVE  Slices'
  <2>1. \A p \in Proc : InReady(p)' <=> InReady(p)
    BY <1>7 DEF InReady
  <2> QED
    BY <1>7, <2>1 DEF Slices, Ended, Unfinished
<1>8. ASSUME NEW c \in CPU, Stop(c) \/ SkipSlot(c) PROVE Slices'
  BY <1>7, <1>8, <1>a DEF Stop, SkipSlot
<1>9. ASSUME WaitForStart \/ AddRunning \/ AllLoaded \/ Tick \/ UNCHANGED vars PROVE Slices'
  BY <1>7, <1>9 DEF WaitForStart, AddRunning, put_running_list, AllLoaded, Tick, vars
<1> QED
  BY <1>1, <1>2, <1>3, <1>4, <1>5, <1>6, <1>8, <1>9 DEF Next, cpu_routine, ld_routine

-----------------------------------------------------------------------------
(* The mapped variables *)

\* What is left of the slice of CPU c, and of each process's burst, as functions of
\* proc, cpc and time_left.
SliceOf(CP, TL, c) ==
  IF CP[c] = "recheck" THEN (IF TL[c] = 0 THEN time_slot ELSE TL[c]) ELSE TL[c]

BudgetIn(P, CP, TL) == [p \in Proc |->
  IF ~ \E c \in CPU : P[c] = p THEN 0 ELSE SliceOf(CP, TL, CHOOSE d \in CPU : P[d] = p)]

LEMMA Mapped ==
  /\ Budget = BudgetIn(proc, cpc, time_left) /\ Budget' = BudgetIn(proc', cpc', time_left')
  /\ Ahead = AheadIn(mlq_ready_queue) /\ Ahead' = AheadIn(mlq_ready_queue')
BY DEF Budget, BudgetIn, SliceOf, slice, OnCPU, Ahead, AheadIn

LEMMA HeldSlice ==
  ASSUME NEW P, NEW CP, NEW TL, NEW p \in Proc, NEW c \in CPU, P[c] = p,
         \A d \in CPU : P[d] = p => d = c
  PROVE  BudgetIn(P, CP, TL)[p] = SliceOf(CP, TL, c)
<1>1. (CHOOSE d \in CPU : P[d] = p) = c
  OBVIOUS
<1> QED
  BY <1>1 DEF BudgetIn

LEMMA NoSlice ==
  ASSUME NEW P, NEW CP, NEW TL, NEW p \in Proc, \A d \in CPU : P[d] # p
  PROVE  BudgetIn(P, CP, TL)[p] = 0
BY DEF BudgetIn

\* A process is where ExclusiveOwner says it is.
LEMMA WhereIs ==
  ASSUME ExclusiveOwner, NEW p \in Proc
  PROVE  /\ p \in freed => Where[p] = "finished"
         /\ OnCPU(p) <=> Where[p] = "running"
         /\ InReady(p) <=> Where[p] = "ready"
         /\ ~ (p \in freed) /\ ~ OnCPU(p) /\ ~ InReady(p) => Where[p] = "new"
BY OwnerParts DEF Where

LEMMA WhereMoves ==
  ASSUME NEW p \in Proc,
         \A r \in Proc : r # p => (r \in freed' <=> r \in freed),
         \A r \in Proc : r # p => (OnCPU(r)' <=> OnCPU(r)),
         \A r \in Proc : r # p => (InReady(r)' <=> InReady(r))
  PROVE  /\ p \in freed' => Where' = [Where EXCEPT ![p] = "finished"]
         /\ ~ (p \in freed') /\ OnCPU(p)' => Where' = [Where EXCEPT ![p] = "running"]
         /\ ~ (p \in freed') /\ ~ OnCPU(p)' /\ InReady(p)' =>
              Where' = [Where EXCEPT ![p] = "ready"]
<1>1. Where = [r \in Proc |-> IF r \in freed THEN "finished" ELSE IF OnCPU(r) THEN "running"
                             ELSE IF InReady(r) THEN "ready" ELSE "new"]
  BY DEF Where
<1>2. Where' = [r \in Proc |-> IF r \in freed' THEN "finished" ELSE IF OnCPU(r)' THEN "running"
                              ELSE IF InReady(r)' THEN "ready" ELSE "new"]
  BY DEF Where
<1>3. \A r \in Proc \ {p} : Where'[r] = Where[r]
  <2> SUFFICES ASSUME NEW r \in Proc \ {p} PROVE Where'[r] = Where[r]
    OBVIOUS
  <2>1. /\ r \in freed' <=> r \in freed
        /\ OnCPU(r)' <=> OnCPU(r)
        /\ InReady(r)' <=> InReady(r)
    OBVIOUS
  <2> QED
    BY <1>1, <1>2, <2>1
<1>4. ASSUME NEW x, Where'[p] = x PROVE Where' = [Where EXCEPT ![p] = x]
  BY <1>1, <1>2, <1>3, <1>4
<1> QED
  BY <1>2, <1>4

\* There is a place among the running processes for a CPU without one.
LEMMA CpuFree ==
  ASSUME Owned, NEW c \in CPU, proc[c] = NULL
  PROVE  Abstract!Cardinality(Abstract!In("running")) < Abstract!Cardinality(CPU)
<1> DEFINE R == {p \in Proc : Where[p] = "running"}
           f == [p \in R |-> CHOOSE d \in CPU : proc[d] = p]
<1>1. \A S : Abstract!Cardinality(S) = Cardinality(S)
  BY DEF Abstract!Cardinality, Cardinality
<1>2. R = {p \in Proc : OnCPU(p)}
  BY WhereIs DEF Owned
<1>3. \A p \in R : f[p] \in CPU /\ proc[f[p]] = p
  BY <1>2 DEF OnCPU
<1>4. \A p \in R : f[p] # c
  <2> HIDE DEF f
  <2> QED
    BY <1>3, OsAssumption DEF NULL
<1>5. f \in Injection(R, CPU \ {c})
  <2>1. f \in [R -> CPU \ {c}]
    BY <1>3, <1>4
  <2>2. \A p, q \in R : f[p] = f[q] => p = q
    <3> HIDE DEF f
    <3> QED
      BY <1>3
  <2> QED
    BY <2>1, <2>2 DEF Injection, IsInjective
<1>6. /\ IsFiniteSet(CPU) /\ IsFiniteSet(CPU \ {c}) /\ Cardinality(CPU) \in Nat
      /\ Cardinality(CPU \ {c}) = Cardinality(CPU) - 1
  BY OsAssumption, FS_RemoveElement, FS_CardinalityType
<1>7. IsFiniteSet(R) /\ Cardinality(R) \leq Cardinality(CPU \ {c})
  <2> HIDE DEF f, R
  <2> QED
    BY <1>5, <1>6, FS_Injection
<1>8. Cardinality(R) \in Nat
  BY <1>7, FS_CardinalityType
<1>9. Cardinality(R) < Cardinality(CPU)
  <2> HIDE DEF R
  <2> QED
    BY <1>6, <1>7, <1>8
<1> QED
  BY <1>1, <1>9 DEF Abstract!In

-----------------------------------------------------------------------------
(* Every step of os.c is a step of the dispatcher or none *)

\* The burst of a process that a step of CPU c does not concern.
LEMMA BudgetElsewhere ==
  ASSUME ExclusiveOwner, NEW r \in Proc, NEW c \in CPU, proc[c] # r, proc'[c] # r,
         \A d \in CPU : d # c => /\ proc'[d] = proc[d] /\ cpc'[d] = cpc[d]
                                 /\ time_left'[d] = time_left[d]
  PROVE  Budget'[r] = Budget[r]
<1>1. r # NULL
  BY OsAssumption DEF NULL
<1>2. CASE OnCPU(r)
  <2>1. PICK d \in CPU : proc[d] = r
    BY <1>2 DEF OnCPU
  <2>2. d # c /\ \A e \in CPU : proc[e] = r => e = d
    BY <1>1, <2>1 DEF ExclusiveOwner
  <2>3. proc'[d] = r /\ \A e \in CPU : proc'[e] = r => e = d
    BY <2>1, <2>2
  <2>4. BudgetIn(proc, cpc, time_left)[r] = SliceOf(cpc, time_left, d)
    BY <2>1, <2>2, HeldSlice
  <2>5. BudgetIn(proc', cpc', time_left')[r] = SliceOf(cpc', time_left', d)
    BY <2>3, HeldSlice
  <2>6. SliceOf(cpc', time_left', d) = SliceOf(cpc, time_left, d)
    BY <2>2 DEF SliceOf
  <2> QED
    BY <2>4, <2>5, <2>6, Mapped
<1>3. CASE ~ OnCPU(r)
  <2>1. /\ \A d \in CPU : proc[d] # r
        /\ \A d \in CPU : proc'[d] # r
    BY <1>3 DEF OnCPU
  <2>2. BudgetIn(proc, cpc, time_left)[r] = 0
    BY <2>1, NoSlice
  <2>3. BudgetIn(proc', cpc', time_left')[r] = 0
    BY <2>1, NoSlice
  <2> QED
    BY <2>2, <2>3, Mapped
<1> QED
  BY <1>2, <1>3

LEMMA BudgetMoves ==
  ASSUME NEW p \in Proc, \A r \in Proc : r # p => Budget'[r] = Budget[r]
  PROVE  Budget' = [Budget EXCEPT ![p] = Budget'[p]]
<1>1. Budget = [r \in Proc |-> Budget[r]] /\ Budget' = [r \in Proc |-> Budget'[r]]
  BY Mapped DEF BudgetIn
<1> QED
  BY <1>1

\* get_proc is Dispatch.
LEMMA DispatchStep ==
  ASSUME Owned, Slices, NEW c \in CPU, proc[c] = NULL, get_proc(c), Waiting # {},
         UNCHANGED <<pc, freed, time_left>>, cpc' = [cpc EXCEPT ![c] = "recheck"]
  PROVE  \E p \in Proc : Abstract!Dispatch(p)
<1>a. /\ QueuesOK /\ EntriesApart /\ proc \in [CPU -> Proc \cup {NULL}]
      /\ cpc \in [CPU -> {"top", "putReady", "get", "recheck", "stopped"}]
      /\ ExclusiveOwner /\ NULL \notin Proc
  BY OwnerParts, OsAssumption DEF Owned, TypeOK, QueuesOK, NULL
<1> DEFINE M == mlq_ready_queue
<1>1. PICK h \in Prio :
        /\ ~ empty(M[h])
        /\ \A l \in Prio : ~ empty(M[l]) => l \leq h
        /\ M' = [M EXCEPT ![h] = dequeue(M[h])]
        /\ proc' = [proc EXCEPT ![c] = selected(M[h])]
  BY <1>a, TakesBest
<1>2. PICK p \in Proc : /\ InReady(p)
                        /\ proc' = [proc EXCEPT ![c] = p]
                        /\ \A r \in Proc : InReady(r)' <=> InReady(r) /\ r # p
  BY <1>a, TakesOne
<1>3. p = selected(M[h])
  BY <1>a, <1>1, <1>2
<1>4. ~ OnCPU(p) /\ p \notin freed
  BY <1>2, OwnerParts DEF Owned
<1>5. \A r \in Proc : OnCPU(r)' <=> OnCPU(r) \/ r = p
  BY <1>a, <1>2 DEF OnCPU
<1>6. Where' = [Where EXCEPT ![p] = "running"]
  BY <1>2, <1>4, <1>5, WhereMoves
<1>7. Budget' = [Budget EXCEPT ![p] = time_slot]
  <2>1. \A r \in Proc : r # p => Budget'[r] = Budget[r]
    BY <1>a, <1>2, BudgetElsewhere
  <2>2. \A d \in CPU : proc'[d] = p => d = c
    BY <1>a, <1>2, <1>4 DEF OnCPU
  <2>3. Budget'[p] = SliceOf(cpc', time_left', c)
    <3>1. proc'[c] = p
      BY <1>a, <1>2
    <3>2. BudgetIn(proc', cpc', time_left')[p] = SliceOf(cpc', time_left', c)
      BY <2>2, <3>1, HeldSlice
    <3> QED
      BY <3>2, Mapped
  <2>4. SliceOf(cpc', time_left', c) = time_slot
    BY <1>a DEF SliceOf, Slices
  <2> QED
    BY <2>1, <2>3, <2>4, BudgetMoves
<1>8. Ahead' = {pair \in Ahead : pair[1] # p}
  <2>1. M \in [Prio -> queue_t] /\ M' \in [Prio -> queue_t] /\ ApartIn(M)
    BY <1>a, TakesOne DEF QueuesOK, EntriesApart, ApartIn
  <2>2. \A q, r \in Proc : Before(M', q, r) <=> Before(M, q, r) /\ q # p
    BY <1>1, <1>3, <2>1, OrderTaken
  <2>3. /\ AheadIn(M) \subseteq Proc \X Proc
        /\ \A q, r \in Proc : <<q, r>> \in AheadIn(M) <=> Before(M, q, r)
    BY <2>1, AheadPairs
  <2>4. /\ AheadIn(M') \subseteq Proc \X Proc
        /\ \A q, r \in Proc : <<q, r>> \in AheadIn(M') <=> Before(M', q, r)
    BY <2>1, AheadPairs
  <2>5. \A q, r \in Proc : <<q, r>> \in AheadIn(M') <=> <<q, r>> \in AheadIn(M) /\ q # p
    BY <2>2, <2>3, <2>4
  <2>6. AheadIn(M') = {pair \in AheadIn(M) : pair[1] # p}
    BY <2>3, <2>4, <2>5
  <2> QED
    BY <2>6, Mapped
<1>9. \A q \in Abstract!In("ready") : ~ HigherRank(q, p) /\ <<q, p>> \notin Ahead
  <2> SUFFICES ASSUME NEW q \in Proc, Where[q] = "ready"
               PROVE  ~ HigherRank(q, p) /\ <<q, p>> \notin Ahead
    BY DEF Abstract!In
  <2>1. InReady(q)
    BY <1>a, WhereIs
  <2> PICK l \in Prio : \E j \in DOMAIN M[l] : M[l][j] = q
    BY <2>1 DEF InReady
  <2>2. PICK j \in DOMAIN M[l] : M[l][j] = q
    OBVIOUS
  <2>3. M[l] \in queue_t /\ M[h] \in queue_t /\ ~ empty(M[l])
    BY <1>a, <2>2 DEF QueuesOK, empty
  <2>4. FirstOfGreatest(priority, M[h], Len(M[h]), best_index(M[h]))
    BY <1>1, <2>3, BestIsFirst
  <2>5. \A s \in queue_t : DOMAIN s = 1 .. Len(s)
    BY DEF queue_t
  <2>6. prio[q] = l /\ prio[p] = h
    BY <1>3, <2>2, <2>3, <2>4, <2>5 DEF Slices, LevelsIn, selected, FirstOfGreatest
  <2>7. l = h => priority[q] \leq priority[p]
    BY <1>3, <2>2, <2>3, <2>4, <2>5 DEF selected, FirstOfGreatest
  <2>8. l \leq h
    BY <1>1, <2>3
  <2>9. ~ HigherRank(q, p)
    <3>1. l \in Nat /\ h \in Nat /\ priority[q] \in Nat /\ priority[p] \in Nat
      BY OsAssumption, QueueAssumption DEF Prio
    <3> QED
      BY <2>6, <2>7, <2>8, <3>1 DEF HigherRank
  <2>10. <<q, p>> \notin Ahead
    <3>1. M \in [Prio -> queue_t] /\ ApartIn(M)
      BY <1>a DEF QueuesOK, EntriesApart, ApartIn
    <3>2. ~ Before(M, q, p)
      BY <1>1, <1>3, <3>1, OrderTaken
    <3> QED
      BY <3>1, <3>2, AheadPairs, Mapped
  <2> QED
    BY <2>9, <2>10
<1>10. Abstract!Cardinality(Abstract!In("running")) < Abstract!Cardinality(CPU)
  BY CpuFree
<1>11. Where[p] = "ready"
  BY <1>a, <1>2, WhereIs
<1> QED
  BY <1>6, <1>7, <1>8, <1>9, <1>10, <1>11 DEF Abstract!Dispatch

\* put_mlq_proc is Enqueue, for a process that no CPU holds any more.
LEMMA EnqueueStep ==
  ASSUME Owned, Slices, num_processes \leq MAX_QUEUE_SIZE, NEW p \in Proc,
         ~ InReady(p), p \notin freed, put_mlq_proc(p), UNCHANGED <<pc, freed>>,
         ~ OnCPU(p)', \A r \in Proc : r # p => (OnCPU(r)' <=> OnCPU(r))
  PROVE  Abstract!Enqueue(p)
<1>a. QueuesOK /\ EntriesApart /\ ExclusiveOwner
  BY OwnerParts DEF Owned, TypeOK, QueuesOK
<1> DEFINE M == mlq_ready_queue
           h == prio[p]
<1>1. h \in Prio
  BY OsAssumption DEF Prio
<1>2. Len(M[h]) < MAX_QUEUE_SIZE
  BY <1>a, <1>1, HasRoom
<1>3. \A r \in Proc : InReady(r)' <=> InReady(r) \/ r = p
  BY <1>a, <1>2, PutsOne
<1>4. Where' = [Where EXCEPT ![p] = "ready"]
  BY <1>3, WhereMoves
<1>5. M \in [Prio -> queue_t] /\ \A l \in Prio : \A k \in DOMAIN M[l] : M[l][k] # p
  BY <1>a DEF QueuesOK, InReady
<1>6. M' \in [Prio -> queue_t] /\ M' = [M EXCEPT ![h] = enqueue(M[h], p)]
  BY <1>a, PutsOne DEF QueuesOK, put_mlq_proc
<1>7. \A q, r \in Proc :
        Before(M', q, r) <=>
          \/ Before(M, q, r)
          \/ r = p /\ priority[q] = priority[p] /\ \E j \in DOMAIN M[h] : M[h][j] = q
  <2>1. PICK K : K = M
    OBVIOUS
  <2> PICK g \in Prio : g = h
    BY <1>1
  <2>2. /\ K \in [Prio -> queue_t] /\ Len(K[g]) < MAX_QUEUE_SIZE
        /\ \A l \in Prio : \A k \in DOMAIN K[l] : K[l][k] # p
    BY <1>2, <1>5, <2>1
  <2>3. PutLast(K, [K EXCEPT ![g] = enqueue(K[g], p)], g, p)
    BY <2>2, OrderPut
  <2> QED
    BY <1>6, <2>1, <2>3 DEF PutLast
<1>8. \A q \in Proc :
        (priority[q] = priority[p] /\ \E j \in DOMAIN M[h] : M[h][j] = q) <=>
          (Where[q] = "ready" /\ Abstract!Peers(p, q))
  <2> SUFFICES ASSUME NEW q \in Proc
               PROVE  (priority[q] = priority[p] /\ \E j \in DOMAIN M[h] : M[h][j] = q) <=>
                        (Where[q] = "ready" /\ Abstract!Peers(p, q))
    OBVIOUS
  <2>1. Where[q] = "ready" <=> \E l \in Prio : \E j \in DOMAIN M[l] : M[l][j] = q
    BY <1>a, WhereIs DEF InReady
  <2>2. \A l \in Prio : \A j \in DOMAIN M[l] : M[l][j] = q => prio[q] = l
    BY DEF Slices, LevelsIn
  <2>3. Abstract!Peers(p, q) <=> prio[p] = prio[q] /\ priority[p] = priority[q]
    <3>1. prio[p] \in Nat /\ prio[q] \in Nat /\ priority[p] \in Nat /\ priority[q] \in Nat
      BY OsAssumption, QueueAssumption
    <3> QED
      BY <3>1 DEF Abstract!Peers, HigherRank
  <2> QED
    BY <1>1, <2>1, <2>2, <2>3
<1>9. Ahead' = Ahead \cup ({q \in Abstract!In("ready") : Abstract!Peers(p, q)} \X {p})
  <2> DEFINE New == {q \in Abstract!In("ready") : Abstract!Peers(p, q)} \X {p}
  <2>1. /\ AheadIn(M) \subseteq Proc \X Proc
        /\ \A q, r \in Proc : <<q, r>> \in AheadIn(M) <=> Before(M, q, r)
    BY <1>5, AheadPairs
  <2>2. /\ AheadIn(M') \subseteq Proc \X Proc
        /\ \A q, r \in Proc : <<q, r>> \in AheadIn(M') <=> Before(M', q, r)
    BY <1>6, AheadPairs
  <2>3. /\ New \subseteq Proc \X Proc
        /\ \A q, r \in Proc : <<q, r>> \in New <=>
             r = p /\ Where[q] = "ready" /\ Abstract!Peers(p, q)
    BY DEF Abstract!In
  <2> HIDE DEF New
  <2>4. ASSUME NEW q \in Proc, NEW r \in Proc
        PROVE  <<q, r>> \in AheadIn(M') <=> <<q, r>> \in AheadIn(M) \/ <<q, r>> \in New
    <3>1. Before(M', q, r) <=>
            \/ Before(M, q, r)
            \/ r = p /\ priority[q] = priority[p] /\ \E j \in DOMAIN M[h] : M[h][j] = q
      BY <1>7
    <3>2. (priority[q] = priority[p] /\ \E j \in DOMAIN M[h] : M[h][j] = q) <=>
            (Where[q] = "ready" /\ Abstract!Peers(p, q))
      BY <1>8
    <3>3. Before(M', q, r) <=> Before(M, q, r) \/ <<q, r>> \in New
      BY <2>3, <3>1, <3>2, Zenon
    <3> QED
      BY <2>1, <2>2, <3>3, Zenon
  <2>5. AheadIn(M') = AheadIn(M) \cup New
    <3> PICK old : old = AheadIn(M)
      OBVIOUS
    <3> PICK new : new = AheadIn(M')
      OBVIOUS
    <3>1. /\ old \subseteq Proc \X Proc /\ new \subseteq Proc \X Proc
          /\ New \subseteq Proc \X Proc
          /\ \A q, r \in Proc : <<q, r>> \in new <=> <<q, r>> \in old \/ <<q, r>> \in New
      BY <2>1, <2>2, <2>3, <2>4
    <3>2. new = old \cup New
      BY <3>1
    <3> QED
      BY <3>2
  <2> QED
    BY <2>5, Mapped DEF New
<1> QED
  BY <1>4, <1>9 DEF Abstract!Enqueue

\* A step that moves no process and uses up no slice is none of the dispatcher's.
LEMMA NoStep ==
  ASSUME Owned, UNCHANGED <<mlq_ready_queue, proc, freed, pc>>,
         \A c \in CPU : proc[c] # NULL => /\ time_left'[c] = time_left[c]
                                          /\ cpc'[c] = "recheck" <=> cpc[c] = "recheck"
  PROVE  UNCHANGED Abstract!dispVars
<1>1. Where' = Where
  BY DEF Where, OnCPU, InReady
<1>2. Ahead' = Ahead
  BY Mapped
<1>3. Budget' = Budget
  <2>1. \A r \in Proc : Budget'[r] = Budget[r]
    <3> SUFFICES ASSUME NEW r \in Proc PROVE Budget'[r] = Budget[r]
      OBVIOUS
    <3>1. r # NULL
      BY OsAssumption DEF NULL
    <3>2. CASE \E c \in CPU : proc[c] = r
      <4>1. PICK c \in CPU : proc[c] = r
        BY <3>2
      <4>2. \A d \in CPU : proc[d] = r => d = c
        BY <3>1, <4>1 DEF Owned, ExclusiveOwner
      <4>3. BudgetIn(proc, cpc, time_left)[r] = SliceOf(cpc, time_left, c)
        BY <4>1, <4>2, HeldSlice
      <4>4. BudgetIn(proc', cpc', time_left')[r] = SliceOf(cpc', time_left', c)
        BY <4>1, <4>2, HeldSlice
      <4>5. SliceOf(cpc', time_left', c) = SliceOf(cpc, time_left, c)
        BY <3>1, <4>1 DEF SliceOf
      <4> QED
        BY <4>3, <4>4, <4>5, Mapped
    <3>3. CASE \A c \in CPU : proc[c] # r
      <4>1. BudgetIn(proc, cpc, time_left)[r] = 0
        BY <3>3, NoSlice
      <4>2. BudgetIn(proc', cpc', time_left')[r] = 0
        BY <3>3, NoSlice
      <4> QED
        BY <4>1, <4>2, Mapped
    <3> QED
      BY <3>2, <3>3
  <2>2. Budget = [r \in Proc |-> Budget[r]] /\ Budget' = [r \in Proc |-> Budget'[r]]
    BY Mapped DEF BudgetIn
  <2> QED
    BY <2>1, <2>2
<1> QED
  BY <1>1, <1>2, <1>3 DEF Abstract!dispVars

\* The types of what the steps of the CPUs touch.
LEMMA StepTypes ==
  ASSUME Owned
  PROVE  /\ proc \in [CPU -> Proc \cup {NULL}] /\ NULL \notin Proc /\ ExclusiveOwner
         /\ cpc \in [CPU -> {"top", "putReady", "get", "recheck", "stopped"}]
         /\ time_left \in [CPU -> 0 .. time_slot] /\ time_slot \in Nat \ {0}
         /\ pc \in [Proc -> Nat] /\ codeSize \in [Proc -> Nat]
         /\ \A p \in Proc : pc[p] \leq codeSize[p]
<1>1. NULL \notin Proc
  BY OsAssumption DEF NULL
<1>2. TypeOK /\ ExclusiveOwner
  BY DEF Owned
<1>3. time_slot \in Nat \ {0} /\ codeSize \in [Proc -> Nat]
  BY OsAssumption
<1>4. /\ proc \in [CPU -> Proc \cup {NULL}]
      /\ cpc \in [CPU -> {"top", "putReady", "get", "recheck", "stopped"}]
      /\ time_left \in [CPU -> 0 .. time_slot]
      /\ pc \in [Proc -> Nat]
      /\ \A p \in Proc : pc[p] \leq codeSize[p]
  BY <1>2, Zenon DEF TypeOK
<1> QED
  BY <1>1, <1>2, <1>3, <1>4

\* run() is Execute.
LEMMA ExecuteStep ==
  ASSUME Owned, Slices, NEW c \in CPU, Run(c)
  PROVE  \E p \in Proc : Abstract!Execute(p)
<1>a. /\ proc \in [CPU -> Proc \cup {NULL}] /\ NULL \notin Proc /\ ExclusiveOwner
      /\ cpc \in [CPU -> {"top", "putReady", "get", "recheck", "stopped"}]
      /\ time_left \in [CPU -> 0 .. time_slot] /\ time_slot \in Nat \ {0}
      /\ pc \in [Proc -> Nat] /\ codeSize \in [Proc -> Nat]
      /\ \A p \in Proc : pc[p] \leq codeSize[p]
  BY StepTypes
<1> DEFINE left == [q \in Proc |-> codeSize[q] - pc[q]]
<1>1. PICK p \in Proc : p = proc[c]
  BY <1>a DEF Run
<1>2. OnCPU(p) /\ \A d \in CPU : proc[d] = p => d = c
  BY <1>1, <1>a DEF OnCPU, ExclusiveOwner
<1>3. UNCHANGED <<mlq_ready_queue, freed, proc>> /\ cpc' = [cpc EXCEPT ![c] = "top"]
  BY DEF Run, schedVars, Goto
<1>4. Where[p] = "running"
  BY <1>2, <1>a, WhereIs
<1>5. Where' = Where /\ Ahead' = Ahead
  BY <1>3, Mapped DEF Where, OnCPU, InReady
<1>6. Budget[p] = SliceOf(cpc, time_left, c)
  <2>1. BudgetIn(proc, cpc, time_left)[p] = SliceOf(cpc, time_left, c)
    BY <1>1, <1>2, HeldSlice
  <2> QED
    BY <2>1, Mapped
<1>7. Budget'[p] = SliceOf(cpc', time_left', c)
  <2>1. BudgetIn(proc', cpc', time_left')[p] = SliceOf(cpc', time_left', c)
    BY <1>1, <1>2, <1>3, HeldSlice
  <2> QED
    BY <2>1, Mapped
<1>8. SliceOf(cpc, time_left, c) > 0 /\ SliceOf(cpc', time_left', c) = SliceOf(cpc, time_left, c) - 1
  <2>1. time_left'[c] = slice(c) - 1 /\ cpc'[c] = "top"
    BY <1>3, <1>a DEF Run
  <2>2. cpc[c] = "recheck" \/ (cpc[c] = "top" /\ time_left[c] # 0)
    BY DEF Run, At
  <2> QED
    BY <1>a, <2>1, <2>2 DEF SliceOf, slice
<1>9. Budget' = [Budget EXCEPT ![p] = Budget[p] - 1] /\ Budget[p] > 0
  <2>1. \A d \in CPU : d # c => /\ proc'[d] = proc[d] /\ cpc'[d] = cpc[d]
                                /\ time_left'[d] = time_left[d]
    BY <1>3, <1>a DEF Run
  <2>2. \A r \in Proc : r # p => Budget'[r] = Budget[r]
    BY <1>1, <1>3, <1>a, <2>1, BudgetElsewhere
  <2> QED
    BY <1>6, <1>7, <1>8, <2>2, BudgetMoves
<1>10. left[p] > 0 \/ codeSize[p] = 0
  <2>1. \/ cpc[c] = "recheck" /\ Unfinished(p)
        \/ ~ Ended(p)
    BY <1>1, <1>a DEF Run, At, Slices
  <2> QED
    BY <1>a, <2>1 DEF Unfinished, Ended
<1>11. left' = [left EXCEPT ![p] = IF left[p] = 0 THEN 0 ELSE left[p] - 1]
  <2>1. pc' = [pc EXCEPT ![p] = IF Ended(p) THEN pc[p] ELSE pc[p] + 1]
    BY <1>1 DEF Run
  <2>2. \A q \in Proc : pc'[q] = IF q = p /\ ~ Ended(p) THEN pc[p] + 1 ELSE pc[q]
    BY <1>a, <2>1
  <2>3. left[p] = 0 <=> Ended(p)
    BY <1>a DEF Ended
  <2>4. \A q \in Proc : codeSize[q] - pc'[q] =
          IF q = p THEN (IF left[p] = 0 THEN 0 ELSE left[p] - 1) ELSE left[q]
    BY <1>a, <2>2, <2>3
  <2> QED
    BY <2>4
<1> QED
  BY <1>4, <1>5, <1>9, <1>10, <1>11 DEF Abstract!Execute

\* Giving back the PCB is Finish.
LEMMA FinishStep ==
  ASSUME Owned, Slices, NEW c \in CPU, Finish(c)
  PROVE  \E p \in Proc : Abstract!Finish(p)
<1>a. /\ proc \in [CPU -> Proc \cup {NULL}] /\ NULL \notin Proc /\ ExclusiveOwner
      /\ cpc \in [CPU -> {"top", "putReady", "get", "recheck", "stopped"}]
      /\ time_left \in [CPU -> 0 .. time_slot]
      /\ pc \in [Proc -> Nat] /\ codeSize \in [Proc -> Nat]
  BY StepTypes
<1>1. PICK p \in Proc : p = proc[c]
  BY <1>a DEF Finish
<1>2. OnCPU(p) /\ \A d \in CPU : proc[d] = p => d = c
  BY <1>1, <1>a DEF OnCPU, ExclusiveOwner
<1>3. /\ UNCHANGED <<mlq_ready_queue, pc>> /\ freed' = freed \cup {p}
      /\ proc'[c] = NULL
      /\ \A d \in CPU : d # c => /\ proc'[d] = proc[d] /\ cpc'[d] = cpc[d]
                                 /\ time_left'[d] = time_left[d]
  BY <1>1, <1>a DEF Finish, schedVars, Goto
<1>4. Where[p] = "running"
  BY <1>2, <1>a, WhereIs
<1>5. Where' = [Where EXCEPT ![p] = "finished"]
  <2>1. \A r \in Proc : r # p => /\ r \in freed' <=> r \in freed
                                 /\ OnCPU(r)' <=> OnCPU(r)
                                 /\ InReady(r)' <=> InReady(r)
    BY <1>1, <1>3, <1>a DEF OnCPU, InReady
  <2> QED
    BY <1>3, <2>1, WhereMoves
<1>6. Ahead' = Ahead
  BY <1>3, Mapped
<1>7. Budget' = [Budget EXCEPT ![p] = 0]
  <2>1. \A d \in CPU : proc'[d] # p
    BY <1>2, <1>3, <1>a
  <2>2. BudgetIn(proc', cpc', time_left')[p] = 0
    BY <2>1, NoSlice
  <2>3. \A r \in Proc : r # p => Budget'[r] = Budget[r]
    BY <1>1, <1>3, <1>a, BudgetElsewhere
  <2> QED
    BY <2>2, <2>3, BudgetMoves, Mapped
<1>8. codeSize[p] - pc[p] = 0
  BY <1>1, <1>a DEF Finish, Ended
<1> QED
  BY <1>3, <1>4, <1>5, <1>6, <1>7, <1>8 DEF Abstract!Finish

\* put_proc's second half is Preempt.
LEMMA PreemptStep ==
  ASSUME Owned, Slices, num_processes \leq MAX_QUEUE_SIZE, NEW c \in CPU, PutReady(c)
  PROVE  \E p \in Proc : Abstract!Preempt(p)
<1>a. /\ proc \in [CPU -> Proc \cup {NULL}] /\ NULL \notin Proc /\ ExclusiveOwner
      /\ cpc \in [CPU -> {"top", "putReady", "get", "recheck", "stopped"}]
      /\ pc \in [Proc -> Nat] /\ codeSize \in [Proc -> Nat]
      /\ \A p \in Proc : pc[p] \leq codeSize[p]
  BY StepTypes
<1>0. cpc[c] = "putReady"
  BY DEF PutReady, At
<1>1. PICK p \in Proc : p = proc[c]
  BY <1>0, <1>a DEF Owned, Held
<1>2. OnCPU(p) /\ ~ InReady(p) /\ p \notin freed /\ \A d \in CPU : proc[d] = p => d = c
  BY <1>1, <1>a, OwnerParts DEF OnCPU
<1>3. /\ put_mlq_proc(p) /\ UNCHANGED <<pc, freed>>
      /\ proc'[c] = NULL
      /\ \A d \in CPU : d # c => /\ proc'[d] = proc[d] /\ cpc'[d] = cpc[d]
                                 /\ time_left'[d] = time_left[d]
  BY <1>1, <1>a DEF PutReady, procVars, Goto
<1>4. Where[p] = "running"
  BY <1>2, <1>a, WhereIs
<1>5. \A d \in CPU : proc'[d] # p
  BY <1>2, <1>3, <1>a
<1>6. ~ OnCPU(p)' /\ \A r \in Proc : r # p => (OnCPU(r)' <=> OnCPU(r))
  BY <1>1, <1>3, <1>5, <1>a DEF OnCPU
<1>7. Abstract!Enqueue(p)
  BY <1>2, <1>3, <1>6, EnqueueStep
<1>8. Budget[p] = 0
  <2>1. BudgetIn(proc, cpc, time_left)[p] = SliceOf(cpc, time_left, c)
    BY <1>1, <1>2, HeldSlice
  <2>2. SliceOf(cpc, time_left, c) = 0
    BY <1>0 DEF SliceOf, Slices
  <2> QED
    BY <2>1, <2>2, Mapped
<1>9. Budget' = Budget
  <2>1. BudgetIn(proc', cpc', time_left')[p] = 0
    BY <1>5, NoSlice
  <2>2. \A r \in Proc : r # p => Budget'[r] = Budget[r]
    BY <1>1, <1>3, <1>a, BudgetElsewhere
  <2>3. \A r \in Proc : Budget'[r] = Budget[r]
    BY <1>8, <2>1, <2>2, Mapped
  <2>4. Budget = [r \in Proc |-> Budget[r]] /\ Budget' = [r \in Proc |-> Budget'[r]]
    BY Mapped DEF BudgetIn
  <2> QED
    BY <2>3, <2>4
<1>10. codeSize[p] - pc[p] > 0
  BY <1>0, <1>1, <1>a DEF Slices, Ended
<1> QED
  BY <1>4, <1>7, <1>8, <1>9, <1>10 DEF Abstract!Preempt

\* add_proc's second half is Admit.
LEMMA AdmitStep ==
  ASSUME Owned, Slices, num_processes \leq MAX_QUEUE_SIZE, AddReady
  PROVE  \E p \in Proc : Abstract!Admit(p)
<1>a. num_processes \in Nat /\ Proc = 1 .. num_processes /\ i \in 1 .. num_processes + 1
  BY OsAssumption DEF Owned, TypeOK
<1>1. PICK p \in Proc : p = i
  BY <1>a DEF AddReady, ldAt, Owned, Held
<1>2. ~ InReady(p) /\ ~ OnCPU(p) /\ p \notin freed
  BY <1>1, <1>a DEF Owned
<1>3. put_mlq_proc(p) /\ UNCHANGED <<pc, freed, proc, time_left, cpc>>
  BY <1>1 DEF AddReady, procVars, cpuVars
<1>4. \A r \in Proc : OnCPU(r)' <=> OnCPU(r)
  BY <1>3 DEF OnCPU
<1>5. Abstract!Enqueue(p)
  BY <1>2, <1>3, <1>4, EnqueueStep
<1>6. Where[p] = "new"
  BY <1>2 DEF Where
<1>7. Budget' = Budget
  BY <1>3, Mapped
<1> QED
  BY <1>5, <1>6, <1>7 DEF Abstract!Admit

-----------------------------------------------------------------------------

LEMMA DispatcherInit == Init => Abstract!DispInit
<1> SUFFICES ASSUME Init PROVE Abstract!DispInit
  OBVIOUS
<1>1. \A p \in Proc : ~ OnCPU(p) /\ ~ InReady(p) /\ p \notin freed
  BY OsAssumption DEF Init, OnCPU, InReady, NULL
<1>2. Where = [p \in Proc |-> "new"]
  BY <1>1 DEF Where
<1>3. Budget = [p \in Proc |-> 0]
  BY <1>1 DEF Budget
<1>4. [p \in Proc |-> codeSize[p] - pc[p]] = codeSize
  BY OsAssumption DEF Init
<1>5. Ahead = {}
  <2>1. mlq_ready_queue \in [Prio -> queue_t]
    BY TypeInit DEF TypeOK
  <2>2. \A q, r \in Proc : ~ Before(mlq_ready_queue, q, r)
    BY DEF Init, Before
  <2>3. AheadIn(mlq_ready_queue) = {}
    BY <2>1, <2>2, AheadPairs
  <2> QED
    BY <2>3, Mapped
<1> QED
  BY <1>2, <1>3, <1>4, <1>5 DEF Abstract!DispInit

LEMMA DispatcherStep ==
  ASSUME num_processes \leq MAX_QUEUE_SIZE, Owned, Slices, [Next]_vars
  PROVE  [Abstract!DispNext]_(Abstract!dispVars)
<1>a. /\ proc \in [CPU -> Proc \cup {NULL}]
      /\ cpc \in [CPU -> {"top", "putReady", "get", "recheck", "stopped"}]
      /\ \A c \in CPU : cpc[c] = "get" => proc[c] = NULL
  BY DEF Owned, TypeOK
<1> USE DEF schedVars, cpuVars, ldVars, procVars, Goto, At, ldAt
<1>1. ASSUME NEW c \in CPU, FirstLoad(c) \/ GetNext(c)
      PROVE  [Abstract!DispNext]_(Abstract!dispVars)
  <2>1. proc[c] = NULL /\ get_proc(c) /\ UNCHANGED <<pc, freed, time_left>>
    BY <1>1, <1>a DEF FirstLoad, GetNext
  <2>2. CASE Waiting = {}
    <3>1. proc' = proc /\ UNCHANGED mlq_ready_queue
      BY <1>a, <2>1, <2>2 DEF get_proc
    <3>2. \A d \in CPU : proc[d] # NULL => cpc'[d] = cpc[d]
      BY <1>1, <1>a, <2>1 DEF FirstLoad, GetNext
    <3> QED
      BY <2>1, <3>1, <3>2, NoStep
  <2>3. CASE Waiting # {}
    <3>1. proc'[c] # NULL
      <4>1. QueuesOK /\ EntriesApart
        BY OwnerParts DEF Owned, TypeOK, QueuesOK
      <4> QED
        BY <1>a, <2>1, <2>3, <4>1, TakesOne, OsAssumption DEF NULL
    <3>2. cpc' = [cpc EXCEPT ![c] = "recheck"]
      BY <1>1, <3>1 DEF FirstLoad, GetNext
    <3>3. \E p \in Proc : Abstract!Dispatch(p)
      BY <2>1, <2>3, <3>2, DispatchStep
    <3> QED
      BY <3>3 DEF Abstract!DispNext
  <2> QED
    BY <2>2, <2>3
<1>2. ASSUME NEW c \in CPU, Finish(c) PROVE [Abstract!DispNext]_(Abstract!dispVars)
  BY <1>2, FinishStep DEF Abstract!DispNext
<1>3. ASSUME NEW c \in CPU, PutReady(c) PROVE [Abstract!DispNext]_(Abstract!dispVars)
  BY <1>3, PreemptStep DEF Abstract!DispNext
<1>4. ASSUME NEW c \in CPU, Run(c) PROVE [Abstract!DispNext]_(Abstract!dispVars)
  BY <1>4, ExecuteStep DEF Abstract!DispNext
<1>5. ASSUME AddReady PROVE [Abstract!DispNext]_(Abstract!dispVars)
  BY <1>5, AdmitStep DEF Abstract!DispNext
<1>6. ASSUME NEW c \in CPU, PutRunning(c) \/ Stop(c) \/ SkipSlot(c)
      PROVE  [Abstract!DispNext]_(Abstract!dispVars)
  <2>1. UNCHANGED <<mlq_ready_queue, proc, freed, pc, time_left>>
    BY <1>6 DEF PutRunning, put_running_list, Stop, SkipSlot
  <2>2. \A d \in CPU : proc[d] # NULL => (cpc'[d] = "recheck" <=> cpc[d] = "recheck")
    BY <1>6, <1>a DEF PutRunning, Stop, SkipSlot
  <2> QED
    BY <2>1, <2>2, NoStep
<1>7. ASSUME WaitForStart \/ AddRunning \/ AllLoaded \/ Tick \/ UNCHANGED vars
      PROVE  [Abstract!DispNext]_(Abstract!dispVars)
  <2>1. UNCHANGED <<mlq_ready_queue, proc, freed, pc, time_left, cpc>>
    BY <1>7 DEF WaitForStart, AddRunning, put_running_list, AllLoaded, Tick, vars
  <2> QED
    BY <2>1, NoStep
<1> QED
  BY <1>1, <1>2, <1>3, <1>4, <1>5, <1>6, <1>7 DEF Next, cpu_routine, ld_routine

\* The scheduler keeps its promises to every process (os.c:36, sched.c:47, queue.c:23):
\* one burst of at most time_slot instructions at a time, the next one to the process of
\* the highest rank that has waited longest, as long as a queue has room for all.
THEOREM DispatcherImplemented ==
  ASSUME num_processes \leq MAX_QUEUE_SIZE
  PROVE  Spec => DispatcherRefined
<1>1. Init => Owned /\ Slices
  BY OwnedInit, SlicesInit
<1>2. Owned /\ Slices /\ [Next]_vars => Owned' /\ Slices'
  BY OwnedStep, SlicesStep
<1>3. Init => Abstract!DispInit
  BY DispatcherInit
<1>4. Owned /\ Slices /\ [Next]_vars => [Abstract!DispNext]_(Abstract!dispVars)
  BY DispatcherStep
<1> QED
  BY <1>1, <1>2, <1>3, <1>4, PTL DEF Spec, DispatcherRefined, Abstract!DispSpec
=============================================================================
