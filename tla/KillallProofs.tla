---------------------------- MODULE KillallProofs ----------------------------
(***************************************************************************)
(* What Killall.tla promises for queues of any length: the call alone      *)
(* keeps the processes it does not kill, and their order; the scheduler    *)
(* alone loses nobody.  Together they do (KillallRace.cfg).                *)
(***************************************************************************)
EXTENDS Killall, NumberFacts, FiniteSetTheorems, FunctionTheorems

-----------------------------------------------------------------------------
(* enqueue and dequeue of queue.c *)

\* The entry dequeue chooses has the greatest priority, and is the first that has it
\* (queue.c:28).
LEMMA BestIsFirst ==
  ASSUME NEW s \in queue_t, ~ empty(s)
  PROVE  FirstOfGreatest(priority, s, Len(s), best_index(s))
<1>1. s \in Seq(Proc) /\ Len(s) \in Nat \ {0} /\ DOMAIN s = 1 .. Len(s)
  BY DEF queue_t, empty
<1>2. priority \in [Proc -> Nat] /\ Len(s) \in 1 .. Len(s)
  BY <1>1, QueueAssumption
<1>3. \E k \in 1 .. Len(s) : FirstOfGreatest(priority, s, Len(s), k)
  BY <1>1, <1>2, GreatestExists
<1> QED
  BY <1>1, <1>3 DEF best_index, FirstOfGreatest

\* dequeue takes one entry out and closes the gap: all others stay, in their order.
LEMMA Dequeued ==
  ASSUME NEW s \in queue_t, ~ empty(s)
  PROVE  /\ best_index(s) \in 1 .. Len(s)
         /\ selected(s) \in Proc
         /\ dequeue(s) \in queue_t
         /\ Len(dequeue(s)) = Len(s) - 1
         /\ \A k \in 1 .. Len(s) - 1 :
              dequeue(s)[k] = s[IF k < best_index(s) THEN k ELSE k + 1]
<1>1. s \in Seq(Proc) /\ Len(s) \in Nat /\ Len(s) \leq MAX_QUEUE_SIZE
  BY DEF queue_t
<1>2. best_index(s) \in 1 .. Len(s)
  BY BestIsFirst DEF FirstOfGreatest
<1>3. Without(s, best_index(s), dequeue(s), Proc)
  BY <1>1, <1>2, TakenOut DEF dequeue, Seqs!RemoveAt
<1>4. selected(s) \in Proc
  BY <1>1, <1>2 DEF selected
<1>5. dequeue(s) \in queue_t
  BY <1>1, <1>2, <1>3, QueueAssumption DEF queue_t, Without
<1> QED
  BY <1>2, <1>3, <1>4, <1>5 DEF Without

-----------------------------------------------------------------------------
(* Contents and order of a queue *)

\* No process is twice in s.
Distinct(s) == \A j, k \in DOMAIN s : s[j] = s[k] => j = k

\* What a sequence and its contents have to do with each other.
LEMMA InContents ==
  ASSUME NEW s \in queue_t
  PROVE  /\ Len(s) \in Nat /\ DOMAIN s = 1 .. Len(s) /\ Contents(s) \subseteq Proc
         /\ \A k \in 1 .. Len(s) : s[k] \in Contents(s) /\ s[k] \in Proc
         /\ \A p \in Contents(s) : \E k \in 1 .. Len(s) : s[k] = p
         /\ empty(s) <=> Contents(s) = {}
BY DEF queue_t, Contents, empty

\* A queue of different processes has as many as it is long.
LEMMA Counted ==
  ASSUME NEW s \in queue_t, Distinct(s)
  PROVE  IsFiniteSet(Contents(s)) /\ Cardinality(Contents(s)) = Len(s)
<1> DEFINE C == Contents(s)
<1>1. /\ Len(s) \in Nat /\ DOMAIN s = 1 .. Len(s) /\ s \in [1 .. Len(s) -> Proc]
      /\ \A k \in 1 .. Len(s) : s[k] \in C
      /\ \A p \in C : \E k \in 1 .. Len(s) : s[k] = p
  BY InContents DEF queue_t
<1> HIDE DEF C
<1>2. /\ \A j, k \in 1 .. Len(s) : s[j] = s[k] => j = k
      /\ s \in [1 .. Len(s) -> C]
  <2>1. \A j, k \in 1 .. Len(s) : s[j] = s[k] => j = k
    BY <1>1 DEF Distinct
  <2>2. s = [k \in 1 .. Len(s) |-> s[k]]
    BY <1>1
  <2> QED
    BY <1>1, <2>1, <2>2
<1>3. ExistsBijection(1 .. Len(s), C)
  <2>1. s \in Bijection(1 .. Len(s), C)
    BY <1>1, <1>2, Fun_IsBij
  <2> QED
    BY <2>1, Fun_ExistsBij
<1>4. IsFiniteSet(1 .. Len(s)) /\ Cardinality(1 .. Len(s)) = Len(s)
  BY <1>1, FS_Interval
<1> QED
  BY <1>3, <1>4, FS_Bijection DEF C

\* A queue that lacks one of the processes there were at first has room for it.
LEMMA Room ==
  ASSUME NEW s \in queue_t, NEW t \in queue_t, Distinct(s), Distinct(t),
         Contents(s) \subseteq Contents(t), NEW p \in Contents(t) \ Contents(s)
  PROVE  Len(s) < MAX_QUEUE_SIZE
<1>1. /\ IsFiniteSet(Contents(t)) /\ Cardinality(Contents(t)) = Len(t)
      /\ Cardinality(Contents(s)) = Len(s)
  BY Counted
<1>2. Len(s) \leq Len(t) /\ Len(s) # Len(t)
  BY <1>1, FS_Subset
<1>3. Len(t) \leq MAX_QUEUE_SIZE /\ Len(s) \in Nat /\ Len(t) \in Nat
  BY DEF queue_t
<1> QED
  BY <1>2, <1>3, QueueAssumption

\* The entries dequeue leaves keep their places relative to each other.
LEMMA Left ==
  ASSUME NEW s \in queue_t, ~ empty(s)
  PROVE  /\ \A j, k \in 1 .. Len(dequeue(s)) : j < k =>
              \E a, b \in 1 .. Len(s) : /\ a < b
                                        /\ dequeue(s)[j] = s[a] /\ dequeue(s)[k] = s[b]
         /\ Contents(s) = Contents(dequeue(s)) \cup {selected(s)}
<1> DEFINE b == best_index(s)
           d == dequeue(s)
           At(k) == IF k < b THEN k ELSE k + 1
<1>1. /\ b \in 1 .. Len(s) /\ d \in queue_t /\ Len(d) = Len(s) - 1
      /\ \A k \in 1 .. Len(s) - 1 : d[k] = s[At(k)]
      /\ selected(s) = s[b]
  BY Dequeued DEF selected
<1>2. Len(s) \in Nat /\ DOMAIN s = 1 .. Len(s) /\ DOMAIN d = 1 .. Len(d)
  BY <1>1 DEF queue_t
<1> HIDE DEF b, d
<1>3. \A k \in 1 .. Len(d) : d[k] = s[At(k)] /\ At(k) \in 1 .. Len(s)
  BY <1>1, <1>2
<1>4. \A j, k \in 1 .. Len(d) : j < k => At(j) < At(k)
  BY <1>1, <1>2
<1>5. \A k \in 1 .. Len(s) : k # b => \E j \in 1 .. Len(d) : At(j) = k
  <2> SUFFICES ASSUME NEW k \in 1 .. Len(s), k # b
               PROVE  \E j \in 1 .. Len(d) : At(j) = k
    OBVIOUS
  <2>1. CASE k < b
    <3>1. k \in 1 .. Len(d) /\ At(k) = k
      BY <1>1, <1>2, <2>1
    <3> QED
      BY <3>1
  <2>2. CASE ~ (k < b)
    <3>1. k - 1 \in 1 .. Len(d) /\ At(k - 1) = k
      BY <1>1, <1>2, <2>2
    <3> QED
      BY <3>1
  <2> QED
    BY <2>1, <2>2
<1>6. \A j, k \in 1 .. Len(d) : j < k =>
        \E x, y \in 1 .. Len(s) : x < y /\ d[j] = s[x] /\ d[k] = s[y]
  <2> HIDE DEF At
  <2> QED
    BY <1>3, <1>4
<1>7. Contents(s) = Contents(d) \cup {selected(s)}
  <2> HIDE DEF At
  <2>1. \A k \in 1 .. Len(s) : s[k] \in Contents(d) \cup {selected(s)}
    BY <1>1, <1>2, <1>3, <1>5 DEF Contents
  <2>2. \A k \in 1 .. Len(d) : d[k] \in Contents(s)
    BY <1>2, <1>3 DEF Contents
  <2>3. selected(s) \in Contents(s)
    BY <1>1, <1>2 DEF Contents
  <2> QED
    BY <1>2, <2>1, <2>2, <2>3 DEF Contents
<1> QED
  BY <1>6, <1>7 DEF d

\* Of different processes the one taken is gone, and the others are different.
LEMMA Taken ==
  ASSUME NEW s \in queue_t, ~ empty(s), Distinct(s)
  PROVE  Distinct(dequeue(s)) /\ selected(s) \notin Contents(dequeue(s))
<1> DEFINE b == best_index(s)
           d == dequeue(s)
           At(k) == IF k < b THEN k ELSE k + 1
<1>1. /\ b \in 1 .. Len(s) /\ d \in queue_t /\ Len(d) = Len(s) - 1
      /\ \A k \in 1 .. Len(s) - 1 : d[k] = s[At(k)]
      /\ selected(s) = s[b]
  BY Dequeued DEF selected
<1>2. Len(s) \in Nat /\ DOMAIN s = 1 .. Len(s) /\ DOMAIN d = 1 .. Len(d)
  BY <1>1 DEF queue_t
<1> HIDE DEF b, d
<1>3. \A k \in 1 .. Len(d) : d[k] = s[At(k)] /\ At(k) \in 1 .. Len(s) /\ At(k) # b
  BY <1>1, <1>2
<1>4. \A j, k \in 1 .. Len(d) : At(j) = At(k) => j = k
  BY <1>1, <1>2
<1> HIDE DEF At
<1>5. Distinct(d)
  BY <1>2, <1>3, <1>4 DEF Distinct
<1>6. selected(s) \notin Contents(d)
  BY <1>1, <1>2, <1>3 DEF Distinct, Contents
<1> QED
  BY <1>5, <1>6 DEF d

\* An enqueue that finds room adds one entry behind the others.
LEMMA Added ==
  ASSUME NEW s \in queue_t, NEW p \in Proc, Len(s) < MAX_QUEUE_SIZE
  PROVE  /\ Append(s, p) \in queue_t /\ enqueue(s, p) = Append(s, p)
         /\ Contents(Append(s, p)) = Contents(s) \cup {p}
         /\ Distinct(s) /\ p \notin Contents(s) => Distinct(Append(s, p))
<1> DEFINE e == Append(s, p)
<1>1. /\ Len(s) \in Nat /\ DOMAIN s = 1 .. Len(s)
      /\ e \in Seq(Proc) /\ Len(e) = Len(s) + 1 /\ DOMAIN e = 1 .. Len(s) + 1
      /\ e[Len(s) + 1] = p /\ \A k \in 1 .. Len(s) : e[k] = s[k]
  BY DEF queue_t
<1>2. e \in queue_t /\ enqueue(s, p) = e
  <2>1. Len(s) + 1 \leq MAX_QUEUE_SIZE /\ ~ (Len(s) \geq MAX_QUEUE_SIZE)
    BY <1>1, QueueAssumption
  <2> QED
    BY <1>1, <2>1 DEF queue_t, enqueue
<1> HIDE DEF e
<1>3. \A k \in 1 .. Len(s) + 1 : k \in 1 .. Len(s) \/ k = Len(s) + 1
  BY <1>1
<1>4. \A k \in 1 .. Len(s) : k \in 1 .. Len(s) + 1 /\ k # Len(s) + 1
  BY <1>1
<1>5. Len(s) + 1 \in 1 .. Len(s) + 1
  BY <1>1
<1>6. Contents(e) = Contents(s) \cup {p}
  BY <1>1, <1>3, <1>4, <1>5 DEF Contents
<1>7. Distinct(s) /\ p \notin Contents(s) => Distinct(e)
  BY <1>1, <1>3 DEF Distinct, Contents
<1> QED
  BY <1>2, <1>6, <1>7 DEF e

-----------------------------------------------------------------------------
(* The call alone *)

\* a would be dispatched before b when the call was made.
Before(a, b) == <<a, b>> \in GoesBefore(q0)

\* Nothing in s would be dispatched after anything in t.
AllBefore(s, t) == \A a \in Contents(s), b \in Contents(t) : Before(a, b)

\* The entries of s are in the order of dispatch.
Sorted(s) == \A j, k \in DOMAIN s : j < k => Before(s[j], s[k])

\* Peers are in the order they were in.
Stable(s) == \A j, k \in DOMAIN s :
  j < k /\ priority[s[j]] = priority[s[k]] => Before(s[j], s[k])

\* Who is in the queue at the call, and not killed.
Survivors == Contents(q0) \ Killed

\* While the queue is drained: tempQueue holds survivors, in the order of dispatch, and
\* all of them would be dispatched before what is still in the queue.
Draining ==
  /\ Stable(q) /\ Sorted(tempQueue) /\ AllBefore(tempQueue, q)
  /\ Distinct(q) /\ Distinct(tempQueue)
  /\ Contents(q) \cup Contents(tempQueue) \subseteq Contents(q0)
  /\ Contents(tempQueue) \cap Killed = {}

\* While it is filled again: it holds the first of the survivors.
Restoring ==
  /\ Sorted(q) /\ Sorted(tempQueue) /\ AllBefore(q, tempQueue)
  /\ Distinct(q) /\ Distinct(tempQueue)

\* Where the survivors are at each step of the call.
CallAlone ==
  /\ q \in queue_t /\ q0 \in queue_t /\ tempQueue \in queue_t
  /\ Distinct(q0)
  /\ kpc \in {"drain", "remove", "filter", "restore", "store", "returned"}
  /\ kpc \in {"drain", "remove"} =>
       Draining /\ Survivors \subseteq Contents(q) \cup Contents(tempQueue)
  /\ kpc = "remove" => ~ empty(q) /\ kindex = best_index(q) /\ kproc = selected(q)
  /\ kpc = "filter" =>
       /\ Draining
       /\ Survivors \subseteq Contents(q) \cup Contents(tempQueue) \cup {kproc}
       /\ kproc \in Contents(q0)
       /\ \A a \in Contents(tempQueue) : Before(a, kproc)
       /\ \A b \in Contents(q) : Before(kproc, b)
  /\ kpc \in {"restore", "returned"} =>
       Restoring /\ Contents(q) \cup Contents(tempQueue) = Survivors
  /\ kpc = "returned" => empty(tempQueue)
  /\ kpc = "store" =>
       /\ Restoring /\ ksize = Len(q)
       /\ Contents(q) \cup Contents(tempQueue) \cup {kproc} = Survivors
       /\ \A a \in Contents(q) : Before(a, kproc)
       /\ \A b \in Contents(tempQueue) : Before(kproc, b)

\* Nobody but the call uses the queue.
Alone == \A t \in Other : opc[t] = "absent"

\* The states of the other threads.
Modes == opc \in [Other -> {"absent", "get", "remove", "put"}]

\* The inductive invariant of the call, when nobody else is at work.
Call == Alone /\ kpc # "absent" => CallAlone

\* What Before says, with positions of the queue at the call.
LEMMA BeforeMeans ==
  ASSUME q0 \in queue_t, NEW a, NEW b
  PROVE  Before(a, b) <=>
           /\ a \in Contents(q0) /\ b \in Contents(q0)
           /\ \/ priority[a] > priority[b]
              \/ /\ priority[a] = priority[b]
                 /\ \E j, k \in 1 .. Len(q0) : q0[j] = a /\ q0[k] = b /\ j < k
<1>1. /\ DOMAIN q0 = 1 .. Len(q0)
      /\ \A p \in Contents(q0) : \E k \in 1 .. Len(q0) : q0[k] = p
  BY InContents
<1>2. Before(a, b) <=>
        /\ a \in Contents(q0) /\ b \in Contents(q0)
        /\ \E j, k \in DOMAIN q0 :
             /\ q0[j] = a /\ q0[k] = b
             /\ \/ priority[q0[j]] > priority[q0[k]]
                \/ priority[q0[j]] = priority[q0[k]] /\ j < k
  BY DEF Before, GoesBefore
<1>3. ASSUME Before(a, b)
      PROVE  \/ priority[a] > priority[b]
             \/ /\ priority[a] = priority[b]
                /\ \E j, k \in 1 .. Len(q0) : q0[j] = a /\ q0[k] = b /\ j < k
  BY <1>1, <1>2, <1>3
<1>4. ASSUME a \in Contents(q0), b \in Contents(q0),
             \/ priority[a] > priority[b]
             \/ /\ priority[a] = priority[b]
                /\ \E j, k \in 1 .. Len(q0) : q0[j] = a /\ q0[k] = b /\ j < k
      PROVE  Before(a, b)
  BY <1>1, <1>2, <1>4
<1> QED
  BY <1>2, <1>3, <1>4

\* Before is a strict order on different processes.
LEMMA OneWay ==
  ASSUME q0 \in queue_t, Distinct(q0), NEW a, NEW b, Before(a, b)
  PROVE  a # b /\ ~ Before(b, a)
<1>1. /\ Len(q0) \in Nat /\ DOMAIN q0 = 1 .. Len(q0)
      /\ \A p \in Contents(q0) : p \in Proc
  BY InContents
<1>2. a \in Contents(q0) /\ b \in Contents(q0)
  BY BeforeMeans
<1>3. priority[a] \in Nat /\ priority[b] \in Nat
  BY <1>1, <1>2, QueueAssumption
<1>4. CASE priority[a] > priority[b]
  <2>1. ~ (priority[b] > priority[a]) /\ priority[a] # priority[b]
    BY <1>3, <1>4
  <2> QED
    BY <2>1, BeforeMeans
<1>5. CASE priority[a] = priority[b]
  <2>1. ~ (priority[b] > priority[a]) /\ ~ (priority[a] > priority[b])
    BY <1>3, <1>5
  <2>2. PICK j, k \in 1 .. Len(q0) : q0[j] = a /\ q0[k] = b /\ j < k
    BY <2>1, BeforeMeans
  <2>3. j # k /\ ~ (k < j)
    BY <2>2
  <2>4. a # b
    BY <1>1, <2>2, <2>3 DEF Distinct
  <2>5. \A x, y \in 1 .. Len(q0) : q0[x] = b /\ q0[y] = a => x = k /\ y = j
    BY <1>1, <2>2 DEF Distinct
  <2>6. ~ Before(b, a)
    BY <2>1, <2>3, <2>5, BeforeMeans
  <2> QED
    BY <2>4, <2>6
<1> QED
  BY <1>4, <1>5, BeforeMeans

\* dequeue takes what would be dispatched before all the rest: the first of the greatest,
\* if peers are in order.
LEMMA BestBefore ==
  ASSUME q0 \in queue_t, NEW s \in queue_t, ~ empty(s), Distinct(s), Stable(s),
         Contents(s) \subseteq Contents(q0), NEW p \in Contents(dequeue(s))
  PROVE  Before(selected(s), p)
<1> DEFINE b == best_index(s)
<1>1. /\ Len(s) \in Nat /\ DOMAIN s = 1 .. Len(s)
      /\ \A k \in 1 .. Len(s) : s[k] \in Contents(s) /\ s[k] \in Proc
  BY InContents
<1>2. /\ b \in 1 .. Len(s) /\ selected(s) = s[b]
      /\ \A k \in 1 .. Len(s) : /\ priority[s[k]] \leq priority[s[b]]
                                /\ k < b => priority[s[k]] < priority[s[b]]
  BY BestIsFirst DEF FirstOfGreatest, selected
<1>3. p \in Contents(s) /\ p # selected(s)
  BY Left, Taken
<1> HIDE DEF b
<1>4. PICK k \in 1 .. Len(s) : p = s[k] /\ k # b
  BY <1>1, <1>2, <1>3, InContents
<1>5. priority[s[k]] \in Nat /\ priority[s[b]] \in Nat
  BY <1>1, <1>2, QueueAssumption
<1>6. s[k] \in Contents(q0) /\ s[b] \in Contents(q0)
  BY <1>1, <1>2
<1>7. CASE priority[s[k]] < priority[s[b]]
  BY <1>2, <1>4, <1>5, <1>6, <1>7, BeforeMeans
<1>8. CASE priority[s[k]] = priority[s[b]]
  <2>1. b < k
    BY <1>1, <1>2, <1>4, <1>5, <1>8
  <2> QED
    BY <1>1, <1>2, <1>4, <1>8, <2>1 DEF Stable
<1> QED
  BY <1>2, <1>5, <1>7, <1>8

\* Order survives a dequeue ...
LEMMA StillInOrder ==
  ASSUME NEW s \in queue_t, ~ empty(s)
  PROVE  /\ Stable(s) => Stable(dequeue(s))
         /\ Sorted(s) => Sorted(dequeue(s)) /\ Stable(s)
<1>1. /\ DOMAIN s = 1 .. Len(s) /\ dequeue(s) \in queue_t
      /\ DOMAIN dequeue(s) = 1 .. Len(dequeue(s))
  BY Dequeued, InContents
<1> DEFINE d == dequeue(s)
<1>2. \A j, k \in DOMAIN d : j < k =>
        \E a, b \in DOMAIN s : a < b /\ d[j] = s[a] /\ d[k] = s[b]
  <2>1. \A j, k \in 1 .. Len(d) : j < k =>
          \E a, b \in 1 .. Len(s) : a < b /\ d[j] = s[a] /\ d[k] = s[b]
    BY Left
  <2>2. DOMAIN s = 1 .. Len(s) /\ DOMAIN d = 1 .. Len(d)
    BY <1>1
  <2> HIDE DEF d
  <2> QED
    BY <2>1, <2>2
<1> HIDE DEF d
<1>3. Stable(s) => Stable(d)
  BY <1>2 DEF Stable
<1>4. Sorted(s) => Sorted(d) /\ Stable(s)
  BY <1>2 DEF Sorted, Stable
<1> QED
  BY <1>3, <1>4 DEF d

\* ... and an enqueue behind all that goes before.
LEMMA SortedAppend ==
  ASSUME NEW s \in queue_t, NEW p \in Proc, Sorted(s), \A a \in Contents(s) : Before(a, p)
  PROVE  Sorted(Append(s, p))
<1> DEFINE e == Append(s, p)
<1>1. /\ Len(s) \in Nat /\ DOMAIN s = 1 .. Len(s) /\ DOMAIN e = 1 .. Len(s) + 1
      /\ e[Len(s) + 1] = p /\ \A k \in 1 .. Len(s) : e[k] = s[k]
  BY DEF queue_t
<1>2. \A k \in 1 .. Len(s) : s[k] \in Contents(s)
  BY InContents
<1> HIDE DEF e
<1>3. ASSUME NEW j \in DOMAIN e, NEW k \in DOMAIN e, j < k PROVE Before(e[j], e[k])
  <2>1. j \in 1 .. Len(s)
    BY <1>1, <1>3
  <2>2. CASE k \in 1 .. Len(s)
    BY <1>1, <1>3, <2>1, <2>2 DEF Sorted
  <2>3. CASE k = Len(s) + 1
    BY <1>1, <1>2, <2>1, <2>3
  <2> QED
    BY <1>1, <2>2, <2>3
<1> QED
  BY <1>3 DEF Sorted, e

\* At first the queue is its own order.
LEMMA CallInit == Init => Call
<1> SUFFICES ASSUME Init, Alone, kpc # "absent" PROVE CallAlone
  BY DEF Call
<1>1. q \in queue_t /\ q0 = q /\ Distinct(q) /\ tempQueue = << >> /\ kpc = "drain"
  BY KillallAssumption DEF Init, Distinct
<1>2. /\ tempQueue \in queue_t /\ DOMAIN tempQueue = {} /\ Contents(tempQueue) = {}
  BY <1>1, QueueAssumption DEF queue_t, Contents
<1>3. Stable(q)
  <2> SUFFICES ASSUME NEW j \in DOMAIN q, NEW k \in DOMAIN q, j < k,
                      priority[q[j]] = priority[q[k]]
               PROVE  Before(q[j], q[k])
    BY DEF Stable
  <2>1. DOMAIN q = 1 .. Len(q) /\ q[j] \in Contents(q0) /\ q[k] \in Contents(q0)
    BY <1>1, InContents
  <2>2. \E x, y \in 1 .. Len(q0) : q0[x] = q[j] /\ q0[y] = q[k] /\ x < y
    BY <1>1, <2>1
  <2> QED
    BY <1>1, <2>1, <2>2, BeforeMeans
<1>4. Draining
  BY <1>1, <1>2, <1>3 DEF Draining, Sorted, AllBefore, Distinct
<1> QED
  BY <1>1, <1>2, <1>4 DEF CallAlone, Survivors

\* The loop ends with an empty queue: all survivors are in tempQueue, sorted.
LEMMA DrainStep == CallAlone /\ drain => CallAlone'
<1> SUFFICES ASSUME CallAlone, drain PROVE CallAlone'
  OBVIOUS
<1>1. /\ UNCHANGED <<q, q0, tempQueue>> /\ kpc = "drain"
      /\ q \in queue_t /\ Draining /\ Survivors \subseteq Contents(q) \cup Contents(tempQueue)
  BY DEF drain, CallAlone
<1>2. UNCHANGED Draining /\ UNCHANGED Survivors
  BY <1>1 DEF Draining, Survivors, Stable, Sorted, AllBefore, Distinct, Before, Contents,
              GoesBefore
<1>3. CASE empty(q)
  <2>1. kpc' = "restore"
    BY <1>3 DEF drain
  <2>2. Contents(q) = {} /\ DOMAIN q = {}
    BY <1>1, <1>3, InContents DEF empty
  <2>3. Restoring'
    BY <1>1, <1>2, <2>2 DEF Draining, Restoring, Sorted, AllBefore, Distinct, Contents,
                            Before, GoesBefore
  <2>4. (Contents(q) \cup Contents(tempQueue))' = Survivors'
    BY <1>1, <1>2, <2>2 DEF Draining, Survivors
  <2> QED
    BY <1>1, <2>1, <2>3, <2>4 DEF CallAlone, Distinct
<1>4. CASE ~ empty(q)
  <2>1. kpc' = "remove" /\ kindex' = best_index(q) /\ kproc' = selected(q)
    BY <1>4 DEF drain
  <2> QED
    BY <1>1, <1>2, <1>4, <2>1 DEF CallAlone, Distinct
<1> QED
  BY <1>3, <1>4

\* The process in hand goes before all that are left.
LEMMA RemoveStep == CallAlone /\ remove => CallAlone'
<1> SUFFICES ASSUME CallAlone, remove PROVE CallAlone'
  OBVIOUS
<1>1. /\ kpc = "remove" /\ UNCHANGED <<q0, tempQueue, kproc>>
      /\ q \in queue_t /\ q0 \in queue_t /\ tempQueue \in queue_t /\ Distinct(q0)
      /\ Draining /\ Survivors \subseteq Contents(q) \cup Contents(tempQueue)
      /\ ~ empty(q) /\ kindex = best_index(q) /\ kproc = selected(q)
  BY DEF remove, CallAlone
<1>2. kindex \in DOMAIN q /\ dequeue(q) \in queue_t
  BY <1>1, Dequeued, InContents
<1>3. kpc' = "filter" /\ q' = dequeue(q)
  BY <1>1, <1>2 DEF remove, Shifted, dequeue
<1>4. Contents(q) = Contents(q') \cup {kproc}
  BY <1>1, <1>3, Left
<1>5. Stable(q') /\ Distinct(q')
  BY <1>1, <1>3, Taken, StillInOrder DEF Draining
<1>6. \A b \in Contents(q') : Before(kproc, b)
  BY <1>1, <1>3, BestBefore DEF Draining
<1>7. \A a \in Contents(tempQueue) : Before(a, kproc)
  BY <1>1, <1>4 DEF Draining, AllBefore
<1>8. /\ AllBefore(tempQueue, q') /\ kproc \in Contents(q0)
      /\ Contents(q') \cup Contents(tempQueue) \subseteq Contents(q0)
      /\ Survivors \subseteq Contents(q') \cup Contents(tempQueue) \cup {kproc}
  BY <1>1, <1>4 DEF Draining, AllBefore
<1>9. Draining'
  BY <1>1, <1>5, <1>8 DEF Draining, Stable, Sorted, AllBefore, Distinct, Before
<1> QED
  BY <1>1, <1>2, <1>3, <1>6, <1>7, <1>8, <1>9
  DEF CallAlone, Distinct, Before, Survivors

\* A survivor goes behind those taken before it; tempQueue has room.
LEMMA FilterStep == CallAlone /\ filter => CallAlone'
<1> SUFFICES ASSUME CallAlone, filter PROVE CallAlone'
  OBVIOUS
<1>1. /\ kpc = "filter" /\ kpc' = "drain" /\ UNCHANGED <<q, q0>>
      /\ q \in queue_t /\ q0 \in queue_t /\ tempQueue \in queue_t /\ Distinct(q0)
      /\ Draining /\ kproc \in Contents(q0)
      /\ Survivors \subseteq Contents(q) \cup Contents(tempQueue) \cup {kproc}
      /\ \A a \in Contents(tempQueue) : Before(a, kproc)
      /\ \A b \in Contents(q) : Before(kproc, b)
  BY DEF filter, CallAlone
<1>2. CASE kproc \in Killed
  <2>1. UNCHANGED tempQueue
    BY <1>2 DEF filter
  <2>2. Draining'
    BY <1>1, <2>1 DEF Draining, Stable, Sorted, AllBefore, Distinct, Before
  <2>3. Survivors \subseteq Contents(q) \cup Contents(tempQueue)
    BY <1>1, <1>2 DEF Survivors
  <2> QED
    BY <1>1, <2>1, <2>2, <2>3 DEF CallAlone, Survivors, Distinct
<1>3. CASE kproc \notin Killed
  <2>1. kproc \notin Contents(tempQueue) /\ kproc \in Proc
    BY <1>1, OneWay, InContents
  <2>2. Contents(tempQueue) \subseteq Contents(q0) /\ Distinct(tempQueue)
    BY <1>1 DEF Draining
  <2>3. Len(tempQueue) < MAX_QUEUE_SIZE
    BY <1>1, <2>1, <2>2, Room
  <2>4. tempQueue' = enqueue(tempQueue, kproc)
    BY <1>3 DEF filter
  <2>5. /\ tempQueue' = Append(tempQueue, kproc) /\ tempQueue' \in queue_t
        /\ Contents(tempQueue') = Contents(tempQueue) \cup {kproc} /\ Distinct(tempQueue')
    <3>1. /\ enqueue(tempQueue, kproc) = Append(tempQueue, kproc)
          /\ Append(tempQueue, kproc) \in queue_t
          /\ Contents(Append(tempQueue, kproc)) = Contents(tempQueue) \cup {kproc}
      BY <1>1, <2>1, <2>3, Added
    <3>2. Distinct(Append(tempQueue, kproc))
      BY <1>1, <2>1, <2>2, <2>3, Added
    <3> QED
      BY <2>4, <3>1, <3>2
  <2>6. Sorted(tempQueue')
    BY <1>1, <2>1, <2>5, SortedAppend DEF Draining
  <2>7. AllBefore(tempQueue', q) /\ Contents(tempQueue') \cap Killed = {}
    BY <1>1, <1>3, <2>5 DEF Draining, AllBefore
  <2>8. Draining'
    BY <1>1, <2>5, <2>6, <2>7 DEF Draining, Stable, Sorted, AllBefore, Distinct, Before
  <2> QED
    BY <1>1, <2>5, <2>8 DEF CallAlone, Survivors, Distinct
<1> QED
  BY <1>2, <1>3

\* The first of tempQueue goes before the rest of it and behind the queue.
LEMMA RestoreStep == CallAlone /\ restore => CallAlone'
<1> SUFFICES ASSUME CallAlone, restore PROVE CallAlone'
  OBVIOUS
<1>1. /\ kpc = "restore" /\ UNCHANGED <<q, q0>>
      /\ q \in queue_t /\ q0 \in queue_t /\ tempQueue \in queue_t /\ Distinct(q0)
      /\ Restoring /\ Contents(q) \cup Contents(tempQueue) = Survivors
  BY DEF restore, CallAlone
<1>2. CASE empty(tempQueue)
  <2>1. kpc' = "returned" /\ UNCHANGED tempQueue
    BY <1>2 DEF restore
  <2>2. Restoring'
    BY <1>1, <2>1 DEF Restoring, Sorted, AllBefore, Distinct, Before
  <2> QED
    BY <1>1, <1>2, <2>1, <2>2 DEF CallAlone, Survivors, Distinct
<1>3. CASE ~ empty(tempQueue)
  <2>1. /\ kpc' = "store" /\ ksize' = Len(q)
        /\ kproc' = selected(tempQueue) /\ tempQueue' = dequeue(tempQueue)
    BY <1>3 DEF restore
  <2>2. Contents(tempQueue) = Contents(tempQueue') \cup {kproc'} /\ tempQueue' \in queue_t
    BY <1>1, <1>3, <2>1, Left, Dequeued
  <2>3. /\ Sorted(tempQueue) /\ Distinct(tempQueue) /\ AllBefore(q, tempQueue)
        /\ Contents(tempQueue) \subseteq Contents(q0)
    BY <1>1 DEF Restoring, Survivors
  <2>4. Sorted(tempQueue') /\ Stable(tempQueue) /\ Distinct(tempQueue')
    BY <1>1, <1>3, <2>1, <2>3, StillInOrder, Taken
  <2>5. \A b \in Contents(tempQueue') : Before(kproc', b)
    BY <1>1, <1>3, <2>1, <2>3, <2>4, BestBefore
  <2>6. (\A a \in Contents(q) : Before(a, kproc')) /\ AllBefore(q, tempQueue')
    BY <2>2, <2>3 DEF AllBefore
  <2>7. Restoring'
    BY <1>1, <2>4, <2>6 DEF Restoring, Sorted, AllBefore, Distinct, Before
  <2>8. Contents(q) \cup Contents(tempQueue') \cup {kproc'} = Survivors
    BY <1>1, <2>2
  <2> QED
    BY <1>1, <2>1, <2>2, <2>5, <2>6, <2>7, <2>8 DEF CallAlone, Survivors, Distinct, Before
<1> QED
  BY <1>2, <1>3

\* Nobody has changed the size: the survivor goes to the end of the queue.
LEMMA StoreStep == CallAlone /\ store => CallAlone'
<1> SUFFICES ASSUME CallAlone, store PROVE CallAlone'
  OBVIOUS
<1>1. /\ kpc = "store" /\ kpc' = "restore" /\ UNCHANGED <<q0, tempQueue>>
      /\ q \in queue_t /\ q0 \in queue_t /\ tempQueue \in queue_t /\ Distinct(q0)
      /\ Restoring /\ ksize = Len(q)
      /\ Contents(q) \cup Contents(tempQueue) \cup {kproc} = Survivors
      /\ \A a \in Contents(q) : Before(a, kproc)
      /\ \A b \in Contents(tempQueue) : Before(kproc, b)
  BY DEF store, CallAlone
<1>2. /\ kproc \notin Contents(q) /\ kproc \in Contents(q0)
      /\ Contents(q) \subseteq Contents(q0) /\ Distinct(q)
  BY <1>1, OneWay DEF Survivors, Restoring
<1>3. kproc \in Proc /\ Len(q) < MAX_QUEUE_SIZE /\ Len(q) \in Nat
  BY <1>1, <1>2, Room, InContents
<1>4. q' = Append(q, kproc)
  <2>1. q' = StoredAt(q, Len(q), kproc)
    BY <1>1, <1>3, QueueAssumption DEF store
  <2>2. q \in Seq(Proc)
    BY <1>1 DEF queue_t
  <2>3. SubSeq(q, 1, Len(q)) = q /\ q \o <<kproc>> = Append(q, kproc)
    BY <1>3, <2>2
  <2> QED
    BY <1>3, <2>1, <2>3 DEF StoredAt
<1>5. q' \in queue_t /\ Contents(q') = Contents(q) \cup {kproc} /\ Distinct(q')
  BY <1>1, <1>2, <1>3, <1>4, Added
<1>6. Sorted(q') /\ AllBefore(q', tempQueue)
  BY <1>1, <1>3, <1>4, <1>5, SortedAppend DEF Restoring, AllBefore
<1>7. Restoring'
  BY <1>1, <1>5, <1>6 DEF Restoring, Sorted, AllBefore, Distinct, Before
<1>8. Contents(q') \cup Contents(tempQueue) = Survivors
  BY <1>1, <1>5
<1> QED
  BY <1>1, <1>5, <1>7, <1>8 DEF CallAlone, Survivors, Distinct

\* With nobody else at work only the call moves.
LEMMA CallStep == Modes /\ Call /\ [Next]_vars => Call'
<1> SUFFICES ASSUME Modes, Call, [Next]_vars, Alone', kpc' # "absent"
             PROVE  CallAlone'
  BY DEF Call
<1>1. CASE drain \/ remove \/ filter \/ restore \/ store
  <2>1. Alone /\ kpc # "absent"
    BY <1>1 DEF drain, remove, filter, restore, store, otherVars, Alone
  <2>2. CallAlone
    BY <2>1 DEF Call
  <2> QED
    BY <1>1, <2>2, DrainStep, RemoveStep, FilterStep, RestoreStep, StoreStep
<1>2. ASSUME NEW t \in Other, other_get(t) \/ other_remove(t) \/ other_put(t)
      PROVE  FALSE
  BY <1>2 DEF other_get, other_remove, other_put, Modes, Alone
<1>3. CASE UNCHANGED vars
  <2>1. Alone /\ kpc # "absent"
    BY <1>3 DEF vars, otherVars, killVars, Alone
  <2>2. CallAlone
    BY <2>1 DEF Call
  <2>3. UNCHANGED Draining /\ UNCHANGED Restoring /\ UNCHANGED Survivors
    BY <1>3 DEF Draining, Restoring, Survivors, Stable, Sorted, AllBefore, Distinct,
                Before, vars, killVars
  <2> QED
    BY <1>3, <2>2, <2>3 DEF CallAlone, Distinct, Before, vars, killVars
<1> QED
  BY <1>1, <1>2, <1>3 DEF Next, Returned

\* The invariant of the call, and the states other threads are in.
LEMMA CallAlways == Spec => [](Modes /\ Call)
<1>1. Init => Modes
  BY DEF Init, Modes
<1>2. Modes /\ [Next]_vars => Modes'
  <2> SUFFICES ASSUME Modes, [Next]_vars PROVE Modes'
    OBVIOUS
  <2>1. CASE UNCHANGED opc
    BY <2>1 DEF Modes
  <2>2. ASSUME NEW t \in Other, other_get(t) \/ other_remove(t) \/ other_put(t)
        PROVE  Modes'
    BY <2>2 DEF other_get, other_remove, other_put, Modes
  <2> QED
    BY <2>1, <2>2 DEF Next, drain, remove, filter, restore, store, Returned, vars, otherVars
<1> QED
  BY <1>1, <1>2, CallInit, CallStep, PTL DEF Spec

\* When the call returns, with nobody else at work, the queue holds the processes it
\* does not kill and nothing else: tempQueue always has room for them (sys_killall.c:29),
\* and so has the queue itself (sys_killall.c:35).
THEOREM SurvivorsAlwaysKept == Spec => []SurvivorsKept
<1>1. Modes /\ Call => SurvivorsKept
  <2> SUFFICES ASSUME Call, ReturnedAlone
               PROVE  Contents(q) = Contents(q0) \ Killed /\ Len(q) = Cardinality(Contents(q))
    BY DEF SurvivorsKept
  <2>1. CallAlone /\ kpc = "returned"
    BY DEF Call, ReturnedAlone, Alone
  <2>2. /\ q \in queue_t /\ Distinct(q) /\ Contents(q) \cup Contents(tempQueue) = Survivors
        /\ Contents(tempQueue) = {}
    BY <2>1, InContents DEF CallAlone, Restoring
  <2> QED
    BY <2>2, Counted DEF Survivors
<1> QED
  BY <1>1, CallAlways, PTL

\* They will be dispatched in the order in which they would have been without the call:
\* the two passes through the array (queue.c:28) sort it, and keep peers in order.
THEOREM OrderAlwaysKept == Spec => []OrderKept
<1>1. Modes /\ Call => OrderKept
  <2> SUFFICES ASSUME Call, ReturnedAlone
               PROVE  GoesBefore(q) = {pair \in GoesBefore(q0) :
                                         pair[1] \notin Killed /\ pair[2] \notin Killed}
    BY DEF OrderKept
  <2>1. CallAlone /\ kpc = "returned"
    BY DEF Call, ReturnedAlone, Alone
  <2>2. /\ q \in queue_t /\ q0 \in queue_t /\ Distinct(q0) /\ Sorted(q)
        /\ Contents(q) = Survivors
    BY <2>1, InContents DEF CallAlone, Restoring
  <2>3. /\ DOMAIN q = 1 .. Len(q) /\ Len(q) \in Nat
        /\ \A p \in Contents(q) : \E k \in 1 .. Len(q) : q[k] = p
        /\ \A k \in 1 .. Len(q) : q[k] \in Contents(q) /\ q[k] \in Proc
    BY <2>2, InContents
  <2>4. \A a, b : <<a, b>> \in GoesBefore(q) <=>
          /\ a \in Contents(q) /\ b \in Contents(q)
          /\ \E j, k \in 1 .. Len(q) :
               /\ q[j] = a /\ q[k] = b
               /\ \/ priority[a] > priority[b]
                  \/ priority[a] = priority[b] /\ j < k
    <3> SUFFICES ASSUME NEW a, NEW b
                 PROVE  <<a, b>> \in GoesBefore(q) <=>
                          /\ a \in Contents(q) /\ b \in Contents(q)
                          /\ \E j, k \in DOMAIN q :
                               /\ q[j] = a /\ q[k] = b
                               /\ \/ priority[a] > priority[b]
                                  \/ priority[a] = priority[b] /\ j < k
      BY <2>3
    <3> QED
      BY DEF GoesBefore
  <2>5. ASSUME NEW a, NEW b, <<a, b>> \in GoesBefore(q)
        PROVE  Before(a, b) /\ a \notin Killed /\ b \notin Killed
    <3>1. PICK j, k \in 1 .. Len(q) :
            /\ q[j] = a /\ q[k] = b
            /\ \/ priority[a] > priority[b]
               \/ priority[a] = priority[b] /\ j < k
      BY <2>4, <2>5
    <3>2. a \in Survivors /\ b \in Survivors
      BY <2>2, <2>4, <2>5
    <3>3. CASE priority[a] > priority[b]
      BY <2>2, <3>2, <3>3, BeforeMeans DEF Survivors
    <3>4. CASE j < k
      BY <2>3, <2>2, <3>1, <3>2, <3>4 DEF Sorted, Survivors
    <3> QED
      BY <3>1, <3>2, <3>3, <3>4 DEF Survivors
  <2>6. ASSUME NEW a, NEW b, Before(a, b), a \notin Killed, b \notin Killed
        PROVE  <<a, b>> \in GoesBefore(q)
    <3>1. a \in Contents(q) /\ b \in Contents(q)
      BY <2>2, <2>6, BeforeMeans DEF Survivors
    <3>2. PICK j, k \in 1 .. Len(q) : q[j] = a /\ q[k] = b
      BY <2>3, <3>1
    <3>3. priority[a] > priority[b] \/ priority[a] = priority[b]
      BY <2>2, <2>6, BeforeMeans
    <3>4. a # b /\ ~ Before(b, a)
      BY <2>2, <2>6, OneWay
    <3>5. j < k
          \/ priority[a] > priority[b]
      <4>1. j # k /\ ~ (k < j)
        BY <2>2, <2>3, <3>2, <3>4 DEF Sorted
      <4> QED
        BY <2>3, <4>1
    <3> QED
      BY <2>4, <3>1, <3>2, <3>3, <3>5
  <2>7. \A pair \in GoesBefore(q) \cup GoesBefore(q0) : pair = <<pair[1], pair[2]>>
    BY DEF GoesBefore
  <2> QED
    BY <2>5, <2>6, <2>7 DEF Before
<1> QED
  BY <1>1, CallAlways, PTL

-----------------------------------------------------------------------------
(* The other threads alone *)

\* A thread between other_get and other_remove holds the lock and the index of the best
\* process; one that has removed a process still has it, and nobody else does.
OthersAlone ==
  /\ q \in queue_t /\ q0 \in queue_t /\ Distinct(q) /\ Distinct(q0)
  /\ opc \in [Other -> {"absent", "get", "remove", "put"}]
  /\ oproc \in [Other -> Proc \cup {NOBODY}] /\ oindex \in [Other -> Nat]
  /\ \A t \in Other :
       /\ opc[t] = "remove" <=> lock = t
       /\ opc[t] = "remove" => /\ ~ empty(q)
                               /\ oindex[t] = best_index(q) /\ oproc[t] = selected(q)
       /\ opc[t] = "put" => oproc[t] \in Contents(q0) \ Contents(q)
  /\ \A t, u \in Other : opc[t] = "put" /\ opc[u] = "put" /\ oproc[t] = oproc[u] => t = u
  /\ Contents(q) \subseteq Contents(q0)
  /\ \A p \in Contents(q0) :
       p \in Contents(q) \/ \E t \in Other : opc[t] = "put" /\ oproc[t] = p

\* The inductive invariant of the scheduler, when there is no call.
Scheduler == kpc = "absent" => OthersAlone

\* At first no thread has anything.
LEMMA SchedulerInit == Init => Scheduler
<1> SUFFICES ASSUME Init PROVE OthersAlone
  BY DEF Scheduler
<1>1. q \in queue_t /\ q0 = q /\ Distinct(q) /\ lock = NOBODY /\ NOBODY \notin Other
  BY KillallAssumption DEF Init, Distinct
<1>2. /\ opc \in [Other -> {"absent", "get"}]
      /\ oproc \in [Other -> Proc \cup {NOBODY}] /\ oindex \in [Other -> Nat]
  BY DEF Init
<1> QED
  BY <1>1, <1>2 DEF OthersAlone

\* A thread takes the lock and finds the best process.
LEMMA GetStep == \A t \in Other : OthersAlone /\ other_get(t) => OthersAlone'
<1> SUFFICES ASSUME NEW t \in Other, OthersAlone, other_get(t) PROVE OthersAlone'
  OBVIOUS
<1>1. /\ q \in queue_t /\ ~ empty(q) /\ UNCHANGED <<q, q0>>
      /\ opc[t] = "get" /\ opc' = [opc EXCEPT ![t] = "remove"] /\ lock = NOBODY /\ lock' = t
      /\ oindex' = [oindex EXCEPT ![t] = best_index(q)]
      /\ oproc' = [oproc EXCEPT ![t] = selected(q)]
  BY DEF OthersAlone, other_get
<1>2. best_index(q) \in Nat /\ selected(q) \in Proc
  BY <1>1, Dequeued, InContents
<1>3. \A u \in Other : opc[u] # "remove"
  BY <1>1, KillallAssumption DEF OthersAlone
<1>4. /\ opc' \in [Other -> {"absent", "get", "remove", "put"}]
      /\ oproc' \in [Other -> Proc \cup {NOBODY}] /\ oindex' \in [Other -> Nat]
  BY <1>1, <1>2 DEF OthersAlone
<1>5. /\ opc'[t] = "remove" /\ oindex'[t] = best_index(q) /\ oproc'[t] = selected(q)
      /\ \A u \in Other : u # t => opc'[u] = opc[u] /\ oproc'[u] = oproc[u]
  BY <1>1 DEF OthersAlone
<1> QED
  BY <1>1, <1>3, <1>4, <1>5 DEF OthersAlone, Distinct

\* It takes that process out: nobody has touched the queue since.
LEMMA TakeStep == \A t \in Other : OthersAlone /\ other_remove(t) => OthersAlone'
<1> SUFFICES ASSUME NEW t \in Other, OthersAlone, other_remove(t) PROVE OthersAlone'
  OBVIOUS
<1>1. /\ q \in queue_t /\ ~ empty(q) /\ Distinct(q) /\ UNCHANGED <<q0, oproc, oindex>>
      /\ opc[t] = "remove" /\ opc' = [opc EXCEPT ![t] = "put"] /\ lock = t /\ lock' = NOBODY
      /\ oindex[t] = best_index(q) /\ oproc[t] = selected(q)
  BY DEF OthersAlone, other_remove
<1>2. oindex[t] \in DOMAIN q
  BY <1>1, Dequeued, InContents
<1>3. q' = dequeue(q)
  BY <1>1, <1>2 DEF other_remove, Shifted, dequeue
<1>4. /\ q' \in queue_t /\ Distinct(q') /\ Contents(q) = Contents(q') \cup {oproc[t]}
      /\ oproc[t] \notin Contents(q')
  BY <1>1, <1>3, Dequeued, Left, Taken
<1>5. \A u \in Other : u # t => opc'[u] = opc[u] /\ opc[u] # "remove"
  BY <1>1 DEF OthersAlone
<1>6. opc'[t] = "put" /\ opc' \in [Other -> {"absent", "get", "remove", "put"}]
  BY <1>1 DEF OthersAlone
<1>7. oproc[t] \in Contents(q0) /\ Contents(q') \subseteq Contents(q0)
  BY <1>4 DEF OthersAlone
<1>8. \A u \in Other : u # t /\ opc'[u] = "put" =>
        oproc[u] \in Contents(q0) \ Contents(q) /\ oproc[u] # oproc[t]
  BY <1>4, <1>5 DEF OthersAlone
<1>9. \A u \in Other : opc'[u] = "put" => oproc[u] \in Contents(q0) \ Contents(q')
  BY <1>4, <1>7, <1>8
<1>10. \A u, v \in Other : opc'[u] = "put" /\ opc'[v] = "put" /\ oproc[u] = oproc[v] => u = v
  BY <1>5, <1>8 DEF OthersAlone
<1>11. \A p \in Contents(q0) :
         p \in Contents(q') \/ \E u \in Other : opc'[u] = "put" /\ oproc[u] = p
  <2> SUFFICES ASSUME NEW p \in Contents(q0), p \notin Contents(q')
               PROVE  \E u \in Other : opc'[u] = "put" /\ oproc[u] = p
    OBVIOUS
  <2>1. CASE p = oproc[t]
    BY <1>6, <2>1
  <2>2. CASE p # oproc[t]
    <3>1. PICK u \in Other : opc[u] = "put" /\ oproc[u] = p
      BY <1>4, <2>2 DEF OthersAlone
    <3> QED
      BY <1>1, <1>5, <3>1
  <2> QED
    BY <2>1, <2>2
<1>12. \A u \in Other : opc'[u] # "remove" /\ lock' # u
  BY <1>1, <1>5, <1>6, KillallAssumption
<1>13. /\ q0' \in queue_t /\ Distinct(q0)' /\ oproc' \in [Other -> Proc \cup {NOBODY}]
       /\ oindex' \in [Other -> Nat]
  BY <1>1 DEF OthersAlone, Distinct
<1> QED
  BY <1>1, <1>4, <1>6, <1>7, <1>9, <1>10, <1>11, <1>12, <1>13 DEF OthersAlone, Distinct

\* It puts the process back: there is room, for it was in the queue at first.
LEMMA PutStep == \A t \in Other : OthersAlone /\ other_put(t) => OthersAlone'
<1> SUFFICES ASSUME NEW t \in Other, OthersAlone, other_put(t) PROVE OthersAlone'
  OBVIOUS
<1>1. /\ q \in queue_t /\ q0 \in queue_t /\ Distinct(q) /\ Distinct(q0)
      /\ UNCHANGED <<q0, lock, oindex>> /\ opc[t] = "put" /\ lock = NOBODY
      /\ opc' = [opc EXCEPT ![t] = "get"] /\ oproc' = [oproc EXCEPT ![t] = NOBODY]
      /\ q' = enqueue(q, oproc[t])
      /\ Contents(q) \subseteq Contents(q0) /\ oproc[t] \in Contents(q0) \ Contents(q)
  BY DEF OthersAlone, other_put
<1>2. PICK p \in Contents(q0) \ Contents(q) : p = oproc[t]
  BY <1>1
<1>3. q' \in queue_t /\ Distinct(q') /\ Contents(q') = Contents(q) \cup {oproc[t]}
  <2>1. Len(q) < MAX_QUEUE_SIZE /\ p \in Proc
    BY <1>1, <1>2, Room, InContents
  <2>2. /\ Append(q, p) \in queue_t /\ enqueue(q, p) = Append(q, p)
        /\ Contents(Append(q, p)) = Contents(q) \cup {p}
    BY <1>1, <2>1, Added
  <2>3. Distinct(Append(q, p))
    BY <1>1, <1>2, <2>1, Added
  <2> QED
    BY <1>1, <1>2, <2>2, <2>3
<1>4. /\ opc' \in [Other -> {"absent", "get", "remove", "put"}]
      /\ oproc' \in [Other -> Proc \cup {NOBODY}] /\ oindex' \in [Other -> Nat]
  BY <1>1 DEF OthersAlone
<1>5. /\ opc'[t] = "get"
      /\ \A u \in Other : u # t => opc'[u] = opc[u] /\ oproc'[u] = oproc[u]
  BY <1>1 DEF OthersAlone
<1>6. \A u \in Other : opc'[u] # "remove" /\ lock' # u
  BY <1>1, <1>5, KillallAssumption DEF OthersAlone
<1>7. \A u \in Other : opc'[u] = "put" => oproc'[u] \in Contents(q0) \ Contents(q')
  BY <1>1, <1>3, <1>5 DEF OthersAlone
<1>8. \A u, v \in Other :
        opc'[u] = "put" /\ opc'[v] = "put" /\ oproc'[u] = oproc'[v] => u = v
  BY <1>5 DEF OthersAlone
<1>9. \A x \in Contents(q0) :
        x \in Contents(q') \/ \E u \in Other : opc'[u] = "put" /\ oproc'[u] = x
  BY <1>3, <1>5 DEF OthersAlone
<1>10. Contents(q') \subseteq Contents(q0) /\ q0' \in queue_t /\ Distinct(q0)'
  BY <1>1, <1>3 DEF Distinct
<1> QED
  BY <1>1, <1>3, <1>4, <1>6, <1>7, <1>8, <1>9, <1>10 DEF OthersAlone, Distinct

\* Without a call only the other threads move.
LEMMA SchedulerStep == Scheduler /\ [Next]_vars => Scheduler'
<1> SUFFICES ASSUME Scheduler, [Next]_vars, kpc' = "absent" PROVE OthersAlone'
  BY DEF Scheduler
<1>1. CASE drain \/ remove \/ filter \/ restore \/ store
  BY <1>1 DEF drain, remove, filter, restore, store
<1>2. ASSUME NEW t \in Other, other_get(t) \/ other_remove(t) \/ other_put(t)
      PROVE  OthersAlone'
  <2>1. OthersAlone
    BY <1>2 DEF other_get, other_remove, other_put, killVars, Scheduler
  <2> QED
    BY <1>2, <2>1, GetStep, TakeStep, PutStep
<1>3. CASE UNCHANGED vars
  <2>1. UNCHANGED <<q, q0, kpc, lock, opc, oproc, oindex>>
    BY <1>3 DEF vars, killVars, otherVars
  <2>2. OthersAlone
    BY <2>1 DEF Scheduler
  <2> QED
    BY <2>1, <2>2 DEF OthersAlone, Distinct
<1> QED
  BY <1>1, <1>2, <1>3 DEF Next, Returned

\* The invariant of the scheduler alone.
LEMMA SchedulerAlways == Spec => []Scheduler
BY SchedulerInit, SchedulerStep, PTL DEF Spec

\* The call or the scheduler is at work, and not both.
Apart == Alone \/ kpc = "absent"

\* Unless the call and the scheduler work at the same time, no process that is to survive
\* is ever anywhere but in the queue, in tempQueue or in the hands of a thread: a full
\* queue never drops one (queue.c:15), because there are no more processes than at first.
THEOREM NobodyEverLost ==
  ASSUME "both" \notin Scenarios
  PROVE  Spec => []NobodyLost
<1>1. Init => Apart
  <2> SUFFICES ASSUME Init PROVE Apart
    OBVIOUS
  <2>1. PICK s \in Scenarios :
          /\ kpc = IF s = "others" THEN "absent" ELSE "drain"
          /\ opc = [t \in Other |-> IF s = "call" THEN "absent" ELSE "get"]
    BY DEF Init
  <2>2. s = "call" \/ s = "others"
    BY KillallAssumption
  <2> QED
    BY <2>1, <2>2 DEF Apart, Alone
<1>2. Apart /\ [Next]_vars => Apart'
  <2> SUFFICES ASSUME Apart, [Next]_vars PROVE Apart'
    OBVIOUS
  <2>1. CASE drain \/ remove \/ filter \/ restore \/ store
    BY <2>1 DEF drain, remove, filter, restore, store, otherVars, Apart, Alone
  <2>2. ASSUME NEW t \in Other, other_get(t) \/ other_remove(t) \/ other_put(t)
        PROVE  Apart'
    BY <2>2 DEF other_get, other_remove, other_put, killVars, Apart, Alone
  <2>3. CASE UNCHANGED vars
    BY <2>3 DEF vars, killVars, otherVars, Apart, Alone
  <2> QED
    BY <2>1, <2>2, <2>3 DEF Next, Returned
<1>3. Apart /\ Call /\ Scheduler => NobodyLost
  <2> SUFFICES ASSUME Apart, Call, Scheduler, NEW p \in Survivors
               PROVE  \/ p \in Contents(q) \cup Contents(tempQueue)
                      \/ kproc = p /\ kpc \in {"remove", "filter", "store"}
                      \/ \E t \in Other : oproc[t] = p
    BY DEF NobodyLost, Survivors
  <2>1. CASE kpc = "absent"
    BY <2>1 DEF Scheduler, OthersAlone, Survivors
  <2>2. CASE kpc # "absent"
    <3>1. CallAlone
      BY <2>2 DEF Apart, Call
    <3> QED
      BY <3>1 DEF CallAlone
  <2> QED
    BY <2>1, <2>2
<1> QED
  BY <1>1, <1>2, <1>3, CallAlways, SchedulerAlways, PTL DEF Spec
=============================================================================
