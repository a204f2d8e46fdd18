------------------------------ MODULE Killall ------------------------------
(***************************************************************************)
(* src/src/sys_killall.c: system call 101 empties a queue of the scheduler *)
(* and fills it again with the processes it does not kill.  It does so     *)
(* without queue_lock, while the other CPUs and the loader use the queue   *)
(* under that lock.  A dequeue is two steps: the choice of a process and   *)
(* its removal; so is an enqueue: the check of the size and the store.     *)
(* filter_inverted, restore_backwards and other_get_unlocked are faulty    *)
(* variants.                                                               *)
(***************************************************************************)
EXTENDS Queue, FiniteSets

CONSTANTS Killed,       \* the processes whose path is the name asked for
          Other,        \* threads in get_mlq_proc, put_mlq_proc, add_mlq_proc
          Scenarios,    \* who is at work: "call", "others" or "both"
          InitQueues,   \* contents of the queue at that moment
          NOBODY

ASSUME KillallAssumption == /\ NOBODY \notin Proc \cup Other
                            /\ Killed \subseteq Proc
                            /\ Scenarios \subseteq {"call", "others", "both"}
                            /\ InitQueues \subseteq queue_t
                            /\ \A s \in InitQueues : \A j, k \in DOMAIN s :
                                 s[j] = s[k] => j = k     \* a PCB is in one place

VARIABLES
  q,                    \* the queue, a member of queue_t
  q0,                   \* history: the queue when the call was made
  kpc, tempQueue, kproc, kindex, ksize,         \* of kill_all_in_queue
  lock,                 \* who holds queue_lock
  opc, oproc, oindex    \* of the other threads

killVars  == <<kpc, tempQueue, kproc, kindex, ksize>>
otherVars == <<lock, opc, oproc, oindex>>
vars      == <<q, q0, killVars, otherVars>>

Init ==
  /\ q \in InitQueues
  /\ q0 = q
  /\ tempQueue = << >>
  /\ \E s \in Scenarios :
       /\ kpc = IF s = "others" THEN "absent" ELSE "drain"
       /\ opc = [t \in Other |-> IF s = "call" THEN "absent" ELSE "get"]
  /\ kproc = NOBODY
  /\ kindex = 0
  /\ ksize = 0
  /\ lock = NOBODY
  /\ oproc = [t \in Other |-> NOBODY]
  /\ oindex = [t \in Other |-> 0]

\* The shift that closes the gap at index k, for the size found now.
Shifted(s, k) == IF k \in DOMAIN s THEN Seqs!RemoveAt(s, k) ELSE SubSeq(s, 1, Len(s) - 1)

\* proc[size] = p; size = size + 1, for a size n read before.
StoredAt(s, n, p) == IF n \leq Len(s) THEN SubSeq(s, 1, n) \o <<p>> ELSE Append(s, p)

-----------------------------------------------------------------------------
(* kill_all_in_queue *)

\* while (!empty(q)): dequeue finds the best process.
drain ==
  /\ kpc = "drain"
  /\ IF empty(q)
     THEN kpc' = "restore" /\ UNCHANGED <<kproc, kindex>>
     ELSE /\ kindex' = best_index(q)
          /\ kproc' = selected(q)
          /\ kpc' = "remove"
  /\ UNCHANGED <<q, q0, tempQueue, ksize, otherVars>>

\* dequeue closes the gap.  If somebody has emptied the queue since, size becomes
\* -1 and the rest of the execution is undefined.
remove ==
  /\ kpc = "remove"
  /\ IF empty(q) THEN kpc' = "undefined" /\ UNCHANGED q
                 ELSE kpc' = "filter" /\ q' = Shifted(q, kindex)
  /\ UNCHANGED <<q0, tempQueue, kproc, kindex, ksize, otherVars>>

filter_inverted ==
  /\ kpc = "filter"
  /\ tempQueue' = IF kproc \in Killed THEN enqueue(tempQueue, kproc) ELSE tempQueue
  /\ kpc' = "drain"
  /\ UNCHANGED <<q, q0, kproc, kindex, ksize, otherVars>>

\* A process that is killed is only reported; it is in no queue any more.
filter ==
  /\ kpc = "filter"
  /\ tempQueue' = IF kproc \in Killed THEN tempQueue ELSE enqueue(tempQueue, kproc)
  /\ kpc' = "drain"
  /\ UNCHANGED <<q, q0, kproc, kindex, ksize, otherVars>>

restore_backwards ==
  /\ kpc = "restore"
  /\ IF empty(tempQueue)
     THEN kpc' = "returned" /\ UNCHANGED <<tempQueue, kproc, ksize>>
     ELSE /\ kproc' = tempQueue[Len(tempQueue)]
          /\ tempQueue' = Seqs!RemoveAt(tempQueue, Len(tempQueue))
          /\ ksize' = Len(q)
          /\ kpc' = "store"
  /\ UNCHANGED <<q, q0, kindex, otherVars>>

\* while (!empty(&tempQueue)): enqueue checks the size ...
restore ==
  /\ kpc = "restore"
  /\ IF empty(tempQueue)
     THEN kpc' = "returned" /\ UNCHANGED <<tempQueue, kproc, ksize>>
     ELSE /\ kproc' = selected(tempQueue)
          /\ tempQueue' = dequeue(tempQueue)
          /\ ksize' = Len(q)
          /\ kpc' = "store"
  /\ UNCHANGED <<q, q0, kindex, otherVars>>

\* ... and stores, unless the queue was full.
store ==
  /\ kpc = "store"
  /\ q' = IF ksize \geq MAX_QUEUE_SIZE THEN q ELSE StoredAt(q, ksize, kproc)
  /\ kpc' = "restore"
  /\ UNCHANGED <<q0, tempQueue, kproc, kindex, ksize, otherVars>>

-----------------------------------------------------------------------------
(* The other threads, under queue_lock *)

other_get_unlocked(t) ==
  /\ opc[t] = "get"
  /\ ~ empty(q)
  /\ lock' = t
  /\ oindex' = [oindex EXCEPT ![t] = best_index(q)]
  /\ oproc' = [oproc EXCEPT ![t] = selected(q)]
  /\ opc' = [opc EXCEPT ![t] = "remove"]
  /\ UNCHANGED <<q, q0, killVars>>

\* get_mlq_proc takes the lock and finds the best process ...
other_get(t) ==
  /\ opc[t] = "get"
  /\ lock = NOBODY
  /\ ~ empty(q)
  /\ lock' = t
  /\ oindex' = [oindex EXCEPT ![t] = best_index(q)]
  /\ oproc' = [oproc EXCEPT ![t] = selected(q)]
  /\ opc' = [opc EXCEPT ![t] = "remove"]
  /\ UNCHANGED <<q, q0, killVars>>

\* ... closes the gap and unlocks (size -1 as above, were the queue empty now).
other_remove(t) ==
  /\ opc[t] = "remove"
  /\ ~ empty(q)
  /\ q' = Shifted(q, oindex[t])
  /\ lock' = NOBODY
  /\ opc' = [opc EXCEPT ![t] = "put"]
  /\ UNCHANGED <<q0, killVars, oproc, oindex>>

\* put_mlq_proc at the end of the time slice.
other_put(t) ==
  /\ opc[t] = "put"
  /\ lock = NOBODY
  /\ q' = enqueue(q, oproc[t])
  /\ oproc' = [oproc EXCEPT ![t] = NOBODY]
  /\ opc' = [opc EXCEPT ![t] = "get"]
  /\ UNCHANGED <<q0, killVars, lock, oindex>>

\* The end of the call, whatever the others do.
Returned == kpc \in {"absent", "returned", "undefined"} /\ UNCHANGED vars

Next == \/ drain \/ remove \/ filter \/ restore \/ store
        \/ \E t \in Other : other_get(t) \/ other_remove(t) \/ other_put(t)
        \/ Returned

Spec == Init /\ [][Next]_vars

-----------------------------------------------------------------------------
(* Properties *)

Contents(s) == {s[k] : k \in DOMAIN s}

\* The order in which dequeue would return the entries of s.
GoesBefore(s) == {pair \in Contents(s) \X Contents(s) : \E j, k \in DOMAIN s :
  /\ <<s[j], s[k]>> = pair
  /\ \/ priority[s[j]] > priority[s[k]]
     \/ priority[s[j]] = priority[s[k]] /\ j < k}

\* With nobody else at work, the call leaves exactly the processes it does not
\* kill, although it goes through the array twice ...
ReturnedAlone == kpc = "returned" /\ \A t \in Other : opc[t] = "absent"

SurvivorsKept ==
  ReturnedAlone =>
    Contents(q) = Contents(q0) \ Killed /\ Len(q) = Cardinality(Contents(q))

\* ... and they will be dispatched in the order they would have been.
OrderKept ==
  ReturnedAlone =>
    GoesBefore(q) = {pair \in GoesBefore(q0) : pair[1] \notin Killed /\ pair[2] \notin Killed}

\* "Restore surviving processes back to the original queue" (sys_killall.c:33): at
\* every moment each of them is in the queue, in tempQueue or in some thread's hand.
NobodyLost ==
  \A p \in Contents(q0) \ Killed :
    \/ p \in Contents(q) \cup Contents(tempQueue)
    \/ kproc = p /\ kpc \in {"remove", "filter", "store"}
    \/ \E t \in Other : oproc[t] = p
=============================================================================
