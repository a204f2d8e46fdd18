------------------------------- MODULE Queue -------------------------------
(***************************************************************************)
(* src/src/queue.c: the fixed-size array of PCBs behind every queue of the *)
(* scheduler, as pure operators on sequences.  enqueue_unbounded,          *)
(* enqueue_wastes_last and last_best_index are faulty variants.            *)
(***************************************************************************)
EXTENDS Naturals, Sequences

Seqs == INSTANCE SequencesExt    \* RemoveAt

CONSTANTS Proc,             \* the PCBs that can be queued
          MAX_QUEUE_SIZE,   \* 10 in the code
          priority          \* pcb_t.priority, read from the process's file

ASSUME QueueAssumption == /\ MAX_QUEUE_SIZE \in Nat
                          /\ priority \in [Proc -> Nat]

queue_t == {q \in Seq(Proc) : Len(q) \leq MAX_QUEUE_SIZE}

empty(q) == q = << >>

\* A full queue ignores the request, and the caller is not told.
enqueue_unbounded(q, p) == Append(q, p)
enqueue_wastes_last(q, p) == IF Len(q) + 1 \geq MAX_QUEUE_SIZE THEN q ELSE Append(q, p)
enqueue(q, p) == IF Len(q) \geq MAX_QUEUE_SIZE THEN q ELSE Append(q, p)

last_best_index(q) ==
  CHOOSE i \in DOMAIN q : \A j \in DOMAIN q :
    /\ priority[q[j]] \leq priority[q[i]]
    /\ j > i => priority[q[j]] < priority[q[i]]

\* The loop replaces its candidate only by a strictly greater one: it ends at
\* the first of the greatest.
best_index(q) ==
  CHOOSE i \in DOMAIN q : \A j \in DOMAIN q :
    /\ priority[q[j]] \leq priority[q[i]]
    /\ j < i => priority[q[j]] < priority[q[i]]

\* dequeue returns `selected` and leaves the queue without it.
selected(q) == q[best_index(q)]
dequeue(q)  == Seqs!RemoveAt(q, best_index(q))
=============================================================================
