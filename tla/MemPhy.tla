------------------------------- MODULE MemPhy -------------------------------
(***************************************************************************)
(* The free-frame list of a memory device (src/src/mm-memphy.c) under CPUs *)
(* that execute instructions at the same time.  MEMPHY_get_freefp takes no *)
(* lock (mmvm_lock of libmem.c is never locked), so a step is one access   *)
(* to shared memory.  Node k of the list holds frame k.                    *)
(* linked_to_second and unlink_forgotten are faulty variants.              *)
(***************************************************************************)
EXTENDS Naturals

CONSTANTS CPU,          \* the threads that call MEMPHY_get_freefp
          numfp         \* frames of the device

\* With a single frame MEMPHY_format leaves the first node's fp_next unset.
ASSUME MemPhyAssumption == numfp \in Nat \ {0, 1}

Frame == 0 .. numfp - 1
NULL  == numfp
Node  == Frame \cup {NULL}

VARIABLES
  free_fp_list,         \* head of the list
  fp_next,              \* the next node of every node
  live,                 \* nodes not yet given to free()
  at,                   \* where each thread is in MEMPHY_get_freefp
  fp,                   \* its local
  retfpn,               \* what it has put in *retfpn
  given,                \* history: how often each frame has been returned
  aborted               \* free() has been given a node twice

vars == <<free_fp_list, fp_next, live, at, fp, retfpn, given, aborted>>

TypeOK == /\ free_fp_list \in Node
          /\ fp_next \in [Frame -> Node]
          /\ live \subseteq Frame
          /\ at \in [CPU -> {"call", "number", "unlink", "free"}]
          /\ fp \in [CPU -> Node]
          /\ retfpn \in [CPU -> Node]
          /\ given \in [Frame -> Nat]
          /\ aborted \in BOOLEAN

linked_to_second(k) == k + 2
\* MEMPHY_format links the frames in order, the last one to NULL.
linked(k) == k + 1

\* init_memphy, MEMPHY_format.
Init == /\ free_fp_list = 0
        /\ fp_next = [k \in Frame |-> linked(k)]
        /\ live = Frame
        /\ at = [c \in CPU |-> "call"]
        /\ fp = [c \in CPU |-> NULL]
        /\ retfpn = [c \in CPU |-> NULL]
        /\ given = [k \in Frame |-> 0]
        /\ aborted = FALSE

Goto(c, place) == at' = [at EXCEPT ![c] = place]

\* fp = mp->free_fp_list; -1 if there is none.
read_head(c) ==
  /\ at[c] = "call"
  /\ fp' = [fp EXCEPT ![c] = free_fp_list]
  /\ IF free_fp_list = NULL THEN UNCHANGED at ELSE Goto(c, "number")
  /\ UNCHANGED <<free_fp_list, fp_next, live, retfpn, given, aborted>>

\* A node that has been freed can hold anything by now.
Number(k) == IF k \in live THEN {k} ELSE Frame
Next_of(k) == IF k \in live THEN {fp_next[k]} ELSE Node

\* *retfpn = fp->fpn
read_fpn(c) ==
  /\ at[c] = "number"
  /\ \E n \in Number(fp[c]) : retfpn' = [retfpn EXCEPT ![c] = n]
  /\ Goto(c, "unlink")
  /\ UNCHANGED <<free_fp_list, fp_next, live, fp, given, aborted>>

unlink_forgotten(c) ==
  /\ at[c] = "unlink"
  /\ Goto(c, "free")
  /\ UNCHANGED <<free_fp_list, fp_next, live, fp, retfpn, given, aborted>>

\* mp->free_fp_list = fp->fp_next
unlink(c) ==
  /\ at[c] = "unlink"
  /\ free_fp_list' \in Next_of(fp[c])
  /\ Goto(c, "free")
  /\ UNCHANGED <<fp_next, live, fp, retfpn, given, aborted>>

\* free(fp) and the return to the caller, who owns the frame now.
free_node(c) ==
  /\ at[c] = "free"
  /\ aborted' = (aborted \/ fp[c] \notin live)
  /\ live' = live \ {fp[c]}
  /\ given' = [given EXCEPT ![retfpn[c]] = @ + 1]
  /\ Goto(c, "call")
  /\ UNCHANGED <<free_fp_list, fp_next, fp, retfpn>>

Next == /\ ~ aborted
        /\ \E c \in CPU : read_head(c) \/ read_fpn(c) \/ unlink(c) \/ free_node(c)

Spec == Init /\ [][Next]_vars

-----------------------------------------------------------------------------
(* Properties *)

\* "Get a free frame number" (src/src/libmem.c:210): no frame is given to two
\* callers, and free() is never given a node twice.
FrameGivenOnce == ~ aborted /\ \A k \in Frame : given[k] \leq 1
=============================================================================
