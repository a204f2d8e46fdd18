----------------------------- MODULE FramePool -----------------------------
(***************************************************************************)
(* What the memory manager promises when an area grows, with all details   *)
(* of the device and of the page table entries left out: a request takes   *)
(* its frames from the head of one list and maps them to consecutive pages *)
(* in one step, or fails and leaves no frame.  This is the step            *)
(* Paging.tla takes; Frames.tla shows that the code takes it.              *)
(***************************************************************************)
EXTENDS Integers, Sequences

CONSTANTS Proc, Page, Frame, ABSENT,
          Start,        \* the pages a request may start from
          Size          \* how many frames a request may ask for

VARIABLES free,         \* the free frames in the order they will be taken
          table         \* the frame of every page of every process, or ABSENT

poolVars == <<free, table>>

Init == /\ free \in Seq(Frame)
        /\ \A j, k \in DOMAIN free : free[j] = free[k] => j = k
        /\ table = [p \in Proc |-> [n \in Page |-> ABSENT]]

Map(p, start, n) ==
  /\ n \leq Len(free)
  /\ table' = [table EXCEPT ![p] = [m \in Page |->
                 IF m \in start .. start + n - 1 THEN free[m - start + 1] ELSE @[m]]]
  /\ free' = SubSeq(free, n + 1, Len(free))

\* The frames already taken for a request that cannot be met are lost.
Fail(n) == n > Len(free) /\ free' = << >> /\ UNCHANGED table

Next == \E n \in Size : Fail(n) \/ \E p \in Proc, start \in Start : Map(p, start, n)

Spec == Init /\ [][Next]_poolVars
=============================================================================
