---------------------------- MODULE AddressSpace ----------------------------
(***************************************************************************)
(* What memory management promises a process, whatever the page tables and *)
(* the physical memory look like: its own addresses, each with the byte it *)
(* last stored there, that nobody else can touch; memory it is given is    *)
(* new to it and zero.                                                     *)
(***************************************************************************)
EXTENDS Naturals

CONSTANTS Proc, Address, Bytes,
          INVALID       \* there is nothing at an address

VARIABLE space          \* what every process has at every address

Init == space = [p \in Proc |-> [a \in Address |-> INVALID]]

\* From contents s to contents t: some more addresses become valid, with zeroes.
Grows(s, t) ==
  \A a \in Address : IF s[a] = INVALID THEN t[a] \in {INVALID, 0} ELSE t[a] = s[a]

\* One byte is stored, at a valid address.
Stores(s, t) ==
  \E a \in Address : /\ s[a] # INVALID /\ t[a] \in Bytes
                     /\ \A b \in Address \ {a} : t[b] = s[b]

\* Whatever a process does, the others see nothing of it.
Next == \E p \in Proc :
  /\ Grows(space[p], space'[p]) \/ Stores(space[p], space'[p])
  /\ \A q \in Proc \ {p} : space'[q] = space[q]

Spec == Init /\ [][Next]_space
=============================================================================
