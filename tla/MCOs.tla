-------------------------------- MODULE MCOs --------------------------------
(* Os.tla on small configurations.  The sets of processes of the input/ files *)
(* are reduced to three or four programs of a few instructions.               *)
EXTENDS Os

CONSTANTS c1, c2, c3

TwoCPUs   == {c1, c2}
ThreeCPUs == {c1, c2, c3}

\* Three programs, the last the most urgent and the last to come.
Procs3     == 1 .. 3
start3     == <<0, 0, 1>>
prio3      == <<0, 0, 1>>
priority3  == <<1, 1, 0>>
size3      == <<3, 2, 1>>

\* Four programs: two levels, on level 0 two peers and one with the better priority
\* of its own; one of them is empty.
Procs4     == 1 .. 4
start4     == <<0, 0, 1, 4>>
prio4      == <<0, 0, 0, 1>>
priority4  == <<0, 0, 1, 0>>
size4      == <<5, 3, 0, 2>>
=============================================================================
