----------------------------- MODULE MCKillall -----------------------------
(* Killall.tla on small instances. *)
EXTENDS Killall

Procs == 1 .. 4

\* Two peers in the middle.
priorities == <<1, 2, 2, 3>>

\* Every queue of different processes.
AllQueues == {s \in UNION {[1 .. n -> Procs] : n \in 0 .. 4} :
               \A j, k \in DOMAIN s : s[j] = s[k] => j = k}

OneQueue == {<<1, 2>>}
=============================================================================
