------------------------------ MODULE MCLoader ------------------------------
(* Loader.tla on small configurations and every program of up to MAX_LINES     *)
(* lines of LineKinds.                                                         *)
EXTENDS Loader

CONSTANTS MAX_LINES, MAX_SIZE

Line(op, numbers) == [opcode |-> op, numbers |-> numbers]

\* Enough operands, too few, too many, none, and a word that is no opcode.
LineKinds ==
  {Line("calc", << >>), Line("calc", <<5>>),
   Line("alloc", <<300, 0>>), Line("alloc", <<300>>),
   Line("free", <<0>>), Line("free", <<0, 1>>),
   Line("write", <<7, 1, 20>>), Line("read", <<1>>),
   Line("syscall", << >>), Line("syscall", <<17, 1>>), Line("syscall", <<101, 1, 2, 3, 4>>),
   Line("calculate", << >>)}

Programs ==
  [priority : {3}, size : 0 .. MAX_SIZE, newlines : 0 .. 2,
   lines : UNION {[1 .. n -> LineKinds] : n \in 0 .. MAX_LINES}]

ProcessLine(start, name, prio) == <<Num(start), Word(name), Num(prio)>>

OneProcess == [num |-> 1, memory |-> TRUE, newlines |-> 1, lines |-> <<ProcessLine(0, "p0s", 4)>>]

\* One program, and one configuration that loads it.
ProgramInputs ==
  {[config |-> OneProcess, disk |-> [name \in {"p0s"} |-> program]] : program \in Programs}

s0 == [priority |-> 12, size |-> 2, newlines |-> 0,
       lines |-> <<Line("calc", << >>), Line("syscall", <<101, 1>>)>>]
s1 == [priority |-> 20, size |-> 2, newlines |-> 2, lines |-> <<Line("alloc", <<300, 0>>)>>]
p1s == [priority |-> 1, size |-> 1, newlines |-> 1, lines |-> << >>]

Disk == [name \in {"s0", "s1", "proc10"} |->
           CASE name = "s0" -> s0 [] name = "s1" -> s1 [] name = "proc10" -> p1s]

\* Lines in order, the stray line of input/os_sc, a line without priority, one with
\* too many numbers, and a name that is on no disk.
ConfigLines ==
  {ProcessLine(0, "s0", 4), ProcessLine(7, "s1", 0), ProcessLine(2, "proc10", 130),
   <<Word("syscall"), Num(440), Num(1)>>, <<Num(9), Word("s0")>>,
   <<Num(1), Word("s1"), Num(2), Num(3)>>, ProcessLine(0, "s9", 1)}

Configs ==
  [num : 0 .. 3, memory : BOOLEAN, newlines : 0 .. 2,
   lines : UNION {[1 .. n -> ConfigLines] : n \in 0 .. 3}]

ConfigInputs == {[config |-> config, disk |-> Disk] : config \in Configs}

Vocabulary == Opcodes \cup {"calculate", "p0s", "s0", "s1", "proc10", "s9"}

SmallInputs == ProgramInputs \cup ConfigInputs

\* What LoaderProofs assumes for LoadedAsListed.
ASSUME InputNamesDiffer == NamesDiffer
=============================================================================
