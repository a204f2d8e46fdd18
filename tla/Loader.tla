------------------------------- MODULE Loader -------------------------------
(***************************************************************************)
(* How configuration and programs are read: read_config of src/src/os.c    *)
(* and load of src/src/loader.c, called by the loader thread for one       *)
(* process after the other.                                                *)
(*                                                                         *)
(* A file is a sequence of tokens.  What matters is where each fscanf and  *)
(* fgets leaves the file and what it leaves in the locals when it fails:   *)
(* nobody looks at its return value.  A step is one turn of a loop.        *)
(* Operators named like another one with a suffix are faulty variants.     *)
(***************************************************************************)
EXTENDS Integers, Sequences, FiniteSets

Seqs == INSTANCE SequencesExt   \* FlattenSeq

CONSTANTS
  Inputs,               \* configurations with the programs on the disk
  Words                 \* what stands in them that is no number

VARIABLES
  input,                \* the configuration and the disk; nothing writes them
  stage,                \* "config", "open", "text", "done" or "exit"
  file, pos,            \* the open file and the next token to read
  num_processes,
  ld_processes,         \* start time, name and priority of every process
  proc,                 \* read_config's local: the last name read
  opcode, buf,          \* load's locals: the last word and the last line read
  code_size,            \* of the process being loaded
  text,                 \* its instructions so far
  loaded                \* the processes loaded so far

configVars == <<num_processes, ld_processes, proc>>
loadVars   == <<opcode, buf, code_size, text>>
vars == <<input, stage, file, pos, configVars, loadVars, loaded>>

\* What memory holds that nobody has set: any number, any line, a name of no program.
GARBAGE == -1
garbage == "garbage"

-----------------------------------------------------------------------------
(* Files.  A line of a program is an opcode and the numbers behind it.        *)

Word(w) == [text |-> w, number |-> 0]
Num(n)  == [text |-> "", number |-> n]
Nl      == [text |-> "\n", number |-> 0]

\* What a line is made of, and a program on the disk.
Token   == [text : Words \cup {""}, number : Int]
Program == [priority : Nat, size : Nat, newlines : Nat,
            lines : Seq([opcode : Words, numbers : Seq(Int)])]

ASSUME LoaderAssumption ==
  /\ "" \notin Words /\ "\n" \notin Words
  /\ \A i \in Inputs :
       /\ i.config.num \in Nat /\ i.config.newlines \in Nat
       /\ i.config.lines \in Seq(Seq(Token))
       /\ \A name \in DOMAIN i.disk : i.disk[name] \in Program

Numbers(ns) == [k \in DOMAIN ns |-> Num(ns[k])]

\* Lines of tokens, each followed by so many newlines, the last by one at most.
Written(lines, newlines) ==
  LET gap(k) == IF newlines = 0 /\ k < Len(lines) THEN 1 ELSE newlines
  IN  Seqs!FlattenSeq([k \in DOMAIN lines |-> lines[k] \o [j \in 1 .. gap(k) |-> Nl]])

Source(line) == <<Word(line.opcode)>> \o Numbers(line.numbers)

ProgramFile(program) ==
  Written(<<Numbers(<<program.priority, program.size>>)>> \o
          [k \in DOMAIN program.lines |-> Source(program.lines[k])], program.newlines)

ConfigFile(config) ==
  Written(<<Numbers(<<2, 1, config.num>>)>> \o
          (IF config.memory THEN <<Numbers(<<2048, 4096, 0, 0, 0>>)>> ELSE << >>) \o
          config.lines, config.newlines)

-----------------------------------------------------------------------------
(* fscanf and fgets *)

Eof(p) == p > Len(file)
IsNumber(p) == ~ Eof(p) /\ file[p].text = ""

\* The first position from p on that is no white space.
skip_space(p) ==
  CHOOSE k \in p .. Len(file) + 1 :
    (Eof(k) \/ file[k] # Nl) /\ \A j \in p .. k - 1 : file[j] = Nl

\* fscanf with n conversions to numbers: those it stores and where it stops.  Each skips
\* white space, even one that then fails and leaves the file to the next.
fscanf_numbers(p, n) ==
  LET at[k \in 1 .. n + 1] ==
        skip_space(IF k = 1 THEN p
                   ELSE IF IsNumber(at[k - 1]) THEN at[k - 1] + 1 ELSE at[k - 1])
  IN  [stored |-> [k \in {k \in 1 .. n : IsNumber(at[k])} |-> file[at[k]].number],
       pos    |-> at[n + 1]]

\* fgets: the rest of the line with its newline.
end_of_line(p) ==
  CHOOSE k \in p .. Len(file) + 1 :
    (Eof(k) \/ file[k - 1] = Nl) /\ (k > p \/ Eof(p)) /\ \A j \in p + 1 .. k - 1 : file[j - 1] # Nl

\* sscanf(buf, "%d%d%d%d"): the numbers the line begins with, four at most.
sscanf_numbers(line) ==
  LET read == {k \in 1 .. 4 : \A j \in 1 .. k : j \in DOMAIN line /\ line[j].text = ""}
  IN  [k \in read |-> line[k].number]

-----------------------------------------------------------------------------
(* read_config *)

Init ==
  /\ input \in Inputs
  /\ stage = "config"
  /\ file = ConfigFile(input.config)
  /\ pos = 1
  /\ num_processes = GARBAGE
  /\ ld_processes = << >>
  /\ proc = garbage
  /\ opcode = garbage /\ buf = << >> /\ code_size = 0 /\ text = << >>
  /\ loaded = << >>

sizes_read_swaps_only == 4
\* MEMRAM and PAGING_MAX_MMSWP swap devices.
sizes_read == 5

\* The first line, then the memory line.
read_header ==
  /\ stage = "config" /\ num_processes = GARBAGE
  /\ LET header == fscanf_numbers(pos, 3)
         sizes  == fscanf_numbers(header.pos, sizes_read)
     IN  /\ num_processes' = header.stored[3]
         /\ pos' = sizes.pos
  /\ UNCHANGED <<input, stage, file, ld_processes, proc, loadVars, loaded>>

name_read_or_none(named, k) == IF named THEN file[k].text ELSE garbage
\* `proc` keeps the name of the turn before: it is the same stack slot.
name_read(named, k) == IF named THEN file[k].text ELSE proc

\* fscanf "%lu %s %lu\n": three conversions, of which any may be the first to fail.
read_process ==
  /\ stage = "config" /\ num_processes # GARBAGE /\ Len(ld_processes) < num_processes
  /\ LET start == skip_space(pos)
         name  == skip_space(start + 1)
         prio  == skip_space(name + 1)
         named == IsNumber(start) /\ ~ Eof(name)
         whole == named /\ IsNumber(prio)
     IN  /\ proc' = name_read(named, name)
         /\ ld_processes' = Append(ld_processes,
              [start |-> IF IsNumber(start) THEN file[start].number ELSE GARBAGE,
               path  |-> proc',
               prio  |-> IF whole THEN file[prio].number ELSE GARBAGE])
         /\ pos' = IF whole THEN skip_space(prio + 1)
                   ELSE IF named THEN prio ELSE IF IsNumber(start) THEN name ELSE start
  /\ UNCHANGED <<input, stage, file, num_processes, loadVars, loaded>>

config_read ==
  /\ stage = "config" /\ Len(ld_processes) = num_processes
  /\ stage' = "open"
  /\ UNCHANGED <<input, file, pos, configVars, loadVars, loaded>>

-----------------------------------------------------------------------------
(* load *)

arity(op) == CASE op = "calc" -> 0 [] op = "free" -> 1 [] op = "alloc" -> 2
               [] op \in {"read", "write"} -> 3 [] op = "syscall" -> 4

Opcodes == {"calc", "alloc", "free", "read", "write", "syscall"}

Instruction(op, stored) ==
  [opcode |-> op,
   args   |-> [k \in 1 .. 4 |-> IF k \in DOMAIN stored THEN stored[k] ELSE GARBAGE]]

\* ld_routine's next process; fopen fails on a name the disk does not have.  The two
\* arrays on the stack may still hold what the call before left in them.
open ==
  /\ stage = "open"
  /\ IF Len(loaded) = num_processes
     THEN stage' = "done" /\ UNCHANGED <<file, pos, loadVars>>
     ELSE LET path == ld_processes[Len(loaded) + 1].path
          IN  IF path \notin DOMAIN input.disk
              THEN stage' = "exit" /\ UNCHANGED <<file, pos, loadVars>>
              ELSE /\ stage' = "text"
                   /\ file' = ProgramFile(input.disk[path])
                   /\ pos' = 3          \* behind priority and size
                   /\ code_size' = input.disk[path].size
                   /\ opcode' \in {opcode, garbage} /\ buf' \in {buf, << >>}
                   /\ text' = << >>
  /\ UNCHANGED <<input, configVars, loaded>>

\* fscanf "%s": at the end of the file `opcode` keeps the word of the turn before.
next_word == LET k == skip_space(pos)
             IN  IF Eof(k) THEN [word |-> opcode, pos |-> k]
                           ELSE [word |-> file[k].text, pos |-> k + 1]

load_syscall_fscanf(p) ==
  LET ns == fscanf_numbers(p, 1)
  IN  /\ text' = Append(text, Instruction("syscall", ns.stored))
      /\ pos' = ns.pos
      /\ UNCHANGED buf

load_syscall_clears_buf(p) ==
  LET end == end_of_line(p)
  IN  /\ buf' = SubSeq(file, p, end - 1)
      /\ text' = Append(text, Instruction("syscall", sscanf_numbers(buf')))
      /\ pos' = end

\* The rest of the line, however many numbers it has; at the end of the file `buf`
\* keeps the line of the system call before.
load_syscall(p) ==
  LET end == end_of_line(p)
  IN  /\ buf' = IF Eof(p) THEN buf ELSE SubSeq(file, p, end - 1)
      /\ text' = Append(text, Instruction("syscall", sscanf_numbers(buf')))
      /\ pos' = end

\* calc reads nothing behind its name.
load_numbers(op, p) ==
  /\ UNCHANGED buf
  /\ \/ /\ op = "calc"
        /\ text' = Append(text, Instruction(op, << >>))
        /\ pos' = p
     \/ /\ op # "calc"
        /\ text' = Append(text, Instruction(op, fscanf_numbers(p, arity(op)).stored))
        /\ pos' = fscanf_numbers(p, arity(op)).pos

more_text_inclusive == Len(text) <= code_size
more_text == Len(text) < code_size

\* get_opcode exits when the word is no opcode.
load_instruction ==
  /\ stage = "text" /\ more_text
  /\ opcode' = next_word.word
  /\ \/ /\ opcode' \notin Opcodes
        /\ stage' = "exit"
        /\ pos' = next_word.pos
        /\ UNCHANGED <<buf, text>>
     \/ /\ opcode' = "syscall"
        /\ load_syscall(next_word.pos)
        /\ UNCHANGED stage
     \/ /\ opcode' \in Opcodes \ {"syscall"}
        /\ load_numbers(opcode', next_word.pos)
        /\ UNCHANGED stage
  /\ UNCHANGED <<input, file, configVars, code_size, loaded>>

stored_path_one_pointer(name) == ""
\* snprintf keeps 2 * sizeof(path) characters, the directory's eleven among them.
stored_path(name) == IF Len(name) > 5 THEN SubSeq(name, 1, 5) ELSE name

\* The PCB: avail_pid counts the calls of load; ld_routine sets prio.
return_proc ==
  /\ stage = "text" /\ Len(text) = code_size
  /\ stage' = "open"
  /\ LET i == Len(loaded) + 1
     IN  loaded' = Append(loaded, [pid  |-> i, path |-> stored_path(ld_processes[i].path),
                                   prio |-> ld_processes[i].prio,
                                   priority |-> file[1].number, text |-> text])
  /\ UNCHANGED <<input, file, pos, configVars, loadVars>>

Ended == stage \in {"done", "exit"} /\ UNCHANGED vars

Next == \/ read_header \/ read_process \/ config_read
        \/ open \/ load_instruction \/ return_proc \/ Ended

Spec == Init /\ [][Next]_vars
-----------------------------------------------------------------------------
(* Which input is in order *)

\* "start name prio", as os-cfg's MLQ_SCHED wants a line.
IsProcessLine(line) ==
  Len(line) = 3 /\ line[1].text = "" /\ line[2].text # "" /\ line[3].text = ""

Listed == {i \in DOMAIN input.config.lines : i <= input.config.num}

\* The configuration has its memory line, and nothing but process lines.
ConfigInOrder ==
  /\ input.config.memory
  /\ \A i \in DOMAIN input.config.lines : IsProcessLine(input.config.lines[i])

\* As many numbers as the instruction takes, or fewer: what follows is a word, at
\* which "%u" stops.  A system call takes the rest of its line, as long as something
\* is left of the file: it needs a number or a newline behind the word.
LineInOrder(program, k) ==
  LET line == program.lines[k]
  IN  /\ line.opcode \in Opcodes
      /\ line.opcode # "syscall" => Len(line.numbers) <= arity(line.opcode)
      /\ line.opcode = "syscall" =>
           line.numbers # << >> \/ program.newlines > 0 \/ k < Len(program.lines)

ProgramInOrder(program) == \A k \in DOMAIN program.lines : LineInOrder(program, k)

\* No two of the names that a configuration lists begin with the same five characters.
NamesDiffer ==
  LET front(name) == IF Len(name) > 5 THEN SubSeq(name, 1, 5) ELSE name
  IN  \A i \in Inputs : \A j, k \in DOMAIN i.config.lines :
        LET a == i.config.lines[j]
            b == i.config.lines[k]
        IN  /\ IsProcessLine(a) /\ IsProcessLine(b) /\ j <= i.config.num /\ k <= i.config.num
            /\ front(a[2].text) = front(b[2].text)
            => a[2].text = b[2].text

Complete(program) == Len(program.lines) >= program.size

Meant(line) == Instruction(line.opcode, line.numbers)

Current == input.disk[ld_processes[Len(loaded) + 1].path]

-----------------------------------------------------------------------------
(* Properties *)

TypeOK ==
  /\ stage \in {"config", "open", "text", "done", "exit"}
  /\ pos \in 1 .. Len(file) + 1
  /\ num_processes \in Nat \cup {GARBAGE}
  /\ num_processes # GARBAGE => Len(ld_processes) <= num_processes
  /\ \A i \in DOMAIN ld_processes : ld_processes[i].start \in Int /\ ld_processes[i].prio \in Int
  /\ stage = "text" => Len(text) <= code_size
  /\ \A k \in DOMAIN text : text[k].opcode \in Opcodes
  /\ Len(loaded) <= Len(ld_processes)

\* Every process that a configuration in order lists gets the start time, the name and
\* the priority of its own line, whatever blank lines the file has and however it ends
\* (read_config looks at no result of fscanf, os.c:187).
TableFollowsConfig ==
  ConfigInOrder =>
    \A i \in DOMAIN ld_processes \cap Listed :
      LET line == input.config.lines[i]
      IN  ld_processes[i] = [start |-> line[1].number, path |-> line[2].text,
                             prio  |-> line[3].number]

\* A configuration that lists fewer processes than it announces runs its last program
\* again: the name stays in `proc`, and start time and priority are whatever malloc
\* returned (os.c:187-193; input/os_sc and input/os_syscall announce two and list one).
MissingLineRepeatsName ==
  ConfigInOrder /\ Listed # {} =>
    \A i \in DOMAIN ld_processes \ Listed :
      ld_processes[i] = [start |-> GARBAGE, path |-> ld_processes[Cardinality(Listed)].path,
                         prio  |-> GARBAGE]

\* Whatever lines stand around it, a line in order becomes its instruction: neither the
\* newlines before it, nor numbers missing at the end of another line, nor how the
\* file ends shift the text by a token (loader.c:60-100).
TextFollowsProgram ==
  stage = "text" /\ ProgramInOrder(Current) =>
    \A k \in DOMAIN text \cap DOMAIN Current.lines : text[k] = Meant(Current.lines[k])

\* A program shorter than its header says goes on with its last instruction, because
\* `opcode` keeps the word (loader.c:61-62).  Its operands are unset memory; only a
\* system call is made again with the same arguments, which `buf` keeps (loader.c:87).
ShortProgramRepeats ==
  stage = "text" /\ ProgramInOrder(Current) /\ Current.lines # << >> =>
    \A k \in DOMAIN text \ DOMAIN Current.lines :
      LET last == Current.lines[Len(Current.lines)]
      IN  text[k] = IF last.opcode = "syscall" THEN Meant(last)
                                               ELSE Instruction(last.opcode, << >>)

\* The program stops in the loader only for a name that is on no disk or a program with
\* a line out of order, or with no line at all though its header announces some
\* (exit in load and get_opcode, loader.c:31 and 49).
ExitHasCause ==
  stage = "exit" =>
    \/ ~ ConfigInOrder
    \/ Listed = {}
    \/ \E i \in Listed :
         LET name == input.config.lines[i][2].text
         IN  \/ name \notin DOMAIN input.disk
             \/ ~ ProgramInOrder(input.disk[name])
             \/ input.disk[name].lines = << >> /\ input.disk[name].size > 0

\* Processes are loaded in the order of the configuration, each with its own program
\* whole, its own priorities, and a name that another program's process does not have:
\* killall tells processes by the name that load has cut (loader.c:51).
LoadedAsListed ==
  ConfigInOrder =>
    \A i \in DOMAIN loaded \cap Listed :
      LET line == input.config.lines[i]
          program == input.disk[line[2].text]
      IN  /\ loaded[i].prio = line[3].number
          /\ loaded[i].priority = program.priority
          /\ ProgramInOrder(program) /\ Complete(program) =>
               loaded[i].text = [k \in 1 .. program.size |-> Meant(program.lines[k])]
          /\ \A j \in DOMAIN loaded \cap Listed :
               loaded[i].path = loaded[j].path <=> line[2].text = input.config.lines[j][2].text
=============================================================================
