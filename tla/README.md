# A verification project for mini_os

`mini_os` simulates a small operating system inside one Linux process: a thread
per simulated CPU and a loader thread run in time slots given by a timer thread,
take programs from multi-level queues, and execute their instructions on a paged
memory.  The modules here model that program in TLA+, TLC checks them on small
instances, and TLAPS proves what the clock, the scheduler and the memory manager
promise for every number of devices, CPUs, processes and frames, and the loader
for every file.

The build modelled is the configured one (`include/os-cfg.h`): `MLQ_SCHED` and
`MM_PAGING` are defined.  `mem.c`, the memory of the other build, has a model of
its own (Mem).

Run a model with `tlc -config Timer.cfg Timer` (see the table of runs for the
configuration and its module) and the proofs of a module with, for example,
`tlapm OsProofs.tla`.

## Inventory

| Component | State | Operations | Used by | Model |
|---|---|---|---|---|
| `timer.c` | `dev_list`, `_time`, `timer_started`, `timer_stop`; per device `done`, `fsh`, two mutexes and two condition variables | `attach_event`, `start_timer`, `timer_routine` (a thread), `next_slot`, `detach_event`, `current_time`, `stop_timer` | every thread of `os.c` | Timer, SlotClock, TimerProofs |
| `os.c` | per CPU `proc`, `time_left`; loader's `i`; the shared flag `done` | `cpu_routine`, `ld_routine` (threads), `main` | - | Os, Dispatcher; `main` in Timer |
| `sched.c` | `mlq_ready_queue[140]`, `running_list`, under `queue_lock` | `get_proc`, `put_proc`, `add_proc` | CPUs, loader | Os |
| `queue.c` | an array of ten PCBs | `empty`, `enqueue`, `dequeue` (best `priority` first) | `sched.c`, `sys_killall.c` | Queue; access by access in Killall; proofs in OsProofs, KillallProofs |
| `cpu.c` | `pc`, `regs` | `run`: one instruction | CPUs | the `pc` step of Os, the choice in Paging's and Mem's `Next` |
| `libmem.c` | symbol table, free regions, victim list (no lock is ever taken) | `liballoc`, `libfree`, `libread`, `libwrite`, `pg_getpage` | `run`, `killall` | Paging, PagingProofs |
| `mm-vm.c` | `vm_end`, `sbrk`, `bp` | `inc_vma_limit`, `get_vm_area_node_at_brk`, `__mm_swap_page` | `libmem.c`, `memmap` | Paging |
| `mm.c`, `mm.h`, `bitops.h` | page tables of 32-bit entries | `init_mm`, `alloc_pages_range`, `vmap_page_range`, `__swap_cp_page`, `pte_set_fpn`, `pte_set_swap`, `init_pte` | `mm-vm.c` | Paging; access by access in Frames; the entry in Pte; FramesProofs |
| `mm-memphy.c` | storage, list of free frames; shared by all CPUs, no lock | `MEMPHY_format`, `_get_freefp`, `_read`, `_write` | `mm.c`, `libmem.c` | MemPhy, Frames, Paging |
| `syscall.c`, `libstd.c`, `sys_listsyscall.c`, `sys_xxxhandler.c` | - | dispatch of system calls | `run` | Paging (`syscall`, `Request`) |
| `sys_mem.c` | - | system call 17, `memmap`: all its operations | `run` | Paging |
| `sys_killall.c` | a local queue | system call 101 | `run` | reading the name in Paging, the queues in Killall, KillallProofs |
| `loader.c`, `read_config` of `os.c` | `ld_processes`, `avail_pid`; two buffers on the stack | reads the configuration and the programs | main, loader | Loader, LoaderProofs |
| `mem.c` | two-level page tables, `_mem_stat`, `_ram` | `alloc_mem`, `read_mem`, `write_mem` (the build without `MM_PAGING`) | `run` | Mem, AddressSpace, MemProofs |
| `paging.c` | - | a second `main` that no longer fits `load` and `run` | - | not modelled |

What is hard in it, and what should hold:

* the **clock**: `next_slot` gives up one lock before it takes the other, and the
  flag between the two threads is set under one and cleared under the other.  No
  wakeup and no arrival may be lost, the devices must stay in step with the time,
  and the timer must neither end early nor stay for ever while devices detach;
* the **scheduler**: processes pass between the queues, the CPUs and `free()`,
  through a `put_proc` that takes its lock twice, and CPUs decide to stop on a
  flag read without a lock.  A process must have one owner, reach its end, and be
  dispatched in order; no CPU may idle or stop while there is work for it;
* **memory**: break pointers, page tables, frames and the victim list must agree;
  allocation fails half-way; a frame number passes through bit fields and words of
  stale memory; CPUs take frames at the same time;
* **system calls**: `killall` reads its name through page faults, and works on
  the scheduler's queues without the scheduler's lock;
* **the loader** looks at no result of `fscanf`: every missing word or number
  leaves something old in a local, and may shift what follows.

`PROJECT.json` lists these hazards by line, with the properties that watch them.

## Modules

An arrow from A to B: B extends A (`--->`), or A refines B (`- ->`).

    Timer ---> TimerProofs            Queue ---> Killall ---> MCKillall
      '- -> SlotClock                   |           '------> KillallProofs
                                        |
    Os uses SlotClock as its clock      '---> Os ---> OsProofs
                                              |'---> MCOs
                                              '- -> Dispatcher

    Paging ---> PagingProofs          MemPhy, Pte ---> Frames ---> FramesProofs
       '---> MCPaging                                    '- -> FramePool

    Mem ---> MemProofs                Loader ---> MCLoader
     '- -> AddressSpace                 '-----> LoaderProofs

    NumberFacts ---> OsProofs, KillallProofs, PagingProofs, FramesProofs, MemProofs,
                     LoaderProofs

Operators named like another one with a suffix, as `timer_check_any_left` beside
`timer_check`, are plausible mistakes.  They are no part of any specification;
`PROJECT.json` says which property tells each from the original.

### Timer, SlotClock, TimerProofs

`Timer` is `timer.c` at the grain of its synchronisation: a step is one critical
section, up to the unlock or to the `pthread_cond_wait` that releases the mutex,
or one unlocked access to a shared variable.  A critical section of a device and
one of the timer conflict only through `done`, `fsh` and the sleeping threads, so
a finer step would add no behaviour that matters to them.  `next_slot` is
two steps (`next_slot`, `next_slot_wait`), `timer_routine` is the loop of
`timer_loop`, `timer_scan`/`timer_sleep`, `timer_tick`, `timer_release`,
`timer_check`.  A waiting thread is `"asleep"` until it is signalled; a signal
that finds nobody asleep is lost, and the two `spurious` actions let a wait
return for no reason, as POSIX does.  Devices are the numbers in the order they
are attached, so the list runs from `N` (the loader) down to 1.  A device
alternates freely between working, `next_slot` and `detach_event`.  `slots` is a
history variable: how often each device has called `next_slot`.

`SlotClock` is what a caller sees of it: devices work, arrive, or leave, and a
tick that waits for all of them releases the arrived ones.  `Timer` implements it
under the mapping `ClockState`: a device whose `done` is set has arrived, but
between the tick and its own release it already counts as working again.

### Os, Queue, Dispatcher

`Os` runs `cpu_routine` and `ld_routine` over an instance of `SlotClock`.  A step
is one critical section of `queue_lock` with the thread-local work around it;
`put_proc` and `add_proc`, which take the lock twice, are two steps.  `next_slot`
and `detach_event` are merged into the last step of a slot: the tick waits for
all of them.  The read of `done` is a step of its own (`Stop`, `SkipSlot`).
`run(proc)` moves `pc`; what an instruction does to memory is left to `Paging`.
Since the program files are input, their length, start time and priorities are
constants, with `OsAssumption` naming what the code needs of them: `prio` indexes
an array, and with `time_slot = 0` the slice would never be used up.

`Queue` gives `queue.c` as operators on sequences.  `best_index` is the choice of
`dequeue`: the first of the greatest `priority`.

`Dispatcher` is the promise to a program, with no queue, CPU or lock: it is
admitted once, runs in bursts of at most `time_slot` instructions, is preempted
only at the end of its burst, finishes when its code does, and waits only for
programs of a higher rank or for peers that came before it.  `Os` implements it
under the mapping at its end (`Where`, `Budget`, `Ahead`).

### Paging

One step is one instruction, executed as a whole.  That is exact with one CPU;
`MemPhy` shows what the missing locks allow with two.  Data is abstracted to one
tracked byte per page, and a page table entry to a frame number or `ABSENT`,
since nothing ever calls `pte_set_swap`; `Frames` shows that the frame number
survives the real entry.  What is kept is where the numbers go:
`pg_getpage` uses a page number as a frame number, leaves the victim's entry
alone and copies from memory to swap twice, and so does the model.  Storage
beyond the device is other heap memory, whose contents are any byte.

`Next` is the choice `run` makes from the opcode.  A system call goes through
`syscall`: `Request` is what `libsyscall` may have put in the registers, one
representative for each case the code tells apart, unknown numbers and
operations included.  `memmap` has all its operations.  `killall`
reads its name byte by byte: `libread` stores nothing through its last
parameter, so the -1 that would end the name is never seen and the loop makes
all of its `NAME` reads (99 in the code), each of which may replace a page.

`shadow` and `happened` are history variables: what each process last stored, and
whether a page has been replaced (`"fault"`), a process has stored at a physical
address (`"raw"`), or a request has run out of frames (`"short"`).  Requests of
2^31 bytes or more, which the code's `int` would make negative, are left out.

### Pte, Frames, FramePool, MemPhy

`Pte` is the page table entry with its real 32 bits: `bitops.h`, the fields of
`mm.h`, and each function that writes an entry.  A word is the set of its 1 bits,
which makes `&`, `|` and `~` set operations, for every word.  Only `FPN_HIBIT` is
a constant, 12 in the code.

`MemPhy` is `MEMPHY_get_freefp` with its list nodes, one access to shared memory
a step; a node given to `free()` holds anything afterwards.  `Frames` puts both
together: `vm_map_ram`, `alloc_pages_range` over `MemPhy`, and `vmap_page_range`
over `Pte`, with tables that start with stale words.  `FramePool` is the one
step `Paging` takes for all of it - take n frames from the head of the list
and map them, or fail and lose what is left - and `Frames` with one CPU
implements it.  That is why `Paging` may take it in one step.

### Mem, AddressSpace

`Mem` is `mem.c` under the instructions of `cpu.c`, for the build without
`MM_PAGING`.  A step is one instruction: `alloc_mem` holds `mem_lock` from end to
end, and what `read_mem` and `write_mem` touch without it belongs to one
process.  The two levels of tables, the first-fit choice of pages and the chain
through `_mem_stat` are as in the code, the break pointer wraps at `WORD`.
The loop over the pages of a request is `first_free`, the pages it finds, and
`add_mappings`, one `add_page_mapping` after the other; both are functions, so that
they can be proved about.
`AddressSpace` is what a process may rely on: its own addresses, what it stored
there, zeroes in new memory.

### Loader

`read_config` and `load` over files that are sequences of tokens.  `fscanf` and
`fgets` are modelled by where they leave the file and what they leave in the
locals when they fail, because nobody looks at their results: `opcode`, `buf` and
`proc` keep what the turn before left there.  `GARBAGE` stands for memory that
nobody has set.  The conversions of one `fscanf` run one behind the other
(`fscanf_numbers`): each skips white space, and one that fails leaves the file to the
next.  What files hold is a constant: `LoaderAssumption` says that
a file is made of numbers, of words out of `Words` and of newlines, and
that sizes and priorities are not negative.  The properties first say which input is in order, and then what
the program makes of input that is and of input that is not.

### Killall

`kill_all_in_queue` with `dequeue` split into the choice and the removal and
`enqueue` into the check and the store, on the side that takes no lock;
`Scenarios` says who is at work.  In the program as it is the name that `killall`
compares is always empty; `Killed` is nevertheless a parameter, as `target_name`
is one of `kill_all_in_queue`.

## Runs

| Run | Instance | Result |
|---|---|---|
| Timer | 3 devices, time modulo 4 | all hold: `NoLostWakeup`, `NoErasedArrival`, `LockStep`, `TimerOutlivesDevices`, refinement of SlotClock, `NextSlotReturns`, `MainReturns` |
| Os (MCOs) | 3 CPUs, 4 programs, 2 levels, queues of 3 | all hold: `ExclusiveOwner`, `NothingLost`, `WorkConserving`, `StoppedMeansDrained`, refinement of Dispatcher, `AllFinish` |
| PagingTwo (MCPaging) | 2 processes, 3 frames, 2 swap frames | all hold: `IsolationUntilFault`, `BreakOrder`, `NoValidRegion`, `NoFrameLost` |
| PagingData (MCPaging) | 1 process, 2 byte values, 1 swap frame | holds: `DataKeptUntilFault` |
| Frames | 1 CPU, 2 processes, 4 frames, stale tables | all hold: `FrameGivenOnce`, `EntriesApart`, refinement of FramePool |
| Mem | 2 processes, 4 pages, words of 5 bits | all hold: `ValidBelowBreak`, `OwnersAgree`, `ChainsFollowAddresses`, refinement of AddressSpace |
| Loader (MCLoader) | programs and configurations of up to 3 lines | all hold: `TableFollowsConfig`, `MissingLineRepeatsName`, `TextFollowsProgram`, `ShortProgramRepeats`, `ExitHasCause`, `LoadedAsListed` |
| Killall (MCKillall) | all queues of up to 4 processes; the call alone, or 2 CPUs without it | all hold: `SurvivorsKept`, `OrderKept`, `NobodyLost` |
| OsStops (MCOs) | 2 CPUs, 3 programs | `CPUsStop` violated: a CPU idle when the loader ends never looks at `done` (`os.c:58`) |
| PagingSwap (MCPaging) | 1 process | `DataKept` violated by the first page replacement |
| MemPhyTwo (MemPhy) | 2 CPUs, 3 frames | `FrameGivenOnce` violated: no lock |
| KillallRace (MCKillall) | the call and one CPU | `NobodyLost` violated: no lock |

The type invariants are checked with the runs.  The last four state what a
comment, a message or a recorded output of the repository says; the quotations
are in `PROJECT.json` under `findings`.

### Bounds, and why they are enough

* **Timer.**  Three devices give a first, a middle and a last node of the list, so
  the cursor can have passed, be at, or be before a device that arrives or
  detaches.  The time is modulo 4 instead of 2^64: it wraps, and devices that are
  two slots apart would still be told apart.  Nothing else is bounded, and the
  safety properties are proved for every N and every modulus.
* **Os.**  Three CPUs and four programs, of which one is alone on the upper level
  and three share the lower one (two peers, one with a better `priority`): CPUs
  compete for peers, a more urgent program arrives while others run, one program
  is empty, one needs more than one slice.  `MAX_QUEUE_SIZE` is 3, as many as a
  level can hold, and `running_list` overflows.  TIME_MOD = 10 lets no start time
  be missed.  One more program per level than the queue holds is dropped by the
  code, by its own comment (`queue.c:11`); `NothingLost` is about the rest.  The
  safety properties and the refinement are proved for every size.
* **Paging.**  Pages of two bytes and a `bp` that starts two pages above `vm_end`,
  so the mapped range and the region differ as with 256 and 1024.  Requests of nothing,
  of one page and of two; three frames, so that a second request fails half-way;
  `MAX_BRK` stops `bp` after one request of two pages or two of one, `MAX_FIFO`
  the length of `fifo_pgn`, to which an `alloc` of 0 bytes adds for ever; `killall`
  reads three bytes, over a page boundary.
  PagingTwo uses the symmetry of the two processes; there is no liveness there.
* **Frames.**  Four frames and a frame field of two bits, just wide enough; requests of up
  to three pages, so that the second or third fails midway; two processes; stale
  words with bits in the field, beside it and among the flags, without the present
  bit.
* **MemPhy.**  Two CPUs and three frames reach every interleaving of two calls.
* **Mem.**  Four pages of two bytes in tables of two rows of two, so an allocation crosses
  into a second row and one process's pages lie between another's; words of five
  bits, so that a request of 30 bytes wraps past the first test of `alloc_mem`
  as one near 4 GB does; offsets that wrap below the region.
* **Loader.**  Every program of up to three lines out of twelve kinds (enough, too few, too
  many operands, an unknown word), with sizes from 0 to 4 and none, one or two newlines
  behind a line; every configuration of up to three lines out of seven kinds announcing 0
  to 3 processes, with and without its memory line.  A line affects only what
  the next ones read, so three lines reach a line between two others.  The properties
  are proved for every length.
* **Killall.**  All queues of up to four distinct processes with three different priorities,
  two of the processes peers.

### Fairness

The kernel schedules every runnable thread: weak fairness of each thread's next
step.  A thread blocked in `pthread_cond_wait` is not runnable, and the spurious
wakeups get no fairness, so no liveness property rests on them.  In `Timer` a
device is also taken to come back from its own work to `next_slot` or
`detach_event`, since the loop bodies of `cpu_routine` and `ld_routine` are
finite.  A mutex is
assumed to be granted in the end.  That asks little here: the locks of a device
are taken by two threads only, and every user of `queue_lock` soon waits for the
next slot, which leaves the lock to those that still want it.  In `Os` the fairness of `Tick` is
for whoever has arrived, on which it may rely: the
Timer run checks `ClockRefined` with `SlotClock`'s fairness condition included.
`AllFinish` needs no fairness between programs: the programs are finite, so strict
priority delays a program but cannot starve it.

## Proofs

The proofs assume what the modules' `ASSUME`s name, which is what the code needs
of its configuration, and nothing else; a theorem that needs more says so.

| Module | Theorem | Statement |
|---|---|---|
| TimerProofs | `TypeCorrect` | `Spec => []TypeOK`, for every `N > 0` and `TIME_MOD > 0` |
| | `WakeupsKept` | `Spec => []NoLostWakeup` |
| | `ArrivalsKept` | `Spec => []NoErasedArrival` |
| | `TimerLast` | `Spec => []TimerOutlivesDevices` |
| | `SlotsCounted` | `Spec => []LockStep` |
| | `ClockImplemented` | `Spec => ClockSafety`: the initial state and the steps of SlotClock |
| OsProofs | `BestIsFirst` | what `dequeue` takes is the first of the greatest `priority` |
| | `TypesKept` | `Spec => []TypeOK`, for all CPUs, processes, levels and queue sizes |
| | `OneOwner` | `Spec => []ExclusiveOwner` |
| | `NobodyDropped` | `Spec => []NothingLost`, if a queue has room for all processes |
| | `NoIdleForNothing` | `Spec => []WorkConserving` |
| | `NothingLeftBehind` | `Spec => []StoppedMeansDrained` |
| | `DispatcherImplemented` | `Spec => DispatcherRefined`, if a queue has room for all processes |
| PagingProofs | `BreaksFollow` | `Spec => []BreakOrder`, for all processes, requests and page sizes |
| | `NothingToFree` | `Spec => []NoValidRegion` |
| | `ProcessesIsolated` | `Spec => []IsolationUntilFault` |
| | `FramesKept` | `Spec => []NoFrameLost` |
| | `BytesKept` | `Spec => []DataKeptUntilFault` |
| | `TypesKept` | `Spec => []TypeOK` |
| FramesProofs | `FrameRoundTrip`, `ReplacedEntry`, `SwapRoundTrip` | a field written into an entry is read back, for all words and fields |
| | `NumberRoundTrip` | so is a number, through its bits |
| | `FramesTyped` | `FramesSpec => []FramesTypeOK`, for any number of CPUs |
| | `GivenOnceByOne` | `FramesSpec => []FrameGivenOnce`, with one CPU |
| | `EntriesStayApart` | `FramesSpec => []EntriesApart`, with one CPU |
| | `PoolImplemented` | `FramesSpec => PoolRefined`, with one CPU |
| KillallProofs | `SurvivorsAlwaysKept` | `Spec => []SurvivorsKept`, for all queues, if the call is alone |
| | `OrderAlwaysKept` | `Spec => []OrderKept`, if the call is alone |
| | `NobodyEverLost` | `Spec => []NobodyLost`, if the call is alone or not at work |
| MemProofs | `TypesKept` | `Spec => []TypeOK`, for all processes and requests, with tables up to the code's size |
| | `ValidAlwaysBelowBreak` | `Spec => []ValidBelowBreak` |
| | `OwnersAlwaysAgree` | `Spec => []OwnersAgree` |
| | `ChainsAlwaysFollow` | `Spec => []ChainsFollowAddresses` |
| | `SpacesImplemented` | `Spec => SpacesRefined`: every instruction is one of AddressSpace or a stutter |
| LoaderProofs | `TypesKept` | `Spec => []TypeOK`, for every configuration and all programs |
| | `ConfigBecomesTable` | `Spec => []TableFollowsConfig` |
| | `MissingLinesRepeat` | `Spec => []MissingLineRepeatsName` |
| | `ProgramBecomesText` | `Spec => []TextFollowsProgram` |
| | `ShortProgramGoesOn` | `Spec => []ShortProgramRepeats` |
| | `StopsForCause` | `Spec => []ExitHasCause` |
| | `LoadsAsListed` | `Spec => []LoadedAsListed`, if the names differ where `load` keeps them |

**The clock.**  All rest on one inductive invariant, `IInv`.  None of the
properties is inductive alone.  `NoErasedArrival` speaks of the devices the
release loop has still to reach, and holds only because the scan before it saw
each of them arrived or detached and none could arrive a second time; so the
invariant follows the cursor: what is known of the devices above it during the
scan (`Scanned`), of those below it during the release (`Releasing`), and after
the loop (`Exited`).  `timer_check` compares two counters, so `Scanned` says
when they can be equal: `nevent` is the number of devices passed and equals
`nfsh` only if all of those have detached.  `Flags` ties each flag to its
thread's place, and `Phases` says what each phase of `main` excludes, which is
why the list is complete whenever the timer walks it.  `LockStep` is then an
invariant relative to `IInv`, and the refinement is by cases on `Next`: attach,
start, scan and wait steps stutter, the tick is the clock's tick, and each
release leaves `ClockState` unchanged because the mapping already counted the
device as released.

**The scheduler.**  `Owned` adds to `ExclusiveOwner` that only loaded processes
are anywhere and that a CPU about to look for a process holds none; with what
`get_proc` takes and `put_mlq_proc` adds (`TakesOne`, `PutsOne`, from the lemmas
about one queue) it is inductive.  Nobody is lost as long as the queue
has room, which `HasRoom` gets by counting: the entries of a queue are distinct
and one process is outside.

`WorkConserving` and `StoppedMeansDrained` are the harder ones, because a CPU
that has found the queues empty may be followed by one that puts its process
back.  The invariant `SpokenFor` says why that is no idle CPU with work waiting:
whoever is put back after the look is matched, one to one, with a CPU that is
on its way to take one (`Getting`), and only the loader can add one more, by
which it ends its own slot.  `NoMoreThan` is that matching.  At the end of a
slot no CPU is on its way, so nothing is left.

The refinement of Dispatcher needs that a process waits on the level of its
`prio`, that a CPU without a process has no slice and one at `put_proc` has used
it up (`Slices`), and what a removal and an addition do to the order of peers in a
queue (`OrderTaken`, `OrderPut`).  Each action of `Os` then is one of the
dispatcher's, or changes nothing the mapping looks at (`NoStep`).

**Memory.**  `Breaks`: `bp` and `vm_end` move by the
same amount, `sbrk` by less.  `Regions`: a free list is the empty region that
`init_mm` puts there or nothing, so no symbol gets a region of a byte or more.
`Apart`: a frame is on the free list once at most, and until the first replacement
no entry names one of the list or of another entry; requests that fail midway only
shorten the list.

`Placed` adds to them what `NoFrameLost` and `DataKeptUntilFault` need: until the first
replacement an entry is present only below `vm_end` (`Below`), so a request maps onto
nothing that was there, whatever its size (`Growth`, over the quotient of an address
by the page size), and a frame that leaves the list is in an entry, and in none
before.  `Kept` then carries each stored byte: the frame of the entry holds what
`shadow` says, a request writes to no storage, and a store to another page goes to
another frame because of `Apart`.
`Typed` is the type invariant with what the reads and page replacements of a system
call do to the memories in any number of turns (`Memories`, `Iterated`).

**Frames.**  `Typed` adds to the types that a CPU inside `MEMPHY_get_freefp` has a
request with frames still to come, and that what it puts in `*retfpn` is a frame;
it holds with any number of CPUs, since the list can hand out a frame twice but
never anything else.  With one CPU `InLine` says all that is left: the nodes from
`Base` on are the live ones and the list in order, the frames before have been
given once, those the request has taken are the last of these, and entries only name
frames before them (`Fresh`).  `GivenOnceByOne` and `EntriesStayApart` read it
off.  With two CPUs both are false (run MemPhyTwo), so the hypothesis is
needed.  That an entry names the frame it was given also takes `NumberRoundTrip`:
`Halved` gives the bits of a number one by one, `BitsApart` that they
determine it, and `FramesAssumption` that the frame's number fits the field.  For the
refinement the recursive `FollowedBy` is shown to have one solution (`FollowedIs`):
what one CPU has taken, has in hand and leaves in the list is the run of frames
from `Fresh` on, and only a failing request and the writing of the entries change it.

**Killall.**  `CallAlone` follows the two loops of `kill_all_in_queue` with nobody
else at work.  While the queue is drained (`Draining`), `tempQueue` holds survivors in
the order of dispatch, all of them before what is still in the queue, and peers there
are in their old order; while it is filled again (`Restoring`), the queue holds the
first of the survivors and `tempQueue` the rest.  Since `dequeue` takes the first of
the greatest priority (`BestIsFirst`), the order at the end is the order of
dispatch at the call.  `OthersAlone` is the scheduler without the call: a process is
in the queue or with the one thread that removed it.  With both at work
`KillallRace` finds a process lost, so `NobodyEverLost` assumes they are not.

**The other memory.**  `Page(T, n)` looks page n up in both levels of a table, and
`Mapped` says that `add_page_mapping` changes it for one page and no other.  No array of
a table outgrows its size because its indexes differ and are small (`Roomy`, `Short`).
`FreeTaken` and `Allocated` do the same for the loop of `alloc_mem`: the pages it takes
are free and different from each other, and they end up one behind the other from the
break on.  `Takes` sums this up, and `NoWrap` says that the break has not wrapped when
both tests of `alloc_mem` have passed.  The invariant `InOrder` then has six parts: room in the tables
(`Tables`); a process's pages are those from the first to its break (`Breaks`);
a page in a table is its process's and is there once, a page with an owner is in that
owner's table (`Owners`); the page after a page in its chain is the one mapped after it
(`Chains`); free pages hold zeroes (`Cleared`); and the type of the registers.  None of
`OwnersAgree`, `ChainsFollowAddresses` and `ValidBelowBreak` is inductive: each needs that what
is taken was not mapped before, which `Breaks` and `Owners` say together.  The
refinement follows from where a byte is: two addresses, of one process or of two, are
never in the same place (`PlacesApart`), so a store changes one byte of one space.
`MemAssumption` bounds the lengths of the address's three parts by the code's 10, 5 and
5, and takes twice the memory to be less than a word holds, 2^21 and 2^32 in the code.

**The loader.**  First, where things stand in a file: `Laying` says that a written
file is its lines one behind the other, each at its place, and nothing but newlines
between them (`ProgramLaid`, `ConfigLaid`).  Then, where reading goes: `NumbersRead` what
an `fscanf` stores and where it stops, given the numbers that stand there, `LineInstruction`
and `SyscallRead` the same for a line in order, `PastEnd` that at the end nothing is
read.  None of the properties is inductive, since none says where the file is left.
`Table` and `Text` do: after k turns of a loop, the next token that is no
newline is the first of line k + 1, or the file has ended, and the locals
(`proc`; `opcode` and `buf`) hold what line k, or the last line, has left in them.
`LineNo` treats both cases as one, so that a file that is too short needs no
invariant of its own.  Both hold for files in order only; for all others `Types` keeps
the position inside the file.  `Loaded` carries what a program has become past
the end of its loading.  `LoadsAsListed` has a hypothesis: `NamesDiffer`, that no two listed
names agree in the five characters that `load` keeps of them.  It is what
`killall`, which compares these names, needs of the configuration, and without it
the last line of `LoadedAsListed` is false, as two programs `prog_a` and `prog_b` show;
MCLoader has TLC check it for its own names.

The arguments about numbers and lists that elsewhere would be inductions use the
least-number principle (`LeastNumber` of NumberFacts): the least number at which a
claim fails is not 0, and the claim holds for the one before.

**Only model-checked.**  Liveness under fairness and `ENABLED` are out of the
prover's reach: `NextSlotReturns`, `MainReturns`, `AllFinish` and the fairness
half of `ClockRefined`.  Every other property of the passing runs is a theorem.

## Not modelled

* `free_pcb_memph`, `MEMPHY_put_freefp`, `queue_empty`, sequential devices
  (`MEMPHY_mv_csr` and the two functions over it): nothing reaches them.
  `init_pte` and `pte_set_swap` are not called either, but are in Pte.
* Printing (`print_*`, `dump`, `MEMPHY_dump`, `listsyscall`): no state.
* The single-queue scheduler: not compiled in this configuration.
* `paging.c`: a test program that no longer fits the functions it calls.
* Two CPUs inside the same device's storage: only the list of free frames is split
  into single accesses.  `IsolationUntilFault` is what makes the accesses
  of different processes independent of each other.
* What the loader makes of words longer than `opcode`, of lines longer than `buf`
  and of a header with fewer than three numbers; requests of 2^31 bytes or more.
* Exhaustion of the host's memory (`malloc` returning NULL).  Memory from `malloc`
  that the code does not initialise is taken to be zero where the code relies on
  it (Paging, Mem), with the exceptions that Frames and Loader name.

## Observed on the way

None of these has a run of its own; each is
modelled as it is.

* Frames of a grown area are mapped from the old `vm_end`, the region is at `bp`:
  at the start the two are `PAGE_SIZE` apart (`mm-vm.c:161`).
* `killall` always compares with the empty name, and `libread` drops the byte it
  finds (see Paging).
* `read` of `cpu.c` takes the 0 that `read_mem` returns for success as a failure
  (`cpu.c:40`).
* A configuration without its memory line has process lines read as sizes.
* `load` keeps sixteen characters of a path, eleven of them the directory's,
  because it takes the size of a pointer for that of the array (`loader.c:51`).
* `output/sched_0.output` was recorded from a scheduler that served the smaller
  `prio` first; this one serves the greater.

## Plan

Done: the clock, on which everything runs; the scheduler over the clock's
abstraction; memory, with its entries and frames access by access; the system calls;
the loader; the memory of the other build; the proofs of the clock, the scheduler
and its refinement, of paging, of the frames and their refinement, of killall, of
the other build's memory and its refinement, and of the loader.  Next:

1. Two CPUs in `alloc_pages_range`, to say which of Frames' properties survive the
   missing lock.
2. Lines longer than `buf` and words longer than `opcode` in Loader.
