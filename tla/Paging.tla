------------------------------- MODULE Paging -------------------------------
(***************************************************************************)
(* The memory side of an instruction: src/src/libmem.c over mm-vm.c, mm.c  *)
(* and mm-memphy.c, and the system calls: libstd.c and syscall.c dispatch  *)
(* them to sys_mem.c, sys_killall.c, sys_listsyscall.c, sys_xxxhandler.c.  *)
(*                                                                         *)
(* A step is one instruction of one process, executed as a whole: exact    *)
(* when one CPU executes instructions; what two CPUs can do to each other  *)
(* inside MEMPHY_get_freefp is the subject of MemPhy.tla.                  *)
(*                                                                         *)
(* One byte of every page is tracked: a frame is a value of Data.  A page  *)
(* table entry is ABSENT (the all-zero word) or the number of a frame: no  *)
(* reachable code calls pte_set_swap, so no other word is ever stored.     *)
(* Operators named like another one with a suffix                          *)
(* (alloc_pages_range_leaves_last, ...) are faulty variants.               *)
(*                                                                         *)
(* The heap memory init_mm leaves uninitialised is taken to be zero, which *)
(* fresh pages from the kernel are.                                        *)
(***************************************************************************)
EXTENDS Integers, Sequences, FiniteSets

LOCAL INSTANCE SequencesExt     \* RemoveAt

CONSTANTS Proc,
          RgId,         \* indices into symrgtbl: 0 .. 29 in the code
          Sizes,        \* arguments of alloc and of memmap's INC operation
          Offsets,      \* arguments of read and write
          Data,         \* what a tracked byte can be; it starts as NoData
          NoData,
          RAM, SWP,     \* number of frames of mram and of active_mswp
          PAGESZ,       \* PAGING_PAGESZ, 256 in the code
          PAGE_SIZE,    \* where bp starts, 1024 in the code
          MAX_PGN,      \* pages the 22-bit addresses can name
          NAME,         \* bytes killall reads for a name: 99 in the code
          MAX_BRK,      \* bound: how far bp is taken
          MAX_FIFO      \* bound: length of fifo_pgn (an alloc of 0 bytes adds to it)

ASSUME PagingAssumption ==
  /\ Sizes \subseteq Nat /\ Offsets \subseteq Nat
  /\ RAM \in Nat \ {0} /\ SWP \in Nat \ {0}
  /\ PAGESZ \in Nat \ {0} /\ MAX_PGN \in Nat \ {0}
  /\ PAGE_SIZE \in Nat \ {0}
  /\ MAX_FIFO \in Nat /\ NAME \in Nat
  /\ MAX_BRK \in Nat /\ PAGE_SIZE \leq MAX_BRK /\ MAX_BRK \leq MAX_PGN * PAGESZ
  /\ NoData \in Data

VARIABLES
  bp,                   \* pcb_t.bp
  vm_end, sbrk,         \* of the process's only vm_area_struct
  vm_freerg_list,       \* its free regions
  symrgtbl,             \* the region of every symbol
  pgd,                  \* page table
  fifo_pgn,             \* victim candidates
  mram_free, mswp_free, \* free_fp_list of the two devices
  mram, mswp,           \* their storage
  shadow,               \* history: what each process last stored in each page
  happened              \* history: "fault" (pg_getpage replaced a page),
                        \* "raw" (a process stored at a physical address),
                        \* "short" (a request ran out of frames)

areaVars == <<bp, vm_end, sbrk>>
rgVars   == <<vm_freerg_list, symrgtbl>>
pgVars   == <<pgd, fifo_pgn>>
freeVars == <<mram_free, mswp_free>>
dataVars == <<mram, mswp>>
history  == <<shadow, happened>>
vars     == <<areaVars, rgVars, pgVars, freeVars, dataVars, history>>

ABSENT == -1
NONE   == -1            \* rg_start == rg_end == -1

Page  == 0 .. MAX_PGN - 1
Frame == 0 .. RAM - 1

PAGING_PAGE_ALIGNSZ(sz) == ((sz + PAGESZ - 1) \div PAGESZ) * PAGESZ
PAGING_PGN(addr) == (addr \div PAGESZ) % MAX_PGN

Region == [rg_start : Int, rg_end : Int]
rg(s, e) == [rg_start |-> s, rg_end |-> e]

TypeOK ==
  /\ bp \in [Proc -> 0 .. MAX_BRK]
  /\ vm_end \in [Proc -> 0 .. MAX_BRK]
  /\ sbrk \in [Proc -> 0 .. MAX_BRK]
  /\ vm_freerg_list \in [Proc -> Seq(Region)]
  /\ symrgtbl \in [Proc -> [RgId -> Region]]
  /\ pgd \in [Proc -> [Page -> Page \cup Frame \cup {ABSENT}]]
  /\ fifo_pgn \in [Proc -> Seq(Page)]
  /\ mram_free \in Seq(Frame)
  /\ mswp_free \in Seq(0 .. SWP - 1)
  /\ mram \in [Frame -> Data]
  /\ mswp \in [0 .. SWP - 1 -> Data]
  /\ shadow \in [Proc -> [Page -> Data]]
  /\ happened \subseteq {"fault", "raw", "short"}

\* init_memphy and MEMPHY_format for the devices, load and init_mm for a process.
Init ==
  /\ bp = [p \in Proc |-> PAGE_SIZE]
  /\ vm_end = [p \in Proc |-> 0]
  /\ sbrk = [p \in Proc |-> 0]
  /\ vm_freerg_list = [p \in Proc |-> <<rg(0, 0)>>]
  /\ symrgtbl = [p \in Proc |-> [r \in RgId |-> rg(0, 0)]]
  /\ pgd = [p \in Proc |-> [n \in Page |-> ABSENT]]
  /\ fifo_pgn = [p \in Proc |-> << >>]
  /\ mram_free = [k \in 1 .. RAM |-> k - 1]
  /\ mswp_free = [k \in 1 .. SWP |-> k - 1]
  /\ mram = [f \in Frame |-> NoData]
  /\ mswp = [f \in 0 .. SWP - 1 |-> NoData]
  /\ shadow = [p \in Proc |-> [n \in Page |-> NoData]]
  /\ happened = {}

-----------------------------------------------------------------------------
(* mm-vm.c and mm.c: growing the area *)

EnoughFrames(n) == n \leq Len(mram_free)

alloc_pages_range_leaves_last(n) ==
  mram_free' = IF EnoughFrames(n)
               THEN SubSeq(mram_free, IF n = 0 THEN 1 ELSE n, Len(mram_free))
               ELSE << >>

alloc_pages_range_one_more(n) ==
  mram_free' = IF EnoughFrames(n) THEN SubSeq(mram_free, n + 2, Len(mram_free))
                                  ELSE << >>

\* Frames from the head of the free list; when it runs out, the frames already
\* taken stay taken.
alloc_pages_range(n) ==
  mram_free' = IF EnoughFrames(n) THEN SubSeq(mram_free, n + 1, Len(mram_free))
                                  ELSE << >>

enlist_pgn_node_address(p, pgn) ==
  fifo_pgn' = [fifo_pgn EXCEPT ![p] = <<pgn * PAGESZ>> \o @]

\* enlist_pgn_node puts the page at the head.
enlist_pgn_node(p, pgn) == fifo_pgn' = [fifo_pgn EXCEPT ![p] = <<pgn>> \o @]

\* vmap_page_range: n pages from addr on get the frames taken; only the first of
\* them (even if n is 0) becomes a victim candidate.  Below MAX_BRK no page number
\* wraps, so no page is written twice.
vmap_page_range(p, addr, n) ==
  LET first == PAGING_PGN(addr)
  IN  /\ pgd' = [pgd EXCEPT ![p] = [pgn \in Page |->
                   IF pgn \in first .. first + n - 1 THEN mram_free[pgn - first + 1]
                                                     ELSE @[pgn]]]
      /\ enlist_pgn_node(p, first)

get_vm_area_node_no_bump(p, amt) == UNCHANGED bp

\* The new region starts at bp; the process's bp moves behind it.
get_vm_area_node_at_brk(p, amt) == bp' = [bp EXCEPT ![p] = @ + amt]

\* inc_vma_limit.  get_vma_by_num finds the process's only area, 0, and no other.
\* bp and vm_end keep their new values when a later step fails.
amount(sz) == PAGING_PAGE_ALIGNSZ(sz)
Overlaps(p) == bp[p] < vm_end[p]
Grows(p, vmaid, sz) ==
  vmaid = 0 /\ ~ Overlaps(p) /\ EnoughFrames(amount(sz) \div PAGESZ)

inc_vma_limit(p, vmaid, sz) ==
  LET n == amount(sz) \div PAGESZ
  IN  /\ bp[p] + amount(sz) \leq MAX_BRK
      /\ Len(fifo_pgn[p]) < MAX_FIFO
      /\ get_vm_area_node_at_brk(p, amount(sz))
      /\ IF vmaid # 0 \/ Overlaps(p)
         THEN UNCHANGED <<vm_end, mram_free, pgVars, happened>>
         ELSE /\ vm_end' = [vm_end EXCEPT ![p] = bp[p] + amount(sz)]
              /\ alloc_pages_range(n)
              /\ IF EnoughFrames(n)
                 THEN vmap_page_range(p, vm_end[p], n) /\ UNCHANGED happened
                 ELSE UNCHANGED pgVars /\ happened' = happened \cup {"short"}

-----------------------------------------------------------------------------
(* libmem.c: regions *)

Fits(p, k, size) ==
  LET node == vm_freerg_list[p][k] IN node.rg_end - node.rg_start \geq size

\* The first node of the free list that is long enough, 0 if there is none.
first_fit(p, size) ==
  LET ks == {k \in DOMAIN vm_freerg_list[p] : Fits(p, k, size)}
  IN  IF ks = {} THEN 0 ELSE CHOOSE k \in ks : \A j \in ks : k \leq j

\* get_free_vmrg_area returns -1 only when the free list is empty; when no node
\* is long enough it returns 0 with the region it started from, (-1, -1).
HasFreeArea(p) == vm_freerg_list[p] # << >>

get_free_vmrg_area(p, r, size) ==
  LET k == first_fit(p, size)
      node == vm_freerg_list[p][k]
      start == node.rg_start + size
  IN  IF k = 0
      THEN /\ symrgtbl' = [symrgtbl EXCEPT ![p][r] = rg(NONE, NONE)]
           /\ UNCHANGED vm_freerg_list
      ELSE /\ symrgtbl' = [symrgtbl EXCEPT ![p][r] = rg(node.rg_start, start)]
           /\ vm_freerg_list' = [vm_freerg_list EXCEPT ![p] =
                IF start \geq node.rg_end THEN RemoveAt(@, k)
                                          ELSE [@ EXCEPT ![k].rg_start = start]]

liballoc_sets_symbol(p, r, size) ==
  /\ IF HasFreeArea(p)
     THEN /\ get_free_vmrg_area(p, r, size)
          /\ UNCHANGED <<areaVars, pgVars, mram_free, happened>>
     ELSE /\ inc_vma_limit(p, 0, amount(size))
          /\ symrgtbl' = [symrgtbl EXCEPT ![p][r] = rg(sbrk[p], sbrk[p] + size)]
          /\ sbrk' = [sbrk EXCEPT ![p] = @ + amount(size)]
          /\ UNCHANGED vm_freerg_list
  /\ UNCHANGED <<mswp_free, dataVars, shadow>>

\* liballoc, __alloc: from the free list, or else from a larger area.  The second
\* way moves sbrk and leaves the symbol as it was.
liballoc(p, r, size) ==
  /\ IF HasFreeArea(p)
     THEN /\ get_free_vmrg_area(p, r, size)
          /\ UNCHANGED <<areaVars, pgVars, mram_free, happened>>
     ELSE /\ inc_vma_limit(p, 0, amount(size))
          /\ sbrk' = [sbrk EXCEPT ![p] =
               IF Grows(p, 0, amount(size)) THEN @ + amount(size) ELSE @]
          /\ UNCHANGED rgVars
  /\ UNCHANGED <<mswp_free, dataVars, shadow>>

ValidRegion(p, r) ==
  /\ r \in RgId
  /\ LET region == symrgtbl[p][r]
     IN  /\ region.rg_start # NONE /\ region.rg_end # NONE
         /\ region.rg_start < region.rg_end

\* libfree, __free: the symbol's own node becomes the head of the free list and is
\* then reset to (-1, -1) with no successor.  From then on the symbol and the list
\* would share that node, which is not modelled: NoValidRegion shows that the branch
\* is never taken.
libfree(p, r) ==
  /\ IF ValidRegion(p, r)
     THEN /\ vm_freerg_list' = [vm_freerg_list EXCEPT ![p] = <<rg(NONE, NONE)>>]
          /\ symrgtbl' = [symrgtbl EXCEPT ![p][r] = rg(NONE, NONE)]
     ELSE UNCHANGED rgVars
  /\ UNCHANGED <<areaVars, pgVars, freeVars, dataVars, history>>

-----------------------------------------------------------------------------
(* libmem.c: pages *)

\* What a read of frame f of a device finds, and the device after a write.  Past
\* the end of the storage lies other heap memory.
Found(storage, f) == IF f \in DOMAIN storage THEN {storage[f]} ELSE Data
Stored(storage, f, d) == [storage EXCEPT ![f] = d]

\* What a page access can change.
Memory ==
  [pgd |-> pgd, fifo_pgn |-> fifo_pgn, mswp_free |-> mswp_free, mswp |-> mswp]

\* pg_getpage on memory m: the memories it may leave.  A page that is absent takes
\* the place of a victim v: frame v (not the frame of page v) is copied to a free
\* swap frame, frame 0 (the swap bits of an absent entry) to swap frame v, and the
\* entry becomes frame v.  The victim's own entry stays.  It has left fifo_pgn even
\* if there is no swap frame.
pg_getpage(m, p, pgn) ==
  IF m.pgd[p][pgn] # ABSENT \/ m.fifo_pgn[p] = << >>
  THEN {m}
  ELSE LET v == Head(m.fifo_pgn[p])
           failed == [m EXCEPT !.fifo_pgn[p] = Tail(@)]
       IN  IF m.mswp_free = << >>
           THEN {failed}
           ELSE {[failed EXCEPT !.mswp_free = Tail(@),
                                !.mswp = Stored(Stored(@, Head(m.mswp_free), d), v, mram[0]),
                                !.pgd[p][pgn] = v] : d \in Found(mram, v)}

Becomes(m) ==
  /\ pgd' = m.pgd /\ fifo_pgn' = m.fifo_pgn
  /\ mswp_free' = m.mswp_free /\ mswp' = m.mswp
  /\ happened' = IF m.pgd = pgd THEN happened ELSE happened \cup {"fault"}

\* get_symrg_byid finds no region under an index outside the table.
Named == RgId \cup {-1}

\* The page of an operand: register r's region plus an offset, in 22 bits.
Operand(p, r, offset) == PAGING_PGN(symrgtbl[p][r].rg_start + offset)

\* What reading region r at an offset makes of memory m.
Read(m, p, r, offset) ==
  IF r \in RgId THEN pg_getpage(m, p, Operand(p, r, offset)) ELSE {m}

\* libread, __read, pg_getval.  The byte found goes nowhere: libread does not
\* store through `destination`.
libread(p, r, offset) ==
  /\ \E m \in Read(Memory, p, r, offset) : Becomes(m)
  /\ UNCHANGED <<areaVars, rgVars, mram_free, mram, shadow>>

\* libwrite, __write, pg_setval: 0 is returned whether or not the page was found.
libwrite(p, d, r, offset) ==
  /\ \E m \in Read(Memory, p, r, offset) : Becomes(m)
  /\ IF r \notin RgId \/ pgd'[p][Operand(p, r, offset)] = ABSENT
     THEN UNCHANGED <<mram, shadow>>
     ELSE LET pgn == Operand(p, r, offset)
          IN  /\ mram' = Stored(mram, pgd'[p][pgn], d)
              /\ shadow' = [shadow EXCEPT ![p][pgn] = d]
  /\ UNCHANGED <<areaVars, rgVars, mram_free>>

-----------------------------------------------------------------------------
(* System calls: libsyscall fills the registers, syscall looks up the number *)

SYSMEM_INC_OP(p, vmaid, sz) ==
  /\ inc_vma_limit(p, vmaid, sz)
  /\ UNCHANGED <<sbrk, rgVars, mswp_free, dataVars, shadow>>

SYSMEM_SWP_OP(p, src, dst) ==
  /\ \E d \in Found(mram, src) : mswp' = Stored(mswp, dst, d)
  /\ UNCHANGED <<areaVars, rgVars, pgVars, freeVars, mram, history>>

SYSMEM_IO_WRITE(p, f, d) ==
  /\ mram' = Stored(mram, f, d)
  /\ happened' = happened \cup {"raw"}
  /\ UNCHANGED <<areaVars, rgVars, pgVars, freeVars, mswp, shadow>>

\* MAP, IO_READ and unknown operations change nothing but the caller's registers,
\* which are dropped.
sys_memmap(p, regs) ==
  \/ regs.a1 = "INC" /\ SYSMEM_INC_OP(p, regs.a2, regs.a3)
  \/ regs.a1 = "SWP" /\ SYSMEM_SWP_OP(p, regs.a2, regs.a3)
  \/ regs.a1 = "IO_WRITE" /\ SYSMEM_IO_WRITE(p, regs.a2, regs.a3)
  \/ regs.a1 \in {"MAP", "IO_READ", "other"} /\ UNCHANGED vars

\* The memories after the first i reads of a name.  They end only when the buffer
\* is full: `data` stays 0, so the -1 that would end the name is never seen.
AfterReads(p, r) ==
  LET after[i \in 0 .. NAME] ==
        IF i = 0 THEN {Memory}
                 ELSE UNION {Read(m, p, r, i - 1) : m \in after[i - 1]}
  IN  after[NAME]

\* killall reads its name page by page, faults included; what it then does to the
\* queues is the subject of Killall.tla.
sys_killall(p, regs) ==
  /\ \E m \in AfterReads(p, regs.a1) : Becomes(m)
  /\ UNCHANGED <<areaVars, rgVars, mram_free, mram, shadow>>

\* sys_listsyscall and sys_xxxhandler print; a number without an entry is answered
\* by sys_ni_syscall.
syscall(p, regs) ==
  \/ regs.nr = 17 /\ sys_memmap(p, regs)
  \/ regs.nr = 101 /\ sys_killall(p, regs)
  \/ regs.nr \in {0, 440} /\ UNCHANGED vars
  \/ regs.nr \notin {0, 17, 101, 440} /\ UNCHANGED vars

\* The requests worth telling apart: a register a call ignores, or that the program
\* left out, may hold anything.
Request ==
  [nr : {0, 1, 440}] \cup
  [nr : {101}, a1 : Named] \cup
  [nr : {17}, a1 : {"INC"}, a2 : {0, 1}, a3 : Sizes] \cup
  [nr : {17}, a1 : {"SWP"}, a2 : Frame, a3 : 0 .. SWP - 1] \cup
  [nr : {17}, a1 : {"IO_WRITE"}, a2 : Frame, a3 : Data] \cup
  [nr : {17}, a1 : {"MAP", "IO_READ", "other"}]

-----------------------------------------------------------------------------
Next == \E p \in Proc :
  \/ \E r \in RgId, size \in Sizes : liballoc(p, r, size)
  \/ \E r \in Named : libfree(p, r)
  \/ \E r \in Named, o \in Offsets : libread(p, r, o)
  \/ \E r \in Named, o \in Offsets, d \in Data : libwrite(p, d, r, o)
  \/ \E regs \in Request : syscall(p, regs)

Spec == Init /\ [][Next]_vars

-----------------------------------------------------------------------------
(* Properties *)

\* As long as no page has been replaced, processes are isolated: two entries of
\* the page tables never name one frame, nor does one name a free frame.
IsolationUntilFault ==
  "fault" \notin happened =>
    \A p \in Proc, m \in Page : pgd[p][m] # ABSENT =>
      /\ pgd[p][m] \in Frame
      /\ \A k \in DOMAIN mram_free : mram_free[k] # pgd[p][m]
      /\ \A q \in Proc, n \in Page : pgd[q][n] = pgd[p][m] => p = q /\ m = n

\* No frame is lost by requests that succeed: each is on the free list or in a page
\* table.  Only a request that fails midway ("src/src/mm.c:155") loses the frames it
\* had taken, and a replaced entry the frame it named.
NoFrameLost ==
  happened \cap {"fault", "short"} = {} =>
    \A f \in Frame :
      \/ \E k \in DOMAIN mram_free : mram_free[k] = f
      \/ \E p \in Proc, n \in Page : pgd[p][n] = f

\* What a process stored in a page it finds there again, unless somebody stores
\* at physical addresses.  "Swap the victim page from MEMRAM to MEMSWP ... Now swap
\* the target page from MEMSWP back into MEMRAM" (src/src/libmem.c:214, 224).
DataKept ==
  "raw" \notin happened =>
    \A p \in Proc, n \in Page :
      pgd[p][n] # ABSENT /\ shadow[p][n] # NoData =>
        pgd[p][n] \in Frame /\ mram[pgd[p][n]] = shadow[p][n]

\* DataKept does hold before the first replacement.
DataKeptUntilFault == "fault" \in happened \/ DataKept

\* The two break pointers of a process follow each other: the overlap check of
\* inc_vma_limit never fires, and what alloc hands out lies within the area.
BreakOrder ==
  \A p \in Proc :
    /\ vm_end[p] \leq bp[p]
    /\ sbrk[p] > 0 => sbrk[p] + PAGE_SIZE \leq vm_end[p]

\* With sizes below 2^31 no symbol ever names a region of at least one byte, so
\* every `free` fails: the free list starts with one empty region, a longer
\* request takes (-1, -1) from it, and the way around the list sets no symbol.
NoValidRegion == \A p \in Proc, r \in RgId : ~ ValidRegion(p, r)
=============================================================================
