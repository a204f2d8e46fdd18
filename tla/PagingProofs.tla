---------------------------- MODULE PagingProofs ----------------------------
(***************************************************************************)
(* What Paging.tla promises for any number of processes and symbols and    *)
(* any sizes of requests, pages and devices.  Breaks, Regions and Apart    *)
(* are inductive by themselves; with Below they make Placed, on which      *)
(* what is said of frames, bytes and types rests.                          *)
(***************************************************************************)
EXTENDS Paging, NumberFacts, TLAPS

LOCAL INSTANCE SequencesExt     \* RemoveAt

\* Rounding up to pages (mm.h:13) makes no request smaller.
LEMMA Rounded ==
  ASSUME NEW sz \in Nat
  PROVE  amount(sz) \in Nat /\ sz \leq amount(sz)
<1> DEFINE y == sz + PAGESZ - 1
           q == y \div PAGESZ
<1>1. PAGESZ \in Nat /\ PAGESZ > 0 /\ y \in Nat
  BY PagingAssumption
<1>2. q \in Nat /\ y = PAGESZ * q + (y % PAGESZ) /\ y % PAGESZ \in 0 .. PAGESZ - 1
  <2> HIDE DEF y
  <2> QED BY <1>1
<1>3. PAGESZ * q \in Nat
  BY <1>1, <1>2
<1>4. amount(sz) = PAGESZ * q
  BY <1>1, <1>2 DEF amount, PAGING_PAGE_ALIGNSZ
<1> QED
  BY <1>1, <1>2, <1>3, <1>4

-----------------------------------------------------------------------------
(* The break pointers *)

\* sbrk moves by what alloc asked for, bp and vm_end by the same amount rounded
\* once more; bp runs ahead of sbrk by at least its start value.
Breaks ==
  /\ bp \in [Proc -> Nat] /\ vm_end \in [Proc -> Nat] /\ sbrk \in [Proc -> Nat]
  /\ \A p \in Proc :
       /\ vm_end[p] \leq bp[p]
       /\ sbrk[p] + PAGE_SIZE \leq bp[p]
       /\ sbrk[p] > 0 => sbrk[p] + PAGE_SIZE \leq vm_end[p]

\* A larger area moves bp, and vm_end to the same place or not at all.
LEMMA LimitMoves ==
  ASSUME Breaks, NEW p \in Proc, NEW vmaid, NEW sz \in Nat, inc_vma_limit(p, vmaid, sz)
  PROVE  /\ bp' = [bp EXCEPT ![p] = @ + amount(sz)]
         /\ \/ vm_end' = vm_end /\ vmaid # 0
            \/ vm_end' = [vm_end EXCEPT ![p] = bp[p] + amount(sz)]
<1>1. ~ Overlaps(p)
  BY DEF Breaks, Overlaps
<1>2. bp' = [bp EXCEPT ![p] = @ + amount(sz)]
  BY DEF inc_vma_limit, get_vm_area_node_at_brk
<1>3. CASE vmaid # 0
  BY <1>2, <1>3 DEF inc_vma_limit
<1>4. CASE vmaid = 0
  BY <1>1, <1>2, <1>4 DEF inc_vma_limit
<1> QED
  BY <1>3, <1>4

\* A step that moves no break pointer, or one that grows the area of one process.
LEMMA BreakSteps ==
  ASSUME Breaks, [Next]_vars
  PROVE  \/ UNCHANGED areaVars
         \/ \E p \in Proc, vmaid \in {0, 1}, sz \in Sizes :
              inc_vma_limit(p, vmaid, sz) /\ UNCHANGED sbrk
         \/ \E p \in Proc, size \in Sizes :
              /\ inc_vma_limit(p, 0, amount(size))
              /\ sbrk' = [sbrk EXCEPT ![p] = IF Grows(p, 0, amount(size))
                                             THEN @ + amount(size) ELSE @]
<1>1. CASE UNCHANGED vars
  BY <1>1 DEF vars
<1>2. ASSUME NEW p \in Proc, NEW r \in RgId, NEW size \in Sizes, liballoc(p, r, size)
      PROVE  \/ UNCHANGED areaVars
             \/ /\ inc_vma_limit(p, 0, amount(size))
                /\ sbrk' = [sbrk EXCEPT ![p] = IF Grows(p, 0, amount(size))
                                               THEN @ + amount(size) ELSE @]
  BY <1>2 DEF liballoc
<1>3. ASSUME NEW p \in Proc, NEW r \in Named, libfree(p, r)
      PROVE  UNCHANGED areaVars
  BY <1>3 DEF libfree
<1>4. ASSUME NEW p \in Proc, NEW r \in Named, NEW o \in Offsets, libread(p, r, o)
      PROVE  UNCHANGED areaVars
  BY <1>4 DEF libread
<1>5. ASSUME NEW p \in Proc, NEW r \in Named, NEW o \in Offsets, NEW d \in Data,
             libwrite(p, d, r, o)
      PROVE  UNCHANGED areaVars
  BY <1>5 DEF libwrite
<1>6. ASSUME NEW p \in Proc, NEW regs \in Request, syscall(p, regs)
      PROVE  \/ UNCHANGED areaVars
             \/ \E vmaid \in {0, 1}, sz \in Sizes :
                  inc_vma_limit(p, vmaid, sz) /\ UNCHANGED sbrk
  <2>1. CASE regs.nr = 17 /\ sys_memmap(p, regs)
    <3>1. CASE regs.a1 = "INC" /\ SYSMEM_INC_OP(p, regs.a2, regs.a3)
      <4>1. regs.a2 \in {0, 1} /\ regs.a3 \in Sizes
        BY <2>1, <3>1 DEF Request
      <4> QED
        BY <3>1, <4>1 DEF SYSMEM_INC_OP
    <3>2. CASE regs.a1 = "SWP" /\ SYSMEM_SWP_OP(p, regs.a2, regs.a3)
      BY <3>2 DEF SYSMEM_SWP_OP
    <3>3. CASE regs.a1 = "IO_WRITE" /\ SYSMEM_IO_WRITE(p, regs.a2, regs.a3)
      BY <3>3 DEF SYSMEM_IO_WRITE
    <3>4. CASE UNCHANGED vars
      BY <3>4 DEF vars
    <3> QED
      BY <2>1, <3>1, <3>2, <3>3, <3>4 DEF sys_memmap
  <2>2. CASE sys_killall(p, regs)
    BY <2>2 DEF sys_killall
  <2>3. CASE UNCHANGED vars
    BY <2>3 DEF vars
  <2> QED
    BY <1>6, <2>1, <2>2, <2>3 DEF syscall
<1> QED
  BY <1>1, <1>2, <1>3, <1>4, <1>5, <1>6 DEF Next

LEMMA BreaksInit == Init => Breaks
BY PagingAssumption DEF Init, Breaks

LEMMA BreaksStep == Breaks /\ [Next]_vars => Breaks'
<1> SUFFICES ASSUME Breaks, [Next]_vars PROVE Breaks'
  OBVIOUS
<1>1. CASE UNCHANGED areaVars
  BY <1>1 DEF Breaks, areaVars
<1>2. ASSUME NEW p \in Proc, NEW vmaid \in {0, 1}, NEW sz \in Sizes,
             inc_vma_limit(p, vmaid, sz), UNCHANGED sbrk
      PROVE  Breaks'
  <2>1. sz \in Nat /\ amount(sz) \in Nat
    BY Rounded, PagingAssumption
  <2>2. /\ bp' = [bp EXCEPT ![p] = @ + amount(sz)]
        /\ \/ vm_end' = vm_end
           \/ vm_end' = [vm_end EXCEPT ![p] = bp[p] + amount(sz)]
    BY <1>2, <2>1, LimitMoves
  <2> QED
    BY <1>2, <2>1, <2>2, PagingAssumption DEF Breaks
<1>3. ASSUME NEW p \in Proc, NEW size \in Sizes, inc_vma_limit(p, 0, amount(size)),
             sbrk' = [sbrk EXCEPT ![p] = IF Grows(p, 0, amount(size))
                                         THEN @ + amount(size) ELSE @]
      PROVE  Breaks'
  <2> DEFINE more == amount(size)
  <2>1. more \in Nat /\ amount(more) \in Nat /\ more \leq amount(more)
    BY Rounded, PagingAssumption
  <2>2. /\ bp' = [bp EXCEPT ![p] = @ + amount(more)]
        /\ vm_end' = [vm_end EXCEPT ![p] = bp[p] + amount(more)]
    BY <1>3, <2>1, LimitMoves
  <2>3. sbrk' = sbrk \/ sbrk' = [sbrk EXCEPT ![p] = @ + more]
    BY <1>3 DEF Breaks
  <2> HIDE DEF more
  <2> QED
    BY <2>1, <2>2, <2>3, PagingAssumption DEF Breaks
<1> QED
  BY <1>1, <1>2, <1>3, BreakSteps

\* The overlap check of inc_vma_limit (mm-vm.c:106) never fires, and what alloc
\* hands out lies within the area.
THEOREM BreaksFollow == Spec => []BreakOrder
<1>1. Breaks => BreakOrder
  BY DEF Breaks, BreakOrder
<1> QED
  BY <1>1, BreaksInit, BreaksStep, PTL DEF Spec
-----------------------------------------------------------------------------
(* Regions *)

\* A free list is the empty region init_mm puts there, or nothing at all.
Regions ==
  /\ vm_freerg_list \in [Proc -> {<<rg(0, 0)>>, << >>}]
  /\ symrgtbl \in [Proc -> [RgId -> {rg(0, 0), rg(NONE, NONE)}]]

\* The only node of a list fits a request of nothing, and no other.
LEMMA FirstFit ==
  ASSUME Regions, NEW p \in Proc, HasFreeArea(p), NEW size \in Nat
  PROVE  /\ vm_freerg_list[p] = <<rg(0, 0)>>
         /\ first_fit(p, size) = IF size = 0 THEN 1 ELSE 0
<1>1. vm_freerg_list[p] = <<rg(0, 0)>>
  BY DEF Regions, HasFreeArea
<1>2. DOMAIN vm_freerg_list[p] = {1} /\ vm_freerg_list[p][1] = rg(0, 0)
  BY <1>1
<1>3. Fits(p, 1, size) <=> size = 0
  BY <1>2 DEF Fits, rg
<1> QED
  BY <1>1, <1>2, <1>3 DEF first_fit

\* Taking a region from the list leaves the symbol with an empty one or with none.
LEMMA RegionTaken ==
  ASSUME Regions, NEW p \in Proc, NEW r \in RgId, NEW size \in Nat,
         HasFreeArea(p), get_free_vmrg_area(p, r, size)
  PROVE  Regions'
<1>1. CASE size = 0
  <2>1. first_fit(p, size) = 1 /\ vm_freerg_list[p][1] = rg(0, 0)
    BY <1>1, FirstFit
  <2>2. RemoveAt(vm_freerg_list[p], 1) = << >>
    <3>1. RemoveAt(<<rg(0, 0)>>, 1) = << >>
      BY DEF RemoveAt, rg
    <3> QED
      BY <3>1, FirstFit
  <2>3. symrgtbl' = [symrgtbl EXCEPT ![p][r] = rg(0, 0)]
    BY <1>1, <2>1 DEF get_free_vmrg_area, rg
  <2>4. vm_freerg_list' = [vm_freerg_list EXCEPT ![p] = << >>]
    BY <1>1, <2>1, <2>2 DEF get_free_vmrg_area, rg
  <2> QED
    BY <2>3, <2>4 DEF Regions
<1>2. CASE size # 0
  <2>1. first_fit(p, size) = 0
    BY <1>2, FirstFit
  <2> QED
    BY <2>1 DEF get_free_vmrg_area, Regions
<1> QED
  BY <1>1, <1>2

\* free refuses both kinds of region.
LEMMA NothingValid ==
  ASSUME Regions, NEW p \in Proc, NEW r
  PROVE  ~ ValidRegion(p, r)
BY DEF Regions, ValidRegion, rg, NONE

LEMMA RegionsInit == Init => Regions
BY DEF Init, Regions

LEMMA RegionsStep == Regions /\ [Next]_vars => Regions'
<1> SUFFICES ASSUME Regions, [Next]_vars PROVE Regions'
  OBVIOUS
<1>1. ASSUME UNCHANGED rgVars PROVE Regions'
  BY <1>1 DEF Regions, rgVars
<1>2. ASSUME NEW p \in Proc, NEW r \in RgId, NEW size \in Sizes, liballoc(p, r, size)
      PROVE  Regions'
  <2>1. CASE HasFreeArea(p)
    BY <1>2, <2>1, RegionTaken, PagingAssumption DEF liballoc
  <2>2. CASE ~ HasFreeArea(p)
    BY <1>1, <1>2, <2>2 DEF liballoc
  <2> QED
    BY <2>1, <2>2
<1>3. ASSUME NEW p \in Proc, NEW r \in Named, libfree(p, r)
      PROVE  Regions'
  BY <1>1, <1>3, NothingValid DEF libfree
<1>4. ASSUME NEW p \in Proc, NEW r \in Named, NEW o \in Offsets, libread(p, r, o)
      PROVE  Regions'
  BY <1>1, <1>4 DEF libread
<1>5. ASSUME NEW p \in Proc, NEW r \in Named, NEW o \in Offsets, NEW d \in Data,
             libwrite(p, d, r, o)
      PROVE  Regions'
  BY <1>1, <1>5 DEF libwrite
<1>6. ASSUME NEW p \in Proc, NEW regs \in Request, syscall(p, regs)
      PROVE  UNCHANGED rgVars
  BY <1>6 DEF syscall, sys_memmap, SYSMEM_INC_OP, SYSMEM_SWP_OP, SYSMEM_IO_WRITE,
              sys_killall, vars
<1>7. CASE UNCHANGED vars
  BY <1>1, <1>7 DEF vars
<1> QED
  BY <1>1, <1>2, <1>3, <1>4, <1>5, <1>6, <1>7 DEF Next

\* No sequence of instructions ever gives a symbol a region of at least one byte, so
\* every free fails (libmem.c:142) and no process gets memory back into its list.
THEOREM NothingToFree == Spec => []NoValidRegion
<1>1. Regions => NoValidRegion
  BY NothingValid DEF NoValidRegion
<1> QED
  BY <1>1, RegionsInit, RegionsStep, PTL DEF Spec

-----------------------------------------------------------------------------
(* Isolation *)

\* A frame is on the free list once at most, and until a page is replaced no entry
\* names a frame of the list or one that another entry names.
Apart ==
  /\ mram_free \in Seq(Frame)
  /\ \A j, k \in DOMAIN mram_free : mram_free[j] = mram_free[k] => j = k
  /\ "fault" \notin happened =>
       /\ pgd \in [Proc -> [Page -> Frame \cup {ABSENT}]]
       /\ IsolationUntilFault

\* Frames taken from the head of the list leave a list without them.
LEMMA ListShrinks ==
  ASSUME Apart, NEW n \in Nat, alloc_pages_range(n)
  PROVE  /\ mram_free' \in Seq(Frame)
         /\ \A j, k \in DOMAIN mram_free' : mram_free'[j] = mram_free'[k] => j = k
         /\ \A k \in DOMAIN mram_free' :
              k + n \in DOMAIN mram_free /\ mram_free'[k] = mram_free[k + n]
<1>1. CASE EnoughFrames(n)
  <2>1. mram_free' = SubSeq(mram_free, n + 1, Len(mram_free))
    BY <1>1 DEF alloc_pages_range
  <2>2. /\ mram_free' \in Seq(Frame)
        /\ Len(mram_free') = Len(mram_free) - n
        /\ \A k \in 1 .. Len(mram_free) - n : mram_free'[k] = mram_free[k + n]
    BY <1>1, <2>1 DEF EnoughFrames, Apart
  <2>3. DOMAIN mram_free' = 1 .. Len(mram_free) - n /\ DOMAIN mram_free = 1 .. Len(mram_free)
    BY <2>2 DEF Apart
  <2>4. \A k \in DOMAIN mram_free' :
          k + n \in DOMAIN mram_free /\ mram_free'[k] = mram_free[k + n]
    BY <2>2, <2>3 DEF Apart
  <2>5. \A j, k \in DOMAIN mram_free' : mram_free'[j] = mram_free'[k] => j = k
    <3> SUFFICES ASSUME NEW j \in DOMAIN mram_free', NEW k \in DOMAIN mram_free',
                        mram_free'[j] = mram_free'[k]
                 PROVE  j = k
      OBVIOUS
    <3>1. j + n = k + n
      BY <2>4 DEF Apart
    <3> QED
      BY <2>3, <3>1
  <2> QED
    BY <2>2, <2>4, <2>5
<1>2. CASE ~ EnoughFrames(n)
  BY <1>2 DEF alloc_pages_range
<1> QED
  BY <1>1, <1>2

\* The pages of a grown area get frames that only the free list named.
LEMMA GrowthApart ==
  ASSUME Apart, NEW p \in Proc, NEW addr \in Nat, NEW n \in Nat, EnoughFrames(n),
         alloc_pages_range(n), vmap_page_range(p, addr, n), UNCHANGED happened
  PROVE  Apart'
<1> DEFINE first == PAGING_PGN(addr)
<1>1. first \in Int
  BY PagingAssumption DEF PAGING_PGN
<1>2. DOMAIN mram_free = 1 .. Len(mram_free) /\ n \leq Len(mram_free) /\ Len(mram_free) \in Nat
  BY DEF Apart, EnoughFrames
<1>3. SUFFICES ASSUME "fault" \notin happened'
               PROVE  /\ pgd' \in [Proc -> [Page -> Frame \cup {ABSENT}]]
                      /\ IsolationUntilFault'
  BY ListShrinks DEF Apart
<1>4. /\ pgd \in [Proc -> [Page -> Frame \cup {ABSENT}]]
      /\ \A q \in Proc, m \in Page : pgd[q][m] # ABSENT =>
           /\ \A k \in DOMAIN mram_free : mram_free[k] # pgd[q][m]
           /\ \A r \in Proc, o \in Page : pgd[r][o] = pgd[q][m] => q = r /\ m = o
  BY <1>3 DEF Apart, IsolationUntilFault
<1>5. pgd' = [pgd EXCEPT ![p] = [pgn \in Page |->
                IF pgn \in first .. first + n - 1 THEN mram_free[pgn - first + 1]
                                                  ELSE pgd[p][pgn]]]
  BY <1>4 DEF vmap_page_range
<1>6. \A m \in Page : m \in first .. first + n - 1 =>
        /\ m - first + 1 \in 1 .. n
        /\ m - first + 1 \in DOMAIN mram_free
        /\ mram_free[m - first + 1] \in Frame
  BY <1>1, <1>2 DEF Apart, Page
<1> HIDE DEF first
<1>7. pgd' \in [Proc -> [Page -> Frame \cup {ABSENT}]]
  BY <1>4, <1>5, <1>6
\* An entry is as it was, or has the frame of its own place in the list.
<1> DEFINE New(q, m) == /\ q = p /\ m \in first .. first + n - 1
                        /\ pgd'[q][m] = mram_free[m - first + 1]
<1>8. \A q \in Proc, m \in Page : New(q, m) \/ pgd'[q][m] = pgd[q][m]
  BY <1>4, <1>5
<1>9. \A q \in Proc, m \in Page, k \in DOMAIN mram_free' :
        pgd'[q][m] # ABSENT => mram_free'[k] # pgd'[q][m]
  <2> SUFFICES ASSUME NEW q \in Proc, NEW m \in Page, NEW k \in DOMAIN mram_free',
                      pgd'[q][m] # ABSENT, mram_free'[k] = pgd'[q][m]
               PROVE  FALSE
    OBVIOUS
  <2>1. k \in Nat \ {0} /\ k + n \in DOMAIN mram_free /\ mram_free'[k] = mram_free[k + n]
    <3>1. mram_free' \in Seq(Frame)
      BY ListShrinks
    <3> QED
      BY <3>1, ListShrinks
  <2>2. CASE New(q, m)
    <3>1. m - first + 1 = k + n
      BY <1>6, <2>1, <2>2 DEF Apart
    <3> QED
      BY <1>6, <2>1, <2>2, <3>1
  <2>3. CASE pgd'[q][m] = pgd[q][m]
    BY <1>4, <2>1, <2>3
  <2> QED
    BY <1>8, <2>2, <2>3
<1>10. \A q, r \in Proc, m, o \in Page :
         pgd'[q][m] # ABSENT /\ pgd'[r][o] = pgd'[q][m] => q = r /\ m = o
  <2> SUFFICES ASSUME NEW q \in Proc, NEW r \in Proc, NEW m \in Page, NEW o \in Page,
                      pgd'[q][m] # ABSENT, pgd'[r][o] = pgd'[q][m]
               PROVE  q = r /\ m = o
    OBVIOUS
  <2>1. CASE New(q, m) /\ New(r, o)
    <3>1. m - first + 1 = o - first + 1
      BY <1>6, <2>1 DEF Apart
    <3> QED
      BY <1>1, <2>1, <3>1 DEF Page
  <2>2. CASE New(q, m) /\ pgd'[r][o] = pgd[r][o]
    BY <1>4, <1>6, <2>2
  <2>3. CASE pgd'[q][m] = pgd[q][m] /\ New(r, o)
    BY <1>4, <1>6, <2>3
  <2>4. CASE pgd'[q][m] = pgd[q][m] /\ pgd'[r][o] = pgd[r][o]
    BY <1>4, <2>4
  <2> QED
    BY <1>8, <2>1, <2>2, <2>3, <2>4
<1>11. \A q \in Proc, m \in Page : pgd'[q][m] # ABSENT => pgd'[q][m] \in Frame
  BY <1>7
<1> QED
  BY <1>7, <1>9, <1>10, <1>11 DEF IsolationUntilFault

\* Whatever inc_vma_limit comes to, failure midway included.
LEMMA LimitApart ==
  ASSUME Breaks, Apart, NEW p \in Proc, NEW vmaid, NEW sz \in Nat,
         inc_vma_limit(p, vmaid, sz)
  PROVE  Apart'
<1> DEFINE n == amount(sz) \div PAGESZ
<1>1. n \in Nat /\ vm_end[p] \in Nat
  <2>1. amount(sz) \in Nat
    BY Rounded
  <2> QED
    BY <2>1, PagingAssumption DEF Breaks
<1>2. CASE UNCHANGED <<mram_free, pgVars, happened>>
  BY <1>2 DEF Apart, IsolationUntilFault, pgVars
<1>3. CASE EnoughFrames(n) /\ alloc_pages_range(n) /\ vmap_page_range(p, vm_end[p], n)
           /\ UNCHANGED happened
  BY <1>1, <1>3, GrowthApart
<1>4. CASE ~ EnoughFrames(n) /\ alloc_pages_range(n) /\ UNCHANGED pgVars
           /\ happened' = happened \cup {"short"}
  <2>1. mram_free' = << >>
    BY <1>4 DEF alloc_pages_range
  <2> QED
    BY <1>4, <2>1 DEF Apart, IsolationUntilFault, pgVars
<1> QED
  BY <1>2, <1>3, <1>4 DEF inc_vma_limit

\* An access that replaces a page ends the promise; any other leaves the tables alone.
LEMMA AccessApart ==
  ASSUME Apart, NEW m, Becomes(m), UNCHANGED mram_free
  PROVE  Apart'
<1>1. CASE m.pgd = pgd
  BY <1>1 DEF Becomes, Apart, IsolationUntilFault
<1>2. CASE m.pgd # pgd
  BY <1>2 DEF Becomes, Apart, IsolationUntilFault
<1> QED
  BY <1>1, <1>2

LEMMA ApartInit == Init => Apart
<1> SUFFICES ASSUME Init PROVE Apart
  OBVIOUS
<1>1. mram_free = [k \in 1 .. RAM |-> k - 1] /\ RAM \in Nat
  BY PagingAssumption DEF Init
<1>2. mram_free \in Seq(Frame)
  BY <1>1 DEF Frame
<1>3. \A j, k \in DOMAIN mram_free : mram_free[j] = mram_free[k] => j = k
  BY <1>1
<1>4. /\ pgd \in [Proc -> [Page -> Frame \cup {ABSENT}]]
      /\ \A p \in Proc, n \in Page : pgd[p][n] = ABSENT
  BY DEF Init
<1> QED
  BY <1>2, <1>3, <1>4 DEF Apart, IsolationUntilFault

LEMMA ApartStep == Breaks /\ Apart /\ [Next]_vars => Apart'
<1> SUFFICES ASSUME Breaks, Apart, [Next]_vars PROVE Apart'
  OBVIOUS
<1>1. ASSUME UNCHANGED <<mram_free, pgd>>, happened \subseteq happened' PROVE Apart'
  BY <1>1 DEF Apart, IsolationUntilFault
<1>2. ASSUME NEW p \in Proc, NEW r \in RgId, NEW size \in Sizes, liballoc(p, r, size)
      PROVE  Apart'
  <2>1. CASE HasFreeArea(p)
    BY <1>1, <1>2, <2>1 DEF liballoc, pgVars
  <2>2. CASE ~ HasFreeArea(p)
    <3>1. amount(size) \in Nat
      BY Rounded, PagingAssumption
    <3>2. inc_vma_limit(p, 0, amount(size))
      BY <1>2, <2>2 DEF liballoc
    <3> QED
      BY <3>1, <3>2, LimitApart
  <2> QED
    BY <2>1, <2>2
<1>3. ASSUME NEW p \in Proc, NEW r \in Named, libfree(p, r)
      PROVE  Apart'
  BY <1>1, <1>3 DEF libfree, pgVars, freeVars, history
<1>4. ASSUME NEW p \in Proc, NEW r \in Named, NEW o \in Offsets, libread(p, r, o)
      PROVE  Apart'
  BY <1>4, AccessApart DEF libread
<1>5. ASSUME NEW p \in Proc, NEW r \in Named, NEW o \in Offsets, NEW d \in Data,
             libwrite(p, d, r, o)
      PROVE  Apart'
  BY <1>5, AccessApart DEF libwrite
<1>6. ASSUME NEW p \in Proc, NEW regs \in Request, syscall(p, regs)
      PROVE  Apart'
  <2>1. CASE regs.nr = 17 /\ sys_memmap(p, regs)
    <3>1. CASE regs.a1 = "INC" /\ SYSMEM_INC_OP(p, regs.a2, regs.a3)
      <4>1. regs.a3 \in Sizes
        BY <2>1, <3>1 DEF Request
      <4>2. regs.a3 \in Nat
        BY <4>1, PagingAssumption
      <4> QED
        BY <3>1, <4>2, LimitApart DEF SYSMEM_INC_OP
    <3>2. CASE regs.a1 = "SWP" /\ SYSMEM_SWP_OP(p, regs.a2, regs.a3)
      BY <1>1, <3>2 DEF SYSMEM_SWP_OP, pgVars, freeVars, history
    <3>3. CASE regs.a1 = "IO_WRITE" /\ SYSMEM_IO_WRITE(p, regs.a2, regs.a3)
      BY <1>1, <3>3 DEF SYSMEM_IO_WRITE, pgVars, freeVars
    <3>4. CASE UNCHANGED vars
      BY <1>1, <3>4 DEF vars, pgVars, freeVars, history
    <3> QED
      BY <2>1, <3>1, <3>2, <3>3, <3>4 DEF sys_memmap
  <2>2. CASE sys_killall(p, regs)
    BY <2>2, AccessApart DEF sys_killall
  <2>3. CASE UNCHANGED vars
    BY <1>1, <2>3 DEF vars, pgVars, freeVars, history
  <2> QED
    BY <1>6, <2>1, <2>2, <2>3 DEF syscall
<1>7. CASE UNCHANGED vars
  BY <1>1, <1>7 DEF vars, pgVars, freeVars, history
<1> QED
  BY <1>2, <1>3, <1>4, <1>5, <1>6, <1>7 DEF Next

\* Until the first page is replaced, two entries of the page tables never name one
\* frame, nor does one name a free frame: not after requests that fail midway
\* (mm.c:155), nor after any system call.
THEOREM ProcessesIsolated == Spec => []IsolationUntilFault
<1>1. Breaks /\ Apart => IsolationUntilFault
  BY DEF Apart, IsolationUntilFault
<1> QED
  BY <1>1, BreaksInit, BreaksStep, ApartInit, ApartStep, PTL DEF Spec

-----------------------------------------------------------------------------
(* Where the pages of an area are mapped *)

\* An amount is a whole number of pages.
LEMMA WholePages ==
  ASSUME NEW sz \in Nat
  PROVE  /\ amount(sz) \in Nat /\ amount(sz) \div PAGESZ \in Nat
         /\ amount(sz) = PAGESZ * (amount(sz) \div PAGESZ)
<1> DEFINE q == (sz + PAGESZ - 1) \div PAGESZ
<1>1. PAGESZ \in Nat \ {0} /\ sz + PAGESZ - 1 \in Nat
  BY PagingAssumption
<1>2. q \in Nat
  BY <1>1, Divided
<1>3. amount(sz) = q * PAGESZ
  BY DEF amount, PAGING_PAGE_ALIGNSZ
<1> HIDE DEF q
<1>4. amount(sz) = PAGESZ * q /\ amount(sz) \in Nat
  BY <1>1, <1>2, <1>3
<1>5. amount(sz) < PAGESZ * (q + 1)
  BY <1>1, <1>2, <1>4
<1>6. amount(sz) \div PAGESZ = q
  BY <1>1, <1>2, <1>4, <1>5, QuotientUnique
<1> QED
  BY <1>2, <1>4, <1>6

\* Until a page is replaced, a process has pages only below the end of its area, and
\* has stored nothing in a page it does not have.
Below ==
  "fault" \notin happened =>
    \A p \in Proc, m \in Page : pgd[p][m] # ABSENT => m < vm_end[p] \div PAGESZ

\* A growth: process p gets n pages from the one that holds vm_end.
Growth(p, n) ==
  LET first == vm_end[p] \div PAGESZ
  IN  /\ n \leq Len(mram_free)
      /\ mram_free' = SubSeq(mram_free, n + 1, Len(mram_free))
      /\ pgd' = [pgd EXCEPT ![p] = [m \in Page |->
                   IF m \in first .. first + n - 1 THEN mram_free[m - first + 1]
                                                   ELSE @[m]]]
      /\ vm_end' = [vm_end EXCEPT ![p] = vm_end'[p]]
      /\ first + n \leq vm_end'[p] \div PAGESZ
      /\ vm_end'[p] \div PAGESZ \leq MAX_PGN
      /\ UNCHANGED happened

\* What inc_vma_limit comes to: no page, new pages above all others, or frames lost.
LEMMA LimitGrows ==
  ASSUME Breaks, NEW p \in Proc, NEW vmaid, NEW sz \in Nat, inc_vma_limit(p, vmaid, sz),
         pgd \in [Proc -> [Page -> Page \cup Frame \cup {ABSENT}]]
  PROVE  \/ UNCHANGED <<vm_end, mram_free, pgd, happened>>
         \/ Growth(p, amount(sz) \div PAGESZ)
         \/ /\ UNCHANGED pgd
            /\ \A q \in Proc : vm_end[q] \leq vm_end'[q]
            /\ "short" \in happened' /\ happened \subseteq happened'
<1> DEFINE n == amount(sz) \div PAGESZ
           first == vm_end[p] \div PAGESZ
<1>1. /\ amount(sz) \in Nat /\ n \in Nat /\ amount(sz) = PAGESZ * n
      /\ PAGESZ \in Nat \ {0} /\ MAX_PGN \in Nat \ {0} /\ MAX_BRK \in Nat
  BY WholePages, PagingAssumption
<1>2. vm_end[p] \in Nat /\ bp[p] \in Nat /\ vm_end[p] \leq bp[p]
  BY DEF Breaks
<1>3. bp[p] + amount(sz) \leq MAX_BRK
  BY DEF inc_vma_limit
<1>4. first \in Nat /\ first \leq bp[p] \div PAGESZ /\ bp[p] \div PAGESZ \in Nat
  <2>1. \A x \in Nat : x \div PAGESZ \in Nat
    BY <1>1, Divided
  <2>2. \A x, y \in Nat : x \leq y => x \div PAGESZ \leq y \div PAGESZ
    BY <1>1, QuotientMonotone
  <2> QED
    BY <1>2, <2>1, <2>2
<1>5. (bp[p] + amount(sz)) \div PAGESZ = bp[p] \div PAGESZ + n
  <2>1. \A x, k \in Nat : (x + PAGESZ * k) \div PAGESZ = x \div PAGESZ + k
    BY <1>1, QuotientPlus
  <2>2. (bp[p] + PAGESZ * n) \div PAGESZ = bp[p] \div PAGESZ + n
    BY <1>1, <1>2, <2>1
  <2> QED
    BY <1>1, <2>2
<1>6. (bp[p] + amount(sz)) \div PAGESZ \leq MAX_PGN
  <2>1. MAX_PGN * PAGESZ = PAGESZ * MAX_PGN /\ PAGESZ * MAX_PGN \in Nat
    BY <1>1
  <2>2. (PAGESZ * MAX_PGN) \div PAGESZ = MAX_PGN
    <3>1. PAGESZ * MAX_PGN < PAGESZ * (MAX_PGN + 1)
      BY <1>1
    <3> QED
      BY <1>1, <2>1, <3>1, QuotientUnique
  <2>3. bp[p] + amount(sz) \leq PAGESZ * MAX_PGN
    BY <1>1, <1>2, <1>3, <2>1, PagingAssumption
  <2>4. bp[p] + amount(sz) \in Nat
    BY <1>1, <1>2
  <2>5. (bp[p] + amount(sz)) \div PAGESZ \leq (PAGESZ * MAX_PGN) \div PAGESZ
    BY <1>1, <2>1, <2>3, <2>4, QuotientMonotone
  <2> QED
    BY <2>2, <2>5
<1>7. first + n \leq MAX_PGN
  BY <1>1, <1>4, <1>5, <1>6
<1>8. CASE vmaid # 0
  BY <1>8 DEF inc_vma_limit, pgVars
<1>9. CASE vmaid = 0
  <2>1. ~ Overlaps(p)
    BY <1>2 DEF Overlaps
  <2>2. vm_end' = [vm_end EXCEPT ![p] = bp[p] + amount(sz)]
    BY <1>9, <2>1 DEF inc_vma_limit
  <2>3. vm_end'[p] = bp[p] + amount(sz)
    BY <2>2 DEF Breaks
  <2>4. CASE EnoughFrames(n)
    <3>1. alloc_pages_range(n) /\ vmap_page_range(p, vm_end[p], n) /\ UNCHANGED happened
      BY <1>9, <2>1, <2>4 DEF inc_vma_limit
    <3>2. n \leq Len(mram_free) /\ mram_free' = SubSeq(mram_free, n + 1, Len(mram_free))
      BY <2>4, <3>1 DEF EnoughFrames, alloc_pages_range
    <3>3. n = 0 \/ PAGING_PGN(vm_end[p]) = first
      BY <1>1, <1>4, <1>7 DEF PAGING_PGN
    <3>4. pgd' = [pgd EXCEPT ![p] = [m \in Page |->
                   IF m \in first .. first + n - 1 THEN mram_free[m - first + 1]
                                                   ELSE @[m]]]
      <4> DEFINE start == PAGING_PGN(vm_end[p])
      <4>1. pgd' = [pgd EXCEPT ![p] = [m \in Page |->
                      IF m \in start .. start + n - 1 THEN mram_free[m - start + 1]
                                                      ELSE @[m]]]
        BY <3>1 DEF vmap_page_range
      <4>2. start \in Int
        BY <1>1, <1>4 DEF PAGING_PGN
      <4> HIDE DEF start, n, first
      <4>3. CASE n = 0
        <5>1. start .. start + n - 1 = {} /\ first .. first + n - 1 = {}
          BY <1>4, <4>2, <4>3
        <5> QED
          BY <4>1, <5>1
      <4>4. CASE start = first
        BY <4>1, <4>4
      <4> QED
        BY <3>3, <4>3, <4>4 DEF start
    <3>5. first + n \leq vm_end'[p] \div PAGESZ /\ vm_end'[p] \div PAGESZ \leq MAX_PGN
      BY <1>1, <1>4, <1>5, <1>6, <2>3
    <3>6. vm_end' = [vm_end EXCEPT ![p] = vm_end'[p]]
      BY <2>2, <2>3
    <3> HIDE DEF n, first
    <3>7. Growth(p, n)
      BY <3>1, <3>2, <3>4, <3>5, <3>6 DEF Growth, first
    <3> QED
      BY <3>7 DEF n
  <2>5. CASE ~ EnoughFrames(n)
    <3>1. UNCHANGED pgd /\ happened' = happened \cup {"short"}
      BY <1>9, <2>1, <2>5 DEF inc_vma_limit, pgVars
    <3>2. \A q \in Proc : vm_end[q] \leq vm_end'[q]
      BY <1>1, <1>2, <2>2 DEF Breaks
    <3> QED
      BY <3>1, <3>2
  <2> QED
    BY <2>4, <2>5
<1> QED
  BY <1>8, <1>9

\* A byte is stored through a page table.
Writes(p, pgn, d) ==
  /\ pgd[p][pgn] # ABSENT
  /\ mram' = Stored(mram, pgd[p][pgn], d)
  /\ shadow' = [shadow EXCEPT ![p][pgn] = d]

\* A step that leaves tables and free list alone, with what it may do to bytes.
Quiet ==
  /\ UNCHANGED <<vm_end, pgd, mram_free>> /\ happened \subseteq happened'
  /\ \/ UNCHANGED <<mram, shadow>>
     \/ \E p \in Proc, pgn \in Page, d \in Data : Writes(p, pgn, d)
     \/ /\ "raw" \in happened' /\ UNCHANGED shadow
        /\ \E f \in Frame, d \in Data : mram' = Stored(mram, f, d)

\* A page is replaced in this step or was in an earlier one.
Faults == "fault" \in happened'

\* A step that moves the limits of an area.
Limit ==
  /\ \E p \in Proc, vmaid \in {0, 1}, sz \in Nat : inc_vma_limit(p, vmaid, sz)
  /\ UNCHANGED <<mram, shadow>>

\* An access that changes a page table has replaced a page (libmem.c:231).
LEMMA AccessKinds ==
  ASSUME NEW m, Becomes(m)
  PROVE  happened \subseteq happened' /\ (UNCHANGED pgd \/ Faults)
<1>1. CASE m.pgd = pgd
  BY <1>1 DEF Becomes
<1>2. CASE m.pgd # pgd
  BY <1>2 DEF Becomes, Faults
<1> QED
  BY <1>1, <1>2

\* PAGING_PGN (mm.h:93) takes bits of an address: what is left is a page number.
LEMMA PageOf ==
  ASSUME NEW a \in Int
  PROVE  PAGING_PGN(a) \in Page
<1>1. PAGESZ \in Nat \ {0} /\ MAX_PGN \in Nat \ {0}
  BY PagingAssumption
<1>2. a \div PAGESZ \in Int
  BY <1>1
<1> QED
  BY <1>1, <1>2 DEF PAGING_PGN, Page

\* The operand of an instruction is on some page, allocated or not.
LEMMA OperandIsPage ==
  ASSUME Regions, NEW p \in Proc, NEW r \in RgId, NEW o \in Nat
  PROVE  Operand(p, r, o) \in Page
<1>1. symrgtbl[p][r] \in {rg(0, 0), rg(NONE, NONE)}
  BY DEF Regions
<1>2. symrgtbl[p][r].rg_start + o \in Int
  BY <1>1 DEF rg, NONE
<1> QED
  BY <1>2, PageOf DEF Operand

\* Whatever a process asks for is one of these three.
LEMMA StepKinds ==
  ASSUME Regions, [Next]_vars
  PROVE  Quiet \/ Faults \/ Limit
<1>1. ASSUME UNCHANGED <<vm_end, pgd, mram_free, mram, shadow>>, happened \subseteq happened'
      PROVE  Quiet
  BY <1>1 DEF Quiet
<1>2. ASSUME NEW p \in Proc, NEW r \in RgId, NEW size \in Sizes, liballoc(p, r, size)
      PROVE  Quiet \/ Limit
  <2>1. CASE HasFreeArea(p)
    BY <1>1, <1>2, <2>1 DEF liballoc, areaVars, pgVars, dataVars
  <2>2. CASE ~ HasFreeArea(p)
    <3>1. amount(size) \in Nat
      BY Rounded, PagingAssumption
    <3>2. inc_vma_limit(p, 0, amount(size)) /\ UNCHANGED <<mram, shadow>>
      BY <1>2, <2>2 DEF liballoc, dataVars
    <3> QED
      BY <3>1, <3>2 DEF Limit
  <2> QED
    BY <2>1, <2>2
<1>3. ASSUME NEW p \in Proc, NEW r \in Named, libfree(p, r)
      PROVE  Quiet
  BY <1>1, <1>3 DEF libfree, areaVars, pgVars, freeVars, dataVars, history
<1>4. ASSUME NEW p \in Proc, NEW r \in Named, NEW o \in Offsets, libread(p, r, o)
      PROVE  Quiet \/ Faults
  <2>1. PICK m : Becomes(m)
    BY <1>4 DEF libread
  <2>2. UNCHANGED <<vm_end, mram_free, mram, shadow>>
    BY <1>4 DEF libread, areaVars
  <2> QED
    BY <1>1, <2>1, <2>2, AccessKinds
<1>5. ASSUME NEW p \in Proc, NEW r \in Named, NEW o \in Offsets, NEW d \in Data,
             libwrite(p, d, r, o)
      PROVE  Quiet \/ Faults
  <2> DEFINE pgn == Operand(p, r, o)
  <2>1. PICK m : Becomes(m)
    BY <1>5 DEF libwrite
  <2>2. UNCHANGED <<vm_end, mram_free>>
    BY <1>5 DEF libwrite, areaVars
  <2>3. happened \subseteq happened' /\ (UNCHANGED pgd \/ Faults)
    BY <2>1, AccessKinds
  <2>4. CASE UNCHANGED pgd
    <3>1. CASE UNCHANGED <<mram, shadow>>
      BY <1>1, <2>2, <2>3, <2>4, <3>1
    <3>2. CASE ~ (UNCHANGED <<mram, shadow>>)
      <4>1. /\ r \in RgId /\ pgd'[p][pgn] # ABSENT
            /\ mram' = Stored(mram, pgd'[p][pgn], d)
            /\ shadow' = [shadow EXCEPT ![p][pgn] = d]
        BY <1>5, <3>2 DEF libwrite
      <4>2. pgn \in Page
        BY <4>1, OperandIsPage, PagingAssumption
      <4>3. Writes(p, pgn, d)
        BY <2>4, <4>1 DEF Writes
      <4> QED
        BY <2>2, <2>3, <2>4, <4>2, <4>3 DEF Quiet
    <3> QED
      BY <3>1, <3>2
  <2> QED
    BY <2>3, <2>4
<1>6. ASSUME NEW p \in Proc, NEW regs \in Request, syscall(p, regs)
      PROVE  Quiet \/ Faults \/ Limit
  <2>1. CASE regs.nr = 17 /\ sys_memmap(p, regs)
    <3>1. CASE regs.a1 = "INC" /\ SYSMEM_INC_OP(p, regs.a2, regs.a3)
      <4>1. regs.a2 \in {0, 1} /\ regs.a3 \in Sizes
        BY <2>1, <3>1 DEF Request
      <4>2. regs.a3 \in Nat
        BY <4>1, PagingAssumption
      <4> QED
        BY <3>1, <4>1, <4>2 DEF SYSMEM_INC_OP, dataVars, Limit
    <3>2. CASE regs.a1 = "SWP" /\ SYSMEM_SWP_OP(p, regs.a2, regs.a3)
      BY <1>1, <3>2 DEF SYSMEM_SWP_OP, areaVars, pgVars, freeVars, history
    <3>3. CASE regs.a1 = "IO_WRITE" /\ SYSMEM_IO_WRITE(p, regs.a2, regs.a3)
      <4>1. regs.a2 \in Frame /\ regs.a3 \in Data
        BY <2>1, <3>3 DEF Request
      <4> QED
        BY <3>3, <4>1 DEF SYSMEM_IO_WRITE, areaVars, pgVars, freeVars, Quiet
    <3>4. CASE UNCHANGED vars
      BY <1>1, <3>4 DEF vars, areaVars, pgVars, freeVars, dataVars, history
    <3> QED
      BY <2>1, <3>1, <3>2, <3>3, <3>4 DEF sys_memmap
  <2>2. CASE sys_killall(p, regs)
    <3>1. PICK m : Becomes(m)
      BY <2>2 DEF sys_killall
    <3>2. UNCHANGED <<vm_end, mram_free, mram, shadow>>
      BY <2>2 DEF sys_killall, areaVars
    <3> QED
      BY <1>1, <3>1, <3>2, AccessKinds
  <2>3. CASE UNCHANGED vars
    BY <1>1, <2>3 DEF vars, areaVars, pgVars, freeVars, dataVars, history
  <2> QED
    BY <1>6, <2>1, <2>2, <2>3 DEF syscall
<1>7. CASE UNCHANGED vars
  BY <1>1, <1>7 DEF vars, areaVars, pgVars, freeVars, dataVars, history
<1> QED
  BY <1>2, <1>3, <1>4, <1>5, <1>6, <1>7 DEF Next

-----------------------------------------------------------------------------
(* Frames and bytes *)

\* A new page is mapped where the process had none.
LEMMA NewPages ==
  ASSUME Apart, Below, "fault" \notin happened, NEW p \in Proc, NEW n \in Nat,
         vm_end[p] \in Nat, vm_end'[p] \in Nat, Growth(p, n)
  PROVE  /\ pgd' \in [Proc -> [Page -> Frame \cup {ABSENT}]]
         /\ \A q \in Proc, m \in Page :
              \/ pgd'[q][m] = pgd[q][m]
              \/ pgd[q][m] = ABSENT /\ pgd'[q][m] \in Frame
         /\ \A q \in Proc, m \in Page :
              pgd'[q][m] # pgd[q][m] => q = p /\ m < vm_end'[p] \div PAGESZ
         /\ vm_end[p] \div PAGESZ \leq vm_end'[p] \div PAGESZ
         /\ \A k \in 1 .. n : \E m \in Page : pgd'[p][m] = mram_free[k]
<1> DEFINE first == vm_end[p] \div PAGESZ
           last  == vm_end'[p] \div PAGESZ
<1>1. first \in Nat /\ last \in Nat /\ MAX_PGN \in Nat
  BY Divided, PagingAssumption
<1>2. /\ n \leq Len(mram_free) /\ first + n \leq last /\ last \leq MAX_PGN
      /\ pgd' = [pgd EXCEPT ![p] = [m \in Page |->
                   IF m \in first .. first + n - 1 THEN mram_free[m - first + 1]
                                                   ELSE @[m]]]
  BY DEF Growth
<1>3. /\ pgd \in [Proc -> [Page -> Frame \cup {ABSENT}]]
      /\ \A q \in Proc, m \in Page : pgd[q][m] # ABSENT => m < vm_end[q] \div PAGESZ
      /\ mram_free \in Seq(Frame)
  BY DEF Apart, Below
<1>4. \A m \in Page : pgd[p][m] # ABSENT => m < first
  BY <1>3
<1> HIDE DEF first, last
<1>5. \A k \in 1 .. Len(mram_free) : mram_free[k] \in Frame
  BY <1>3
<1>6. Len(mram_free) \in Nat
  BY <1>3
<1>7. \A m \in Page : m \in first .. first + n - 1 =>
        m - first + 1 \in 1 .. n /\ m - first + 1 \in 1 .. Len(mram_free)
  BY <1>1, <1>2, <1>6 DEF Page
<1>8. \A m \in Page :
        pgd'[p][m] = IF m \in first .. first + n - 1 THEN mram_free[m - first + 1]
                                                     ELSE pgd[p][m]
  BY <1>2, <1>3
<1>9. \A q \in Proc : q # p => pgd'[q] = pgd[q]
  BY <1>2, <1>3
<1>10. \A m \in Page :
         \/ pgd'[p][m] = pgd[p][m]
         \/ m \in first .. first + n - 1 /\ pgd[p][m] = ABSENT /\ pgd'[p][m] \in Frame
  <2> SUFFICES ASSUME NEW m \in Page, m \in first .. first + n - 1
               PROVE  pgd[p][m] = ABSENT /\ pgd'[p][m] \in Frame
    BY <1>8
  <2>1. pgd'[p][m] \in Frame
    BY <1>5, <1>7, <1>8
  <2>2. ~ (m < first)
    BY <1>1
  <2> QED
    BY <1>4, <2>1, <2>2
<1>11. pgd' \in [Proc -> [Page -> Frame \cup {ABSENT}]]
  <2> DEFINE T == Frame \cup {ABSENT}
  <2>1. \A q \in Proc, m \in Page : pgd'[q][m] \in T
    BY <1>3, <1>9, <1>10
  <2>2. pgd' = [pgd EXCEPT ![p] = pgd'[p]] /\ pgd'[p] = [m \in Page |-> pgd'[p][m]]
    BY <1>2, <1>3
  <2>3. pgd'[p] \in [Page -> T]
    BY <2>1, <2>2
  <2> QED
    BY <1>3, <2>2, <2>3
<1>12. ASSUME NEW m \in Page, pgd'[p][m] # pgd[p][m]
       PROVE  m < last
  <2>1. m \in first .. first + n - 1 /\ first + n \leq last
    BY <1>2, <1>10, <1>12
  <2>2. m + 1 \leq first + n /\ m \in Int
    BY <1>1, <2>1
  <2> QED
    BY <1>1, <2>1, <2>2
<1>13. \A q \in Proc, m \in Page : pgd'[q][m] # pgd[q][m] => q = p /\ m < last
  BY <1>9, <1>12
<1>14. first \leq last
  BY <1>1, <1>2
<1>15. ASSUME NEW k \in 1 .. n PROVE \E m \in Page : pgd'[p][m] = mram_free[k]
  <2> DEFINE m == first + k - 1
  <2>1. m \in Page /\ m \in first .. first + n - 1 /\ m - first + 1 = k
    BY <1>1, <1>2 DEF Page
  <2> HIDE DEF m
  <2>2. pgd'[p][m] = mram_free[k]
    BY <1>8, <2>1
  <2> QED
    BY <2>1, <2>2
<1>16. \A q \in Proc, m \in Page :
         \/ pgd'[q][m] = pgd[q][m]
         \/ pgd[q][m] = ABSENT /\ pgd'[q][m] \in Frame
  BY <1>9, <1>10
<1> QED
  BY <1>11, <1>13, <1>14, <1>15, <1>16 DEF first, last

\* Everything that is known of where areas and tables are.
Placed == Breaks /\ Regions /\ Apart /\ Below

\* The three outcomes of a step that is neither quiet nor replaces a page.
LEMMA LimitKinds ==
  ASSUME Placed, Breaks', Limit, "fault" \notin happened'
  PROVE  \/ UNCHANGED <<pgd, mram_free, vm_end, happened>>
         \/ \E p \in Proc, n \in Nat : Growth(p, n)
         \/ /\ UNCHANGED pgd
            /\ \A q \in Proc : vm_end[q] \leq vm_end'[q]
            /\ "short" \in happened' /\ happened \subseteq happened'
<1>1. PICK p \in Proc, vmaid \in {0, 1}, sz \in Nat : inc_vma_limit(p, vmaid, sz)
  BY DEF Limit
<1>2. "fault" \notin happened
  BY <1>1 DEF inc_vma_limit
<1>3. pgd \in [Proc -> [Page -> Page \cup Frame \cup {ABSENT}]]
  BY <1>2 DEF Placed, Apart
<1>4. amount(sz) \div PAGESZ \in Nat
  BY WholePages
<1> QED
  BY <1>1, <1>3, <1>4, LimitGrows DEF Placed

\* At first no process has a page.
LEMMA BelowInit == Init => Below
BY DEF Init, Below

\* A growth maps below the new end, and no step moves an end back.
LEMMA BelowStep == Placed /\ Breaks' /\ [Next]_vars => Below'
<1> SUFFICES ASSUME Placed, Breaks', [Next]_vars, "fault" \notin happened',
                    NEW q \in Proc, NEW m \in Page, pgd'[q][m] # ABSENT
             PROVE  m < vm_end'[q] \div PAGESZ
  BY DEF Below
<1>1. vm_end \in [Proc -> Nat] /\ vm_end' \in [Proc -> Nat]
  BY DEF Placed, Breaks
<1>2. Quiet \/ Limit
  BY StepKinds DEF Placed, Faults
<1>3. ASSUME UNCHANGED <<pgd, vm_end>>, happened \subseteq happened'
      PROVE  m < vm_end'[q] \div PAGESZ
  BY <1>3 DEF Placed, Below
<1>4. CASE Quiet
  BY <1>3, <1>4 DEF Quiet
<1>5. ASSUME NEW p \in Proc, NEW n \in Nat, Growth(p, n)
      PROVE  m < vm_end'[q] \div PAGESZ
  <2>1. "fault" \notin happened
    BY <1>5 DEF Growth
  <2>2. /\ pgd'[q][m] # pgd[q][m] => q = p /\ m < vm_end'[p] \div PAGESZ
        /\ vm_end[p] \div PAGESZ \leq vm_end'[p] \div PAGESZ
    BY <1>1, <1>5, <2>1, NewPages DEF Placed
  <2>3. q # p => vm_end'[q] = vm_end[q]
    BY <1>1, <1>5 DEF Growth
  <2>4. pgd[q][m] # ABSENT => m < vm_end[q] \div PAGESZ
    BY <2>1 DEF Placed, Below
  <2>5. m \in Int /\ \A r \in Proc : vm_end[r] \div PAGESZ \in Int /\ vm_end'[r] \div PAGESZ \in Int
    BY <1>1, PagingAssumption DEF Page
  <2> QED
    BY <2>2, <2>3, <2>4, <2>5
<1>6. ASSUME UNCHANGED pgd, vm_end[q] \leq vm_end'[q], happened \subseteq happened'
      PROVE  m < vm_end'[q] \div PAGESZ
  <2>1. m < vm_end[q] \div PAGESZ
    BY <1>6 DEF Placed, Below
  <2>2. vm_end[q] \div PAGESZ \leq vm_end'[q] \div PAGESZ
    BY <1>1, <1>6, PagingAssumption, QuotientMonotone
  <2>3. m \in Int /\ vm_end[q] \div PAGESZ \in Int /\ vm_end'[q] \div PAGESZ \in Int
    BY <1>1, PagingAssumption DEF Page
  <2> QED
    BY <2>1, <2>2, <2>3
<1>7. CASE Limit
  BY <1>3, <1>5, <1>6, <1>7, LimitKinds
<1> QED
  BY <1>2, <1>4, <1>7

\* Areas and tables are always where Placed says.
LEMMA PlacedAlways == Spec => []Placed
<1>1. Init => Placed
  BY BreaksInit, RegionsInit, ApartInit, BelowInit DEF Placed
<1>2. Placed /\ [Next]_vars => Placed'
  <2>1. Placed /\ [Next]_vars => Breaks' /\ Regions' /\ Apart'
    BY BreaksStep, RegionsStep, ApartStep DEF Placed
  <2> QED
    BY <2>1, BelowStep DEF Placed
<1> QED
  BY <1>1, <1>2, PTL DEF Spec

\* The frames a growth takes off the list are the ones it maps.
LEMMA NoFrameLostStep == Placed /\ Placed' /\ NoFrameLost /\ [Next]_vars => NoFrameLost'
<1> SUFFICES ASSUME Placed, Placed', NoFrameLost, [Next]_vars,
                    "fault" \notin happened', "short" \notin happened', NEW f \in Frame
             PROVE  \/ \E k \in DOMAIN mram_free' : mram_free'[k] = f
                    \/ \E p \in Proc, m \in Page : pgd'[p][m] = f
  BY DEF NoFrameLost
<1>1. Quiet \/ Limit
  BY StepKinds DEF Placed, Faults
<1>2. ASSUME "fault" \notin happened, "short" \notin happened
      PROVE  \/ \E k \in DOMAIN mram_free : mram_free[k] = f
             \/ \E p \in Proc, m \in Page : pgd[p][m] = f
  BY <1>2 DEF NoFrameLost
<1>3. CASE UNCHANGED <<pgd, mram_free>> /\ happened \subseteq happened'
  BY <1>2, <1>3
<1>4. ASSUME NEW p \in Proc, NEW n \in Nat, Growth(p, n)
      PROVE  \/ \E k \in DOMAIN mram_free' : mram_free'[k] = f
             \/ \E q \in Proc, m \in Page : pgd'[q][m] = f
  <2>1. "fault" \notin happened /\ "short" \notin happened
    BY <1>4 DEF Growth
  <2>2. /\ \A q \in Proc, m \in Page :
             pgd'[q][m] = pgd[q][m] \/ (pgd[q][m] = ABSENT /\ pgd'[q][m] \in Frame)
        /\ \A k \in 1 .. n : \E m \in Page : pgd'[p][m] = mram_free[k]
    BY <1>4, <2>1, NewPages DEF Placed, Breaks
  <2>3. f # ABSENT
    BY DEF Frame, ABSENT
  <2>4. CASE \E q \in Proc, m \in Page : pgd[q][m] = f
    BY <2>2, <2>3, <2>4
  <2>5. CASE \E k \in DOMAIN mram_free : mram_free[k] = f
    <3>1. PICK k \in DOMAIN mram_free : mram_free[k] = f
      BY <2>5
    <3>2. /\ mram_free \in Seq(Frame) /\ n \leq Len(mram_free)
          /\ mram_free' = SubSeq(mram_free, n + 1, Len(mram_free))
      BY <1>4 DEF Growth, Placed, Apart
    <3>3. k \in 1 .. Len(mram_free) /\ Len(mram_free) \in Nat
      BY <3>1, <3>2
    <3>4. CASE k \leq n
      <4>1. k \in 1 .. n
        BY <3>3, <3>4
      <4> QED
        BY <2>2, <3>1, <4>1
    <3>5. CASE ~ (k \leq n)
      <4>1. /\ DOMAIN mram_free' = 1 .. Len(mram_free) - n
            /\ \A j \in 1 .. Len(mram_free) - n : mram_free'[j] = mram_free[j + n]
        BY <3>2
      <4>2. k - n \in 1 .. Len(mram_free) - n /\ k - n + n = k
        BY <3>3, <3>5
      <4> QED
        BY <3>1, <4>1, <4>2
    <3> QED
      BY <3>4, <3>5
  <2> QED
    BY <1>2, <2>1, <2>4, <2>5
<1>5. CASE Quiet
  BY <1>3, <1>5 DEF Quiet
<1>6. CASE Limit
  <2>1. \/ UNCHANGED <<pgd, mram_free, happened>>
        \/ \E p \in Proc, n \in Nat : Growth(p, n)
    BY <1>6, LimitKinds DEF Placed
  <2> QED
    BY <1>3, <1>4, <2>1
<1> QED
  BY <1>1, <1>5, <1>6

\* As long as every request for frames is met and no page is replaced, each frame is on
\* the free list or in a page table: growing an area maps all frames it takes
\* (mm.c:155), and maps them over none that was mapped before (mm-vm.c:161).
THEOREM FramesKept == Spec => []NoFrameLost
<1>1. Init => NoFrameLost
  <2> SUFFICES ASSUME Init, NEW f \in Frame
               PROVE  \E k \in DOMAIN mram_free : mram_free[k] = f
    BY DEF NoFrameLost
  <2>1. mram_free = [k \in 1 .. RAM |-> k - 1] /\ RAM \in Nat
    BY PagingAssumption DEF Init
  <2>2. f + 1 \in 1 .. RAM /\ (f + 1) - 1 = f
    BY <2>1 DEF Frame
  <2> QED
    BY <2>1, <2>2
<1> QED
  BY <1>1, PlacedAlways, NoFrameLostStep, PTL DEF Spec

-----------------------------------------------------------------------------
(* Stored bytes *)

\* A page a process does not have holds nothing of its own; one it has, what it stored.
Kept ==
  "fault" \notin happened =>
    /\ mram \in [Frame -> Data] /\ shadow \in [Proc -> [Page -> Data]]
    /\ \A p \in Proc, m \in Page : pgd[p][m] = ABSENT => shadow[p][m] = NoData
    /\ "raw" \notin happened =>
         \A p \in Proc, m \in Page : pgd[p][m] # ABSENT /\ shadow[p][m] # NoData =>
                                       mram[pgd[p][m]] = shadow[p][m]

\* At first nothing is stored.
LEMMA KeptInit == Init => Kept
<1> SUFFICES ASSUME Init PROVE Kept
  OBVIOUS
<1>1. NoData \in Data
  BY PagingAssumption
<1>2. mram = [f \in Frame |-> NoData] /\ shadow = [p \in Proc |-> [n \in Page |-> NoData]]
  BY DEF Init
<1> QED
  BY <1>1, <1>2 DEF Kept

\* A byte stored in a page changes the contents of no other.
LEMMA WriteKeeps ==
  ASSUME Placed, Kept, "fault" \notin happened, UNCHANGED pgd, happened \subseteq happened',
         NEW p \in Proc, NEW pgn \in Page, NEW d \in Data, Writes(p, pgn, d)
  PROVE  Kept'
<1>1. /\ mram \in [Frame -> Data] /\ shadow \in [Proc -> [Page -> Data]]
      /\ pgd \in [Proc -> [Page -> Frame \cup {ABSENT}]]
  BY DEF Kept, Placed, Apart
<1>2. /\ pgd[p][pgn] \in Frame
      /\ mram' = [mram EXCEPT ![pgd[p][pgn]] = d]
      /\ shadow' = [shadow EXCEPT ![p][pgn] = d]
  BY <1>1 DEF Writes, Stored
<1>3. mram' \in [Frame -> Data] /\ shadow' \in [Proc -> [Page -> Data]]
  BY <1>1, <1>2
<1>4. \A q \in Proc, m \in Page :
        IF q = p /\ m = pgn THEN shadow'[q][m] = d /\ mram'[pgd[q][m]] = d
                            ELSE shadow'[q][m] = shadow[q][m]
  BY <1>1, <1>2
<1>5. \A q \in Proc, m \in Page :
        pgd[q][m] # ABSENT /\ ~ (q = p /\ m = pgn) => mram'[pgd[q][m]] = mram[pgd[q][m]]
  <2> SUFFICES ASSUME NEW q \in Proc, NEW m \in Page, pgd[q][m] # ABSENT,
                      ~ (q = p /\ m = pgn)
               PROVE  mram'[pgd[q][m]] = mram[pgd[q][m]]
    OBVIOUS
  <2>1. pgd[p][pgn] # ABSENT
    BY DEF Writes
  <2>2. pgd[q][m] # pgd[p][pgn]
    BY <2>1 DEF Placed, Apart, IsolationUntilFault
  <2>3. pgd[q][m] \in Frame
    BY <1>1
  <2> QED
    BY <1>1, <1>2, <2>2, <2>3
<1>6. \A q \in Proc, m \in Page : pgd'[q][m] = ABSENT => shadow'[q][m] = NoData
  BY <1>2, <1>4 DEF Kept, Writes
<1>7. ASSUME "raw" \notin happened', NEW q \in Proc, NEW m \in Page,
             pgd'[q][m] # ABSENT, shadow'[q][m] # NoData
      PROVE  mram'[pgd'[q][m]] = shadow'[q][m]
  <2>1. "raw" \notin happened
    BY <1>7
  <2>2. CASE q = p /\ m = pgn
    BY <1>4, <2>2
  <2>3. CASE ~ (q = p /\ m = pgn)
    <3>1. mram[pgd[q][m]] = shadow[q][m]
      BY <1>4, <1>7, <2>1, <2>3 DEF Kept
    <3> QED
      BY <1>4, <1>5, <1>7, <2>3, <3>1
  <2> QED
    BY <2>2, <2>3
<1> QED
  BY <1>3, <1>6, <1>7 DEF Kept

\* Short of a replacement and of raw writes no step loses a byte.
LEMMA KeptStep == Placed /\ Placed' /\ Kept /\ [Next]_vars => Kept'
<1> SUFFICES ASSUME Placed, Placed', Kept, [Next]_vars, "fault" \notin happened'
             PROVE  Kept'
  BY DEF Kept
<1>1. Quiet \/ Limit
  BY StepKinds DEF Placed, Faults
<1>2. ASSUME UNCHANGED <<pgd, mram, shadow>>, happened \subseteq happened' PROVE Kept'
  BY <1>2 DEF Kept
<1>3. CASE Quiet
  <2>1. UNCHANGED pgd /\ happened \subseteq happened' /\ "fault" \notin happened
    BY <1>3 DEF Quiet
  <2>2. ASSUME NEW f \in Frame, NEW d \in Data, mram' = Stored(mram, f, d),
               "raw" \in happened', UNCHANGED shadow
        PROVE  Kept'
    <3>1. mram' \in [Frame -> Data]
      BY <2>1, <2>2 DEF Kept, Stored
    <3> QED
      BY <2>1, <2>2, <3>1 DEF Kept
  <2> QED
    BY <1>2, <1>3, <2>1, <2>2, WriteKeeps DEF Quiet
<1>4. ASSUME NEW p \in Proc, NEW n \in Nat, Growth(p, n), UNCHANGED <<mram, shadow>>
      PROVE  Kept'
  <2>1. UNCHANGED happened /\ "fault" \notin happened
    BY <1>4 DEF Growth
  <2>2. \A q \in Proc, m \in Page :
          pgd'[q][m] = pgd[q][m] \/ (pgd[q][m] = ABSENT /\ pgd'[q][m] \in Frame)
    BY <1>4, <2>1, NewPages DEF Placed, Breaks
  <2>3. ABSENT \notin Frame
    BY DEF Frame, ABSENT
  <2> QED
    BY <1>4, <2>1, <2>2, <2>3 DEF Kept
<1>5. CASE Limit
  <2>1. UNCHANGED <<mram, shadow>>
    BY <1>5 DEF Limit
  <2>2. \/ UNCHANGED pgd /\ happened \subseteq happened'
        \/ \E p \in Proc, n \in Nat : Growth(p, n)
    BY <1>5, LimitKinds DEF Placed
  <2> QED
    BY <1>2, <1>4, <2>1, <2>2
<1> QED
  BY <1>1, <1>3, <1>5

\* Up to the first replacement a process finds in each of its pages what it last stored
\* there (libmem.c:291), however areas grow and whatever other processes store.
THEOREM BytesKept == Spec => []DataKeptUntilFault
<1>1. Placed /\ Kept => DataKeptUntilFault
  <2> SUFFICES ASSUME Placed, Kept, "fault" \notin happened, "raw" \notin happened,
                      NEW p \in Proc, NEW n \in Page,
                      pgd[p][n] # ABSENT, shadow[p][n] # NoData
               PROVE  pgd[p][n] \in Frame /\ mram[pgd[p][n]] = shadow[p][n]
    BY DEF DataKeptUntilFault, DataKept
  <2> QED
    BY DEF Placed, Apart, Kept
<1> QED
  BY <1>1, PlacedAlways, KeptInit, KeptStep, PTL DEF Spec

-----------------------------------------------------------------------------
(* Types *)

\* The frames of the swap device.
Swap == 0 .. SWP - 1

\* What a page access works on.
Memories == [pgd : [Proc -> [Page -> Page \cup Frame \cup {ABSENT}]],
             fifo_pgn : [Proc -> Seq(Page)],
             mswp_free : Seq(Swap),
             mswp : [Swap -> Data]]

\* A page access, successful or not, leaves a memory of the same kind.
LEMMA AccessTyped ==
  ASSUME NEW m \in Memories, NEW p \in Proc, NEW pgn \in Page, mram \in [Frame -> Data]
  PROVE  pg_getpage(m, p, pgn) \subseteq Memories
<1> DEFINE v == Head(m.fifo_pgn[p])
           failed == [m EXCEPT !.fifo_pgn[p] = Tail(@)]
           result(d) == [failed EXCEPT !.mswp_free = Tail(@),
                           !.mswp = Stored(Stored(@, Head(m.mswp_free), d), v, mram[0]),
                           !.pgd[p][pgn] = v]
<1>1. CASE m.pgd[p][pgn] # ABSENT \/ m.fifo_pgn[p] = << >>
  BY <1>1 DEF pg_getpage
<1>2. CASE ~ (m.pgd[p][pgn] # ABSENT \/ m.fifo_pgn[p] = << >>)
  <2>1. m.fifo_pgn[p] \in Seq(Page) /\ m.fifo_pgn[p] # << >>
    BY <1>2 DEF Memories
  <2>2. v \in Page /\ Tail(m.fifo_pgn[p]) \in Seq(Page)
    BY <2>1
  <2> HIDE DEF v
  <2>3. failed \in Memories
    BY <2>2 DEF Memories
  <2>4. /\ failed.mswp_free = m.mswp_free /\ failed.mswp = m.mswp /\ failed.pgd = m.pgd
    BY DEF Memories
  <2> HIDE DEF failed
  <2>5. CASE m.mswp_free = << >>
    BY <1>2, <2>3, <2>5 DEF pg_getpage, failed
  <2>6. CASE m.mswp_free # << >>
    <3>1. ASSUME NEW d \in Data PROVE result(d) \in Memories
      <4>1. mram[0] \in Data
        <5>1. 0 \in Frame
          BY PagingAssumption DEF Frame
        <5> QED
          BY <5>1
      <4>2. Stored(Stored(m.mswp, Head(m.mswp_free), d), v, mram[0]) \in [Swap -> Data]
        BY <4>1 DEF Stored, Memories
      <4>3. Tail(m.mswp_free) \in Seq(Swap)
        BY <2>6 DEF Memories
      <4>4. [m.pgd EXCEPT ![p][pgn] = v] \in [Proc -> [Page -> Page \cup Frame \cup {ABSENT}]]
        BY <2>2 DEF Memories
      <4>5. result(d) = [failed EXCEPT !.mswp_free = Tail(m.mswp_free),
                           !.mswp = Stored(Stored(m.mswp, Head(m.mswp_free), d), v, mram[0]),
                           !.pgd = [m.pgd EXCEPT ![p][pgn] = v]]
        BY <2>3, <2>4 DEF Memories
      <4> QED
        BY <2>3, <4>2, <4>3, <4>4, <4>5 DEF Memories
    <3>2. Found(mram, v) \subseteq Data
      BY DEF Found
    <3>3. pg_getpage(m, p, pgn) = {result(d) : d \in Found(mram, v)}
      BY <1>2, <2>6 DEF pg_getpage, failed, v
    <3> QED
      BY <3>1, <3>2, <3>3
  <2> QED
    BY <2>5, <2>6
<1> QED
  BY <1>1, <1>2

\* The read of one byte of a region (libmem.c:245) does too.
LEMMA ReadTyped ==
  ASSUME Regions, mram \in [Frame -> Data],
         NEW m \in Memories, NEW p \in Proc, NEW r, NEW o \in Nat
  PROVE  Read(m, p, r, o) \subseteq Memories
BY OperandIsPage, AccessTyped DEF Read

\* So do the reads of a name, one after the other.
LEMMA AllReadsTyped ==
  ASSUME Regions, mram \in [Frame -> Data], Memory \in Memories,
         NEW p \in Proc, NEW r
  PROVE  AfterReads(p, r) \subseteq Memories
<1> DEFINE S == SUBSET Memories
           G == [i \in 1 .. NAME |-> [A \in S |-> UNION {Read(m, p, r, i - 1) : m \in A}]]
           Body(g) == [i \in 0 .. NAME |->
                         IF i = 0 THEN {Memory}
                                  ELSE UNION {Read(m, p, r, i - 1) : m \in g[i - 1]}]
           after == CHOOSE g : g = Body(g)
<1>1. NAME \in Nat
  BY PagingAssumption
<1>2. IsSteps(G, NAME, S)
  <2> SUFFICES ASSUME NEW i \in 1 .. NAME, NEW A \in S
               PROVE  UNION {Read(m, p, r, i - 1) : m \in A} \in S
    BY DEF IsSteps
  <2>1. i - 1 \in Nat
    BY <1>1
  <2> QED
    BY <2>1, ReadTyped
<1>3. {Memory} \in S
  OBVIOUS
<1>4. PICK f \in [0 .. NAME -> S] :
        f[0] = {Memory} /\ \A i \in 1 .. NAME : f[i] = G[i][f[i - 1]]
  <2>1. PICK sets, first, step : sets = S /\ first = {Memory} /\ step = G
    OBVIOUS
  <2>2. first \in sets /\ IsSteps(step, NAME, sets)
    BY <1>2, <1>3, <2>1
  <2>3. PICK f : f \in Computations(NAME, sets, first, step)
    BY <1>1, <2>2, Iterated
  <2> QED
    BY <2>1, <2>3 DEF Computations
<1>5. f = Body(f)
  <2>1. ASSUME NEW i \in 1 .. NAME
        PROVE  f[i] = UNION {Read(m, p, r, i - 1) : m \in f[i - 1]}
    <3>1. i - 1 \in 0 .. NAME
      BY <1>1
    <3>2. f[i - 1] \in S
      BY <3>1
    <3> QED
      BY <1>4, <3>2
  <2>2. \A i \in 0 .. NAME : i # 0 => i \in 1 .. NAME
    BY <1>1
  <2> QED
    BY <1>4, <2>1, <2>2
<1>6. after = Body(after)
  <2> HIDE DEF Body
  <2> QED
    BY <1>5
<1> HIDE DEF after
<1> DEFINE T == {i \in 0 .. NAME : ~ (after[i] \subseteq Memories)}
<1>7. T = {}
  <2>1. SUFFICES ASSUME T # {} PROVE FALSE
    OBVIOUS
  <2>2. PICK n \in T : \A k \in T : n \leq k
    <3>1. T \in SUBSET Nat
      OBVIOUS
    <3> HIDE DEF T
    <3> QED
      BY <2>1, <3>1, LeastNumber
  <2>3. n \in 0 .. NAME /\ ~ (after[n] \subseteq Memories)
    OBVIOUS
  <2>4. CASE n = 0
    <3>1. after[0] = {Memory}
      BY <1>1, <1>6
    <3> QED
      BY <2>3, <2>4, <3>1
  <2>5. CASE n # 0
    <3>1. n - 1 \in 0 .. NAME /\ n - 1 \in Nat /\ ~ (n \leq n - 1)
      BY <1>1, <2>3, <2>5
    <3>2. after[n - 1] \subseteq Memories
      BY <2>2, <3>1
    <3>3. after[n] = UNION {Read(m, p, r, n - 1) : m \in after[n - 1]}
      BY <1>6, <2>3, <2>5
    <3>4. \A m \in Memories : Read(m, p, r, n - 1) \subseteq Memories
      BY <3>1, ReadTyped
    <3> QED
      BY <2>3, <3>2, <3>3, <3>4
  <2> QED
    BY <2>4, <2>5
<1>8. AfterReads(p, r) = after[NAME]
  BY DEF AfterReads, after
<1> QED
  BY <1>1, <1>7, <1>8

\* The part of TypeOK that Placed does not give.
Typed ==
  /\ bp \in [Proc -> 0 .. MAX_BRK]
  /\ Memory \in Memories
  /\ mram \in [Frame -> Data] /\ shadow \in [Proc -> [Page -> Data]]
  /\ happened \subseteq {"fault", "raw", "short"}

\* The state a page access sees, taken apart.
LEMMA MemoryParts ==
  Memory \in Memories <=> /\ pgd \in [Proc -> [Page -> Page \cup Frame \cup {ABSENT}]]
                          /\ fifo_pgn \in [Proc -> Seq(Page)]
                          /\ mswp_free \in Seq(Swap)
                          /\ mswp \in [Swap -> Data]
BY DEF Memory, Memories

\* The same of the state it leaves.
LEMMA MemoryPartsNext ==
  Memory' \in Memories <=> /\ pgd' \in [Proc -> [Page -> Page \cup Frame \cup {ABSENT}]]
                           /\ fifo_pgn' \in [Proc -> Seq(Page)]
                           /\ mswp_free' \in Seq(Swap)
                           /\ mswp' \in [Swap -> Data]
BY DEF Memory, Memories

\* The variables take the values of a typed memory.
LEMMA BecomesTyped ==
  ASSUME Typed, NEW m \in Memories, Becomes(m)
  PROVE  Memory' \in Memories /\ happened' \subseteq {"fault", "raw", "short"}
<1>1. Memory' \in Memories
  BY MemoryPartsNext DEF Becomes, Memories
<1>2. happened' \subseteq {"fault", "raw", "short"}
  BY DEF Becomes, Typed
<1> QED
  BY <1>1, <1>2

\* New pages are given frames of the list, and one of them becomes a candidate.
LEMMA LimitTyped ==
  ASSUME Typed, Placed, UNCHANGED <<mswp_free, dataVars, shadow>>,
         NEW p \in Proc, NEW vmaid, NEW sz \in Nat, inc_vma_limit(p, vmaid, sz)
  PROVE  Typed'
<1> DEFINE n == amount(sz) \div PAGESZ
           start == PAGING_PGN(vm_end[p])
<1>1. amount(sz) \in Nat /\ n \in Nat /\ MAX_BRK \in Nat
  BY WholePages, PagingAssumption
<1>2. bp' \in [Proc -> 0 .. MAX_BRK]
  <2>1. bp' = [bp EXCEPT ![p] = @ + amount(sz)] /\ bp[p] + amount(sz) \leq MAX_BRK
    BY DEF inc_vma_limit, get_vm_area_node_at_brk
  <2>2. bp \in [Proc -> 0 .. MAX_BRK]
    BY DEF Typed
  <2>3. bp[p] + amount(sz) \in 0 .. MAX_BRK
    BY <1>1, <2>1, <2>2
  <2> QED
    BY <2>1, <2>2, <2>3
<1>3. /\ pgd \in [Proc -> [Page -> Page \cup Frame \cup {ABSENT}]]
      /\ fifo_pgn \in [Proc -> Seq(Page)]
      /\ mswp_free \in Seq(Swap) /\ mswp \in [Swap -> Data]
      /\ mram_free \in Seq(Frame)
  BY MemoryParts DEF Typed, Placed, Apart
<1>4. /\ mram' \in [Frame -> Data] /\ shadow' \in [Proc -> [Page -> Data]]
      /\ mswp_free' \in Seq(Swap) /\ mswp' \in [Swap -> Data]
  BY <1>3 DEF Typed, dataVars
<1>5. CASE UNCHANGED pgVars /\ happened' \subseteq happened \cup {"short"}
  BY <1>2, <1>3, <1>4, <1>5, MemoryPartsNext DEF Typed, pgVars
<1>6. CASE EnoughFrames(n) /\ vmap_page_range(p, vm_end[p], n) /\ UNCHANGED happened
  <2>1. start \in Page
    BY PageOf DEF Placed, Breaks
  <2>2. pgd' = [pgd EXCEPT ![p] = [m \in Page |->
                  IF m \in start .. start + n - 1 THEN mram_free[m - start + 1] ELSE @[m]]]
    BY <1>6 DEF vmap_page_range
  <2>3. fifo_pgn' = [fifo_pgn EXCEPT ![p] = <<start>> \o @]
    BY <1>6 DEF vmap_page_range, enlist_pgn_node
  <2>4. n \leq Len(mram_free)
    BY <1>6 DEF EnoughFrames
  <2> HIDE DEF start, n
  <2>5. fifo_pgn' \in [Proc -> Seq(Page)]
    <3>1. <<start>> \o fifo_pgn[p] \in Seq(Page)
      BY <1>3, <2>1
    <3> QED
      BY <1>3, <2>3, <3>1
  <2>6. pgd' \in [Proc -> [Page -> Page \cup Frame \cup {ABSENT}]]
    <3>1. ASSUME NEW m \in Page, m \in start .. start + n - 1
          PROVE  mram_free[m - start + 1] \in Frame
      <4>1. start \in Int /\ Len(mram_free) \in Nat
        BY <1>3, <2>1 DEF Page
      <4>2. m - start + 1 \in 1 .. Len(mram_free)
        BY <1>1, <2>4, <3>1, <4>1
      <4> QED
        BY <1>3, <4>2
    <3>2. [m \in Page |-> IF m \in start .. start + n - 1 THEN mram_free[m - start + 1]
                                                          ELSE pgd[p][m]]
            \in [Page -> Page \cup Frame \cup {ABSENT}]
      BY <1>3, <3>1
    <3> QED
      BY <1>3, <2>2, <3>2
  <2> QED
    BY <1>2, <1>4, <1>6, <2>5, <2>6, MemoryPartsNext DEF Typed
<1> QED
  BY <1>5, <1>6 DEF inc_vma_limit

\* The types of the initial values.
LEMMA TypedInit == Init => Typed
<1> SUFFICES ASSUME Init PROVE Typed
  OBVIOUS
<1>1. PAGE_SIZE \in 0 .. MAX_BRK /\ NoData \in Data /\ SWP \in Nat
  BY PagingAssumption
<1>2. mswp_free \in Seq(Swap)
  <2>1. mswp_free = [k \in 1 .. SWP |-> k - 1]
    BY DEF Init
  <2>2. \A k \in 1 .. SWP : k - 1 \in Swap
    BY <1>1 DEF Swap
  <2> QED
    BY <1>1, <2>1, <2>2
<1>3. mswp \in [Swap -> Data]
  BY <1>1 DEF Init, Swap
<1>4. pgd \in [Proc -> [Page -> Page \cup Frame \cup {ABSENT}]] /\ fifo_pgn \in [Proc -> Seq(Page)]
  BY DEF Init
<1>5. mram \in [Frame -> Data] /\ shadow \in [Proc -> [Page -> Data]]
  BY <1>1 DEF Init
<1> QED
  BY <1>1, <1>2, <1>3, <1>4, <1>5, MemoryParts DEF Typed, Init

\* One case per kind of instruction.
LEMMA TypedStep == Typed /\ Placed /\ [Next]_vars => Typed'
<1> SUFFICES ASSUME Typed, Placed, [Next]_vars PROVE Typed'
  OBVIOUS
<1>0. mram \in [Frame -> Data] /\ Memory \in Memories /\ Regions
  BY DEF Typed, Placed
<1>1. ASSUME UNCHANGED <<bp, pgVars, mswp_free, dataVars, shadow>>,
             happened' \subseteq happened
      PROVE  Typed'
  BY <1>1, MemoryParts, MemoryPartsNext DEF Typed, pgVars, dataVars
<1>2. ASSUME NEW p \in Proc, NEW r \in RgId, NEW size \in Sizes, liballoc(p, r, size)
      PROVE  Typed'
  <2>1. UNCHANGED <<mswp_free, dataVars, shadow>>
    BY <1>2 DEF liballoc
  <2>2. CASE HasFreeArea(p)
    BY <1>1, <1>2, <2>1, <2>2 DEF liballoc, areaVars
  <2>3. CASE ~ HasFreeArea(p)
    <3>1. amount(size) \in Nat
      BY Rounded, PagingAssumption
    <3>2. inc_vma_limit(p, 0, amount(size))
      BY <1>2, <2>3 DEF liballoc
    <3> QED
      BY <2>1, <3>1, <3>2, LimitTyped
  <2> QED
    BY <2>2, <2>3
<1>3. ASSUME NEW p \in Proc, NEW r \in Named, libfree(p, r)
      PROVE  Typed'
  BY <1>1, <1>3 DEF libfree, areaVars, freeVars, history
<1>4. ASSUME NEW p \in Proc, NEW r \in Named, NEW o \in Offsets, libread(p, r, o)
      PROVE  Typed'
  <2>1. o \in Nat
    BY PagingAssumption
  <2>2. PICK m \in Memories : Becomes(m)
    BY <1>0, <1>4, <2>1, ReadTyped DEF libread
  <2>3. UNCHANGED <<bp, mram, shadow>>
    BY <1>4 DEF libread, areaVars
  <2> QED
    BY <2>2, <2>3, BecomesTyped DEF Typed
<1>5. ASSUME NEW p \in Proc, NEW r \in Named, NEW o \in Offsets, NEW d \in Data,
             libwrite(p, d, r, o)
      PROVE  Typed'
  <2>1. o \in Nat
    BY PagingAssumption
  <2>2. PICK m \in Memories : Becomes(m)
    BY <1>0, <1>5, <2>1, ReadTyped DEF libwrite
  <2>3. UNCHANGED bp
    BY <1>5 DEF libwrite, areaVars
  <2>4. mram' \in [Frame -> Data] /\ shadow' \in [Proc -> [Page -> Data]]
    <3>1. CASE UNCHANGED <<mram, shadow>>
      BY <3>1 DEF Typed
    <3>2. CASE ~ (UNCHANGED <<mram, shadow>>)
      <4> DEFINE pgn == Operand(p, r, o)
      <4>1. /\ mram' = Stored(mram, pgd'[p][pgn], d)
            /\ shadow' = [shadow EXCEPT ![p][pgn] = d]
        BY <1>5, <3>2 DEF libwrite
      <4> HIDE DEF pgn
      <4> QED
        BY <4>1 DEF Typed, Stored
    <3> QED
      BY <3>1, <3>2
  <2> QED
    BY <2>2, <2>3, <2>4, BecomesTyped DEF Typed
<1>6. ASSUME NEW p \in Proc, NEW regs \in Request, syscall(p, regs)
      PROVE  Typed'
  <2>1. CASE regs.nr = 17 /\ sys_memmap(p, regs)
    <3>1. CASE regs.a1 = "INC" /\ SYSMEM_INC_OP(p, regs.a2, regs.a3)
      <4>1. regs.a3 \in Sizes
        BY <2>1, <3>1 DEF Request
      <4>2. regs.a3 \in Nat
        BY <4>1, PagingAssumption
      <4> QED
        BY <3>1, <4>2, LimitTyped DEF SYSMEM_INC_OP
    <3>2. CASE regs.a1 = "SWP" /\ SYSMEM_SWP_OP(p, regs.a2, regs.a3)
      <4>1. PICK d \in Found(mram, regs.a2) : mswp' = Stored(mswp, regs.a3, d)
        BY <3>2 DEF SYSMEM_SWP_OP
      <4>2. d \in Data
        BY <1>0, <4>1 DEF Found
      <4>3. mswp' \in [Swap -> Data]
        BY <4>1, <4>2, MemoryParts DEF Typed, Stored
      <4> QED
        BY <3>2, <4>3, MemoryParts, MemoryPartsNext
        DEF Typed, SYSMEM_SWP_OP, areaVars, pgVars, freeVars, history
    <3>3. CASE regs.a1 = "IO_WRITE" /\ SYSMEM_IO_WRITE(p, regs.a2, regs.a3)
      <4>1. regs.a3 \in Data
        BY <2>1, <3>3 DEF Request
      <4>2. mram' \in [Frame -> Data]
        BY <1>0, <3>3, <4>1 DEF SYSMEM_IO_WRITE, Stored
      <4> QED
        BY <3>3, <4>2, MemoryParts, MemoryPartsNext
        DEF Typed, SYSMEM_IO_WRITE, areaVars, pgVars, freeVars
    <3>4. CASE UNCHANGED vars
      BY <1>1, <3>4 DEF vars, areaVars, freeVars, history
    <3> QED
      BY <2>1, <3>1, <3>2, <3>3, <3>4 DEF sys_memmap
  <2>2. CASE sys_killall(p, regs)
    <3>1. PICK m \in Memories : Becomes(m)
      BY <1>0, <2>2, AllReadsTyped DEF sys_killall
    <3>2. UNCHANGED <<bp, mram, shadow>>
      BY <2>2 DEF sys_killall, areaVars
    <3> QED
      BY <3>1, <3>2, BecomesTyped DEF Typed
  <2>3. CASE UNCHANGED vars
    BY <1>1, <2>3 DEF vars, areaVars, freeVars, history
  <2> QED
    BY <1>6, <2>1, <2>2, <2>3 DEF syscall
<1>7. CASE UNCHANGED vars
  BY <1>1, <1>7 DEF vars, areaVars, freeVars, history
<1> QED
  BY <1>2, <1>3, <1>4, <1>5, <1>6, <1>7 DEF Next

\* No instruction takes the memory manager out of its types, whatever it replaces or
\* stores at physical addresses: an entry of a page table is always absent, a frame, or
\* the page number pg_getpage has put there (libmem.c:231).
THEOREM TypesKept == Spec => []TypeOK
<1>1. Typed /\ Placed => TypeOK
  <2> SUFFICES ASSUME Typed, Placed PROVE TypeOK
    OBVIOUS
  <2>1. /\ pgd \in [Proc -> [Page -> Page \cup Frame \cup {ABSENT}]]
        /\ fifo_pgn \in [Proc -> Seq(Page)]
        /\ mswp_free \in Seq(0 .. SWP - 1)
        /\ mswp \in [0 .. SWP - 1 -> Data]
    BY MemoryParts DEF Typed, Swap
  <2>2. bp \in [Proc -> 0 .. MAX_BRK] /\ MAX_BRK \in Nat /\ PAGE_SIZE \in Nat
    BY PagingAssumption DEF Typed
  <2>3. vm_end \in [Proc -> 0 .. MAX_BRK] /\ sbrk \in [Proc -> 0 .. MAX_BRK]
    BY <2>2 DEF Placed, Breaks
  <2>4. vm_freerg_list \in [Proc -> Seq(Region)] /\ symrgtbl \in [Proc -> [RgId -> Region]]
    <3>1. rg(0, 0) \in Region /\ rg(NONE, NONE) \in Region
      BY DEF rg, Region, NONE
    <3>2. <<rg(0, 0)>> \in Seq(Region) /\ << >> \in Seq(Region)
      BY <3>1
    <3>3. ASSUME NEW p \in Proc PROVE vm_freerg_list[p] \in Seq(Region)
      BY <3>2 DEF Placed, Regions
    <3>4. ASSUME NEW p \in Proc, NEW r \in RgId PROVE symrgtbl[p][r] \in Region
      BY <3>1 DEF Placed, Regions
    <3>5. vm_freerg_list = [p \in Proc |-> vm_freerg_list[p]]
      BY DEF Placed, Regions
    <3>6. symrgtbl = [p \in Proc |-> [r \in RgId |-> symrgtbl[p][r]]]
      BY DEF Placed, Regions
    <3> QED
      BY <3>3, <3>4, <3>5, <3>6
  <2>5. mram_free \in Seq(Frame)
    BY DEF Placed, Apart
  <2> QED
    BY <2>1, <2>2, <2>3, <2>4, <2>5 DEF TypeOK, Typed
<1> QED
  BY <1>1, PlacedAlways, TypedInit, TypedStep, PTL DEF Spec
=============================================================================
