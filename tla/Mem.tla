-------------------------------- MODULE Mem --------------------------------
(***************************************************************************)
(* Memory of the build without MM_PAGING: src/src/mem.c under the          *)
(* instructions of src/src/cpu.c.  A process has a page table of two       *)
(* levels; mem_stat tells whose each physical page is.                     *)
(*                                                                         *)
(* A step is one instruction.  alloc_mem holds mem_lock from end to end,   *)
(* and what read_mem and write_mem use without it (the process's own       *)
(* table, bytes of its own pages) no other CPU changes.  Operators named   *)
(* like another one with a suffix are faulty variants.                     *)
(*                                                                         *)
(* The page table load() leaves uninitialised is taken to be empty, and    *)
(* the registers to be 0, as in fresh memory from the kernel.              *)
(***************************************************************************)
EXTENDS Integers, Sequences, FiniteSets

CONSTANTS Proc,
          Reg,              \* registers: 0 .. 9 in the code
          Sizes, Offsets,   \* what alloc, read and write are asked for
          Bytes,            \* values of a byte
          OFFSET_LEN,       \* 10 in the code
          SECOND_LV_LEN,    \* 5
          FIRST_LV_LEN,     \* 5
          WORD              \* 2^32: uint32_t and addr_t wrap there

PAGE_SIZE == 2 ^ OFFSET_LEN
NUM_PAGES == 2 ^ (FIRST_LV_LEN + SECOND_LV_LEN)
RAM_SIZE  == PAGE_SIZE * NUM_PAGES

ASSUME MemAssumption ==
  /\ OFFSET_LEN \in 0 .. 10 /\ SECOND_LV_LEN \in 0 .. 5 /\ FIRST_LV_LEN \in 0 .. 5
  /\ WORD \in Nat /\ WORD % PAGE_SIZE = 0 /\ 2 * RAM_SIZE < WORD
  /\ Sizes \subseteq 0 .. WORD - 1 /\ Offsets \subseteq 0 .. WORD - 1
  /\ Bytes \subseteq 0 .. WORD - 1 /\ 0 \in Bytes
  /\ 0 \notin Proc      \* avail_pid starts at 1

VARIABLES bp,           \* break pointer of every process
          regs,         \* its registers
          page_table,   \* its first level: a sequence of rows
          mem_stat,     \* _mem_stat: owner, index and successor of every page
          ram           \* _ram

vars == <<bp, regs, page_table, mem_stat, ram>>

NOBODY == 0             \* proc == 0 in mem_stat: the page is free
NONE   == -1

PhysicalPage == 0 .. NUM_PAGES - 1
Address      == 0 .. RAM_SIZE - 1

TransTable == Seq([v_index : Nat, p_index : PhysicalPage])

TypeOK ==
  /\ bp \in [Proc -> 0 .. RAM_SIZE]
  /\ regs \in [Proc -> [Reg -> 0 .. WORD - 1]]
  /\ \A p \in Proc :
       /\ page_table[p] \in Seq([v_index : Nat, next_lv : TransTable])
       /\ Len(page_table[p]) \leq 2 ^ FIRST_LV_LEN
       /\ \A k \in DOMAIN page_table[p] :
            Len(page_table[p][k].next_lv) \leq 2 ^ SECOND_LV_LEN
  /\ mem_stat \in [PhysicalPage -> [proc : Proc \cup {NOBODY},
                                    index : 0 .. NUM_PAGES,
                                    next : PhysicalPage \cup {NONE}]]
  /\ ram \in [Address -> Bytes]

\* init_mem and load.
Init ==
  /\ bp = [p \in Proc |-> PAGE_SIZE]
  /\ regs = [p \in Proc |-> [r \in Reg |-> 0]]
  /\ page_table = [p \in Proc |-> << >>]
  /\ mem_stat = [i \in PhysicalPage |-> [proc |-> NOBODY, index |-> 0, next |-> 0]]
  /\ ram = [a \in Address |-> 0]

-----------------------------------------------------------------------------
(* Translation *)

get_offset(addr)    == addr % PAGE_SIZE
get_first_lv(addr)  == addr \div 2 ^ (OFFSET_LEN + SECOND_LV_LEN)
get_second_lv(addr) ==
  (addr \div 2 ^ OFFSET_LEN) - get_first_lv(addr) * 2 ^ SECOND_LV_LEN

\* The first row of a table with a virtual index, 0 if there is none.
row(table, index) ==
  LET ks == {k \in DOMAIN table : table[k].v_index = index}
  IN  IF ks = {} THEN 0 ELSE CHOOSE k \in ks : \A j \in ks : k \leq j

get_trans_table(index, table) ==
  LET k == row(table, index) IN IF k = 0 THEN << >> ELSE table[k].next_lv

\* The physical address of a virtual one, or NONE.
translate(addr, p) ==
  LET trans_table == get_trans_table(get_first_lv(addr), page_table[p])
      k == row(trans_table, get_second_lv(addr))
  IN  IF k = 0 THEN NONE
               ELSE trans_table[k].p_index * PAGE_SIZE + get_offset(addr)

add_page_mapping_always_new(table, addr, page) ==
  Append(table, [v_index |-> get_first_lv(addr),
                 next_lv |-> <<[v_index |-> get_second_lv(addr), p_index |-> page]>>])

\* The page table with one more mapping, under a new first-level row if need be.
add_page_mapping(table, addr, page) ==
  LET k == row(table, get_first_lv(addr))
      entry == [v_index |-> get_second_lv(addr), p_index |-> page]
  IN  IF k = 0
      THEN Append(table, [v_index |-> get_first_lv(addr), next_lv |-> <<entry>>])
      ELSE [table EXCEPT ![k].next_lv = Append(@, entry)]

-----------------------------------------------------------------------------
(* alloc_mem *)

num_pages(size) == (size \div PAGE_SIZE) + (IF size % PAGE_SIZE = 0 THEN 0 ELSE 1)

FreePages_or_last == {i \in PhysicalPage : mem_stat[i].proc = NOBODY \/ mem_stat[i].next = NONE}
FreePages == {i \in PhysicalPage : mem_stat[i].proc = NOBODY}

available_by_break(p, n) == (bp[p] + n * PAGE_SIZE) % WORD \leq RAM_SIZE
\* The break pointer is computed in 32 bits: a request near 4 GB passes the first
\* test and is stopped by the second.
available(p, n) == /\ (bp[p] + n * PAGE_SIZE) % WORD \leq RAM_SIZE
                   /\ n \leq Cardinality(FreePages)

next_of_head(pages, k) == IF k < Len(pages) THEN pages[1] ELSE NONE
\* The page that follows the k-th one of an allocation.
next_of(pages, k) == IF k < Len(pages) THEN pages[k + 1] ELSE NONE

\* The k-th free page.
nth_free(k) ==
  CHOOSE i \in FreePages : Cardinality({j \in FreePages : j < i}) = k - 1

\* The first n free pages, or as many as there are.
first_free(n) == [k \in {k \in 1 .. n : k \leq Cardinality(FreePages)} |-> nth_free(k)]

\* The table with the pages mapped one behind the other from addr on.
add_mappings(table, addr, pages) ==
  LET tables[k \in 0 .. Len(pages)] ==
        IF k = 0 THEN table
        ELSE add_page_mapping(tables[k - 1], addr + (k - 1) * PAGE_SIZE, pages[k])
  IN  tables[Len(pages)]

\* The allocation itself, at the break.
take_pages(p, n) ==
  LET ret_mem == bp[p]
      pages == first_free(n)
  IN  /\ bp' = [bp EXCEPT ![p] = (@ + n * PAGE_SIZE) % WORD]
      /\ mem_stat' = [i \in PhysicalPage |->
           IF \E k \in DOMAIN pages : pages[k] = i
           THEN LET k == CHOOSE k \in DOMAIN pages : pages[k] = i
                IN  [proc |-> p, index |-> k - 1, next |-> next_of(pages, k)]
           ELSE mem_stat[i]]
      /\ page_table' = [page_table EXCEPT ![p] = add_mappings(@, ret_mem, pages)]

-----------------------------------------------------------------------------
(* Instructions: cpu.c *)

\* A register keeps its value if alloc_mem returns 0.
alloc(p, size, r) ==
  /\ IF available(p, num_pages(size))
     THEN take_pages(p, num_pages(size)) /\ regs' = [regs EXCEPT ![p][r] = bp[p]]
     ELSE UNCHANGED <<bp, mem_stat, page_table, regs>>
  /\ UNCHANGED ram

\* free_mem is a stub.
free_data(p, r) == UNCHANGED vars

\* read_mem returns 0 when it has found the byte, which `read` takes for failure: the
\* byte is dropped.  When nothing was found, the register gets whatever `data` holds.
read(p, source, offset, destination) ==
  /\ IF translate((regs[p][source] + offset) % WORD, p) # NONE
     THEN UNCHANGED regs
     ELSE \E data \in Bytes : regs' = [regs EXCEPT ![p][destination] = data]
  /\ UNCHANGED <<bp, page_table, mem_stat, ram>>

write(p, data, destination, offset) ==
  LET physical == translate((regs[p][destination] + offset) % WORD, p)
  IN  /\ ram' = IF physical = NONE THEN ram ELSE [ram EXCEPT ![physical] = data]
      /\ UNCHANGED <<bp, regs, page_table, mem_stat>>

Next == \E p \in Proc :
  \/ \E size \in Sizes, r \in Reg : alloc(p, size, r)
  \/ \E r \in Reg : free_data(p, r)
  \/ \E s, d \in Reg, o \in Offsets : read(p, s, o, d)
  \/ \E b \in Bytes, d \in Reg, o \in Offsets : write(p, b, d, o)

Spec == Init /\ [][Next]_vars

-----------------------------------------------------------------------------
(* Properties *)

\* The valid addresses of a process are those from PAGE_SIZE to its break pointer,
\* page by page through both levels of its table: every byte alloc_mem hands out can
\* be reached, no other address can, and 0 (mem.h:12) is none of them.
ValidBelowBreak ==
  \A p \in Proc, addr \in Address :
    translate(addr, p) # NONE <=> PAGE_SIZE \leq addr /\ addr < bp[p]

\* mem_stat and the page tables agree: a physical page belongs to a process if and
\* only if one virtual page of that process, and none of another, is mapped to it.
OwnersAgree ==
  \A i \in PhysicalPage, p \in Proc :
    LET mapped == {n \in PhysicalPage : translate(n * PAGE_SIZE, p) = i * PAGE_SIZE}
    IN  Cardinality(mapped) = IF mem_stat[i].proc = p THEN 1 ELSE 0

\* The chain dump() prints: the page behind a page of an allocation belongs to the
\* same process, is counted one higher and is the next one in virtual memory too.
ChainsFollowAddresses ==
  \A i, j \in PhysicalPage :
    mem_stat[i].proc # NOBODY /\ mem_stat[i].next = j =>
      /\ mem_stat[j].proc = mem_stat[i].proc
      /\ mem_stat[j].index = mem_stat[i].index + 1
      /\ \A n \in PhysicalPage :
           translate(n * PAGE_SIZE, mem_stat[i].proc) = i * PAGE_SIZE =>
             translate((n + 1) * PAGE_SIZE, mem_stat[i].proc) = j * PAGE_SIZE

\* What process p sees at an address.
Seen(p, addr) ==
  LET physical == translate(addr, p)
  IN  IF physical = NONE THEN NONE ELSE ram[physical]

Space == [p \in Proc |-> [addr \in Address |-> Seen(p, addr)]]

Spaces == INSTANCE AddressSpace WITH INVALID <- NONE, space <- Space

\* Through its page table each process sees an address space of its own: what it
\* stored is there, nothing another process does changes it, new memory is zero.
SpacesRefined == Spaces!Spec
=============================================================================
