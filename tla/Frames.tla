------------------------------- MODULE Frames -------------------------------
(***************************************************************************)
(* Frames on their way from the free list of the device to the page        *)
(* tables: vm_map_ram, alloc_pages_range and vmap_page_range of            *)
(* src/src/mm.c over MEMPHY_get_freefp (MemPhy.tla) and the words of the   *)
(* page tables (Pte.tla).  A step is one access to the free list or the    *)
(* writing of a process's own table.                                       *)
(***************************************************************************)
EXTENDS MemPhy, Pte, Sequences

CONSTANTS Proc,
          PAGES,        \* pages of a process
          MAX_REQUEST,  \* bound: pages of one request
          Stale         \* what the table a process gets from malloc may hold

\* The frame field can name every frame: a memory of at most 2 MB in the code, where
\* PAGING_MEMRAMSZ says so but the configured size is not checked.  A stale entry is
\* not present: fresh memory is zero.
ASSUME FramesAssumption ==
  /\ numfp \leq 2 ^ (FPN_HIBIT + 1)
  /\ PAGES \in Nat /\ MAX_REQUEST \in Nat
  /\ \A word \in Stale : word \in Word /\ ~ PAGING_PAGE_PRESENT(word)

Page == 0 .. PAGES - 1
Idle == [n |-> -1]

VARIABLES pgd,          \* the page table of every process
          request,      \* what each CPU's vm_map_ram was asked for
          frm_lst       \* the frames it has taken so far

growVars == <<pgd, request, frm_lst>>

Requests == {Idle} \cup [proc : Proc, start : 0 .. PAGES, n : 0 .. MAX_REQUEST]

FramesTypeOK ==
  /\ TypeOK
  /\ pgd \in [Proc -> [Page -> Word]]
  /\ request \in [CPU -> Requests]
  /\ frm_lst \in [CPU -> Seq(Frame)]

FramesInit ==
  /\ Init
  /\ \E word \in [Proc -> Stale] : pgd = [p \in Proc |-> [n \in Page |-> word[p]]]
  /\ request = [c \in CPU |-> Idle]
  /\ frm_lst = [c \in CPU |-> << >>]

-----------------------------------------------------------------------------
Working(c) == request[c] # Idle
Taken(c)   == Len(frm_lst[c])

\* inc_vma_limit asks for pages above all that are mapped.
vm_map_ram(c) ==
  /\ ~ Working(c)
  /\ \E p \in Proc, start \in 0 .. PAGES, n \in 0 .. MAX_REQUEST :
       /\ start + n \leq PAGES
       /\ \A m \in start .. PAGES - 1 : ~ PAGING_PAGE_PRESENT(pgd[p][m])
       /\ \A d \in CPU : Working(d) => request[d].proc # p
       /\ request' = [request EXCEPT ![c] = [proc |-> p, start |-> start, n |-> n]]
  /\ UNCHANGED <<vars, pgd, frm_lst>>

append_frame_at_head(c) == frm_lst' = [frm_lst EXCEPT ![c] = <<retfpn[c]>> \o @]

\* The node of the frame just received goes behind the tail of the list.
append_frame(c) == frm_lst' = [frm_lst EXCEPT ![c] = Append(@, retfpn[c])]

\* One access of MEMPHY_get_freefp for the next frame.  When it returns -1 the
\* request fails with -3000 and the list is forgotten.
alloc_pages_range(c) ==
  /\ Working(c) /\ Taken(c) < request[c].n
  /\ \/ /\ read_head(c)
        /\ IF free_fp_list = NULL
           THEN /\ request' = [request EXCEPT ![c] = Idle]
                /\ frm_lst' = [frm_lst EXCEPT ![c] = << >>]
           ELSE UNCHANGED <<request, frm_lst>>
     \/ (read_fpn(c) \/ unlink(c)) /\ UNCHANGED <<request, frm_lst>>
     \/ free_node(c) /\ append_frame(c) /\ UNCHANGED request
  /\ UNCHANGED pgd

\* The entry of page m takes the frame at this position of the list.
mapped_from(c, m) == m - request[c].start + 1

vmap_page_range(c) ==
  /\ Working(c) /\ Taken(c) = request[c].n
  /\ LET p == request[c].proc
         s == request[c].start
     IN  pgd' = [pgd EXCEPT ![p] = [m \in Page |->
           IF m \in s .. s + request[c].n - 1
           THEN pte_set_fpn(@[m], Bits(frm_lst[c][mapped_from(c, m)]))
           ELSE @[m]]]
  /\ request' = [request EXCEPT ![c] = Idle]
  /\ frm_lst' = [frm_lst EXCEPT ![c] = << >>]
  /\ UNCHANGED vars

FramesNext ==
  /\ ~ aborted
  /\ \E c \in CPU : vm_map_ram(c) \/ alloc_pages_range(c) \/ vmap_page_range(c)

FramesSpec == FramesInit /\ [][FramesNext]_<<vars, growVars>>

-----------------------------------------------------------------------------
(* Properties *)

Entry(p, n) == IF PAGING_PAGE_PRESENT(pgd[p][n]) THEN ValueOf(PAGING_FPN(pgd[p][n])) ELSE -1

\* Two present entries, of one process or of two, never name the same frame: the
\* frame number survives the way through the entry's bit field (mm.c:70), whatever
\* was in the table before.
EntriesApart ==
  \A p, q \in Proc, m, n \in Page :
    Entry(p, m) # -1 /\ Entry(p, m) = Entry(q, n) => p = q /\ m = n

\* The nodes that follow node k, in list order.
FollowedBy[k \in Node] == IF k = NULL THEN << >> ELSE <<k>> \o FollowedBy[fp_next[k]]

\* With one CPU: the frames it has taken, the one it has in hand and the list.
Available(c) ==
  frm_lst[c] \o (IF at[c] = "free" THEN <<retfpn[c]>> ELSE << >>) \o FollowedBy[free_fp_list]

Pool == INSTANCE FramePool WITH
  ABSENT <- -1, Start <- 0 .. PAGES, Size <- 0 .. MAX_REQUEST,
  free   <- Available(CHOOSE c \in CPU : TRUE),
  table  <- [p \in Proc |-> [n \in Page |-> Entry(p, n)]]

\* On one CPU, growing an area is the atomic step of FramePool: the accesses of
\* MEMPHY_get_freefp one by one, the failure midway and the packing into entries add
\* nothing a process could observe, and a request fails only when the device does not
\* have that many frames left ("iteratively used up until its exhausted",
\* mm-memphy.c:153).
PoolRefined == Pool!Spec
=============================================================================
