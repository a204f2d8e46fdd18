---------------------------- MODULE FramesProofs ----------------------------
(***************************************************************************)
(* Proofs about the page table entries of Pte.tla, for every 32-bit word   *)
(* and every width of the frame number, and about the frames of            *)
(* Frames.tla on their way into them.                                      *)
(***************************************************************************)
EXTENDS Frames, NumberFacts, SequenceTheorems, TLAPS

-----------------------------------------------------------------------------
(* Fields and flags *)

\* A value that has room in the frame field.
Fpn == SUBSET FPN_MASK

\* The fields do not overlap the flags, and the mask of the frame field is a word.
LEMMA Masks ==
  /\ FPN_MASK \subseteq Bit /\ SWPTYP_MASK \subseteq Bit /\ SWPOFF_MASK \subseteq Bit
  /\ FPN_MASK \cap (PRESENT_MASK \cup SWAPPED_MASK) = {}
  /\ SWPTYP_MASK \cap (SWPOFF_MASK \cup PRESENT_MASK \cup SWAPPED_MASK) = {}
  /\ SWPOFF_MASK \cap (PRESENT_MASK \cup SWAPPED_MASK) = {}
BY PteAssumption
DEF FPN_MASK, SWPTYP_MASK, SWPOFF_MASK, PRESENT_MASK, SWAPPED_MASK, GENMASK, BIT, Bit

\* A shift by 0 leaves a word as it is.
LEMMA ShiftByZero ==
  ASSUME NEW w \in Word
  PROVE  ShiftLeft(w, 0) = w /\ ShiftRight(w, 0) = w
<1>1. \A i \in w : i \in Bit /\ i - 0 = i /\ i + 0 = i
  BY DEF Word, Bit
<1>2. \A i \in Bit : i - 0 = i /\ i + 0 = i
  BY DEF Bit
<1>3. ShiftLeft(w, 0) = w
  <2>1. \A i : i \in ShiftLeft(w, 0) <=> i \in w
    BY <1>1, <1>2 DEF ShiftLeft
  <2> QED
    BY <2>1
<1>4. ShiftRight(w, 0) = w
  <2>1. \A i : i \in ShiftRight(w, 0) <=> i \in w
    BY <1>1, <1>2 DEF ShiftRight
  <2> QED
    BY <2>1
<1> QED
  BY <1>3, <1>4

\* An entry written by pte_set_fpn (mm.c:70) is present, not swapped, and names the
\* frame it was given, whatever it was before: frames below 2^(FPN_HIBIT + 1) are
\* told apart.  The bits between field and flags keep their values.
THEOREM FrameRoundTrip ==
  ASSUME NEW pte \in Word, NEW fpn \in Fpn
  PROVE  /\ pte_set_fpn(pte, fpn) \in Word
         /\ PAGING_PAGE_PRESENT(pte_set_fpn(pte, fpn))
         /\ pte_set_fpn(pte, fpn) \cap SWAPPED_MASK = {}
         /\ PAGING_FPN(pte_set_fpn(pte, fpn)) = fpn
         /\ \A i \in Bit \ (FPN_MASK \cup PRESENT_MASK \cup SWAPPED_MASK) :
              i \in pte_set_fpn(pte, fpn) <=> i \in pte
<1> DEFINE online == CLRBIT(SETBIT(pte, PRESENT_MASK), SWAPPED_MASK)
<1>1. fpn \in Word
  BY Masks DEF Fpn, Word
<1>2. pte_set_fpn(pte, fpn) = (online \ FPN_MASK) \cup fpn
  BY <1>1, ShiftByZero DEF pte_set_fpn, SETVAL, Fpn
<1>3. PRESENT_MASK = {31} /\ SWAPPED_MASK = {30} /\ 31 \in Bit
  BY DEF PRESENT_MASK, SWAPPED_MASK, BIT, Bit
<1>4. online = (pte \cup {31}) \ {30}
  BY <1>3 DEF CLRBIT, SETBIT
<1>5. 31 \notin FPN_MASK /\ 30 \notin FPN_MASK
  BY <1>3, Masks
<1>6. pte_set_fpn(pte, fpn) \in Word
  BY <1>1, <1>2, <1>3, <1>4 DEF Word
<1>7. PAGING_PAGE_PRESENT(pte_set_fpn(pte, fpn))
  BY <1>2, <1>3, <1>4, <1>5 DEF PAGING_PAGE_PRESENT
<1>8. pte_set_fpn(pte, fpn) \cap SWAPPED_MASK = {}
  BY <1>2, <1>3, <1>4, <1>5 DEF Fpn
<1>9. pte_set_fpn(pte, fpn) \cap FPN_MASK = fpn
  BY <1>2 DEF Fpn
<1>10. PAGING_FPN(pte_set_fpn(pte, fpn)) = fpn
  BY <1>1, <1>9, ShiftByZero DEF PAGING_FPN, GETVAL
<1>11. \A i \in Bit \ (FPN_MASK \cup PRESENT_MASK \cup SWAPPED_MASK) :
         i \in pte_set_fpn(pte, fpn) <=> i \in pte
  BY <1>2, <1>3, <1>4 DEF Fpn
<1> QED
  BY <1>6, <1>7, <1>8, <1>10, <1>11

\* The same for the entry pg_getpage writes (libmem.c:231), as long as the number
\* has room in the field.
THEOREM ReplacedEntry ==
  ASSUME NEW pte \in Word, NEW value \in Fpn
  PROVE  /\ PAGING_PAGE_PRESENT(pte_replaced(pte, value))
         /\ PAGING_FPN(pte_replaced(pte, value)) = value
<1>1. value \in Word
  BY Masks DEF Fpn, Word
<1>2. pte_replaced(pte, value) \cap FPN_MASK = value
  BY Masks DEF pte_replaced, Fpn
<1>3. PAGING_FPN(pte_replaced(pte, value)) = value
  BY <1>1, <1>2, ShiftByZero DEF PAGING_FPN, GETVAL
<1>4. PAGING_PAGE_PRESENT(pte_replaced(pte, value))
  BY DEF pte_replaced, PAGING_PAGE_PRESENT, PRESENT_MASK, BIT
<1> QED
  BY <1>3, <1>4

\* pte_set_swap (mm.c:54) and PAGING_SWP (mm.h:73) agree: the swap offset comes back
\* whatever the swap type and the entry were.
THEOREM SwapRoundTrip ==
  ASSUME NEW pte \in Word, NEW swptyp \in Word, NEW swpoff \in SUBSET (0 .. 20)
  PROVE  PAGING_SWP(pte_set_swap(pte, swptyp, swpoff)) = swpoff
<1> DEFINE typed == SETVAL(SETBIT(SETBIT(pte, PRESENT_MASK), SWAPPED_MASK),
                           swptyp, SWPTYP_MASK, 0)
<1>1. ShiftLeft(swpoff, 5) \subseteq SWPOFF_MASK
  BY DEF ShiftLeft, SWPOFF_MASK, GENMASK, Bit
<1>2. pte_set_swap(pte, swptyp, swpoff) \cap SWPOFF_MASK = ShiftLeft(swpoff, 5)
  BY <1>1 DEF pte_set_swap, SETVAL
<1>3. ShiftRight(ShiftLeft(swpoff, 5), 5) = swpoff
  <2>1. \A i \in 0 .. 20 : i \in Bit /\ i + 5 \in Bit /\ (i + 5) - 5 = i
    BY DEF Bit
  <2>2. \A i \in Bit : (i + 5) - 5 = i
    BY DEF Bit
  <2>3. \A i : i \in ShiftRight(ShiftLeft(swpoff, 5), 5) <=> i \in swpoff
    BY <2>1, <2>2 DEF ShiftRight, ShiftLeft
  <2> QED
    BY <2>3
<1> QED
  BY <1>2, <1>3 DEF PAGING_SWP

-----------------------------------------------------------------------------
(* Numbers and their bits *)

\* Later powers are no smaller.
LEMMA Ascending ==
  ASSUME NEW h \in 0 .. 12, NEW i \in 0 .. 15, h < i
  PROVE  Pow(h + 1) \leq Pow(i)
<1> DEFINE T == {k \in h + 1 .. 15 : ~ (Pow(h + 1) \leq Pow(k))}
<1>1. SUFFICES ASSUME T # {} PROVE FALSE
  OBVIOUS
<1>2. PICK n \in T : \A k \in T : n \leq k
  <2>1. T \in SUBSET Nat
    OBVIOUS
  <2> HIDE DEF T
  <2> QED
    BY <1>1, <2>1, LeastNumber
<1>3. Pow(h + 1) \in Nat
  BY Powers
<1>4. n # h + 1
  BY <1>3
<1>5. n - 1 \in h + 1 .. 15 /\ n - 1 \in 0 .. 15 /\ (n - 1) + 1 = n /\ ~ (n \leq n - 1)
  BY <1>4
<1>6. Pow(h + 1) \leq Pow(n - 1)
  BY <1>2, <1>5
<1>7. Pow(n) = 2 * Pow(n - 1) /\ Pow(n - 1) \in Nat
  BY <1>5, Powers
<1> QED
  BY <1>3, <1>6, <1>7

\* Each halving of a number takes off one bit.
LEMMA Halved ==
  ASSUME NEW n \in Nat, NEW i \in 0 .. 15
  PROVE  \E z \in Nat : /\ z = n \div Pow(i + 1)
                        /\ \/ n \div Pow(i) = 2 * z /\ i \notin Bits(n)
                           \/ n \div Pow(i) = 2 * z + 1 /\ i \in Bits(n)
<1>1. PICK d \in Nat \ {0} : d = Pow(i)
  BY Powers
<1>2. Pow(i + 1) = 2 * d
  BY <1>1, Powers
<1>3. PICK a \in Nat : a = n \div d /\ d * a \leq n /\ n < d * (a + 1)
  BY Divided
<1>4. PICK b \in Nat, s \in {0, 1} : a = 2 * b + s /\ a % 2 = s
  <2>1. a \div 2 \in Nat /\ a = 2 * (a \div 2) + (a % 2) /\ a % 2 \in {0, 1}
    OBVIOUS
  <2> QED
    BY <2>1
<1>5. 2 * b \leq a /\ a + 1 \leq 2 * (b + 1)
  BY <1>4
<1>6. d * (2 * b) \leq d * a /\ d * (a + 1) \leq d * (2 * (b + 1))
  <2>1. \A x, y \in Int : x \leq y => d * x \leq d * y
    BY TimesMonotone
  <2>2. a \in Int /\ a + 1 \in Int /\ 2 * b \in Int /\ 2 * (b + 1) \in Int
    OBVIOUS
  <2> QED
    BY <1>5, <2>1, <2>2
<1>7. d * (2 * b) = (2 * d) * b /\ d * (2 * (b + 1)) = (2 * d) * (b + 1)
  OBVIOUS
<1>8. /\ d * a \in Int /\ d * (a + 1) \in Int /\ (2 * d) * b \in Int
      /\ (2 * d) * (b + 1) \in Int
  OBVIOUS
<1>9. (2 * d) * b \leq n /\ n < (2 * d) * (b + 1)
  BY <1>3, <1>6, <1>7, <1>8
<1>10. n \div (2 * d) = b
  BY <1>9, QuotientUnique
<1>11. i \in Bits(n) <=> a % 2 = 1
  <2>1. i \in Bits(n) <=> (n \div 2^i) % 2 = 1
    BY Zenon DEF Bits
  <2>2. n \div 2^i = a
    BY <1>1, <1>3, Zenon DEF Pow
  <2> QED
    BY <2>1, <2>2, Zenon
<1>12. i \in Bits(n) <=> s = 1
  BY <1>4, <1>11
<1>13. n \div Pow(i + 1) = b /\ n \div Pow(i) = a
  BY <1>1, <1>2, <1>3, <1>10
<1>14. CASE s = 0
  BY <1>4, <1>12, <1>13, <1>14
<1>15. CASE s = 1
  BY <1>4, <1>12, <1>13, <1>15
<1> QED
  BY <1>14, <1>15

\* A number below 2^16 is what its bits say.
LEMMA BitsApart ==
  ASSUME NEW m \in Nat, NEW n \in Nat, m < Pow(16), n < Pow(16), Bits(m) = Bits(n)
  PROVE  m = n
<1>0. PICK d \in Nat \ {0} : d = Pow(16)
  BY Powers
<1> DEFINE Same(i) == m \div Pow(i) = n \div Pow(i)
<1>1. Same(16)
  <2>1. \A k \in Nat : k < d => d * 0 \leq k /\ k < d * (0 + 1)
    OBVIOUS
  <2>2. ASSUME NEW k \in Nat, k < d PROVE k \div d = 0
    BY <2>1, <2>2, QuotientUnique
  <2>3. m \div d = 0 /\ n \div d = 0
    BY <1>0, <2>2
  <2> QED
    BY <1>0, <2>3
<1>2. ASSUME NEW i \in 0 .. 15, Same(i + 1) PROVE Same(i)
  <2>1. PICK y \in Nat : /\ y = m \div Pow(i + 1)
                         /\ \/ m \div Pow(i) = 2 * y /\ i \notin Bits(m)
                            \/ m \div Pow(i) = 2 * y + 1 /\ i \in Bits(m)
    BY Halved, Zenon
  <2>2. PICK z \in Nat : /\ z = n \div Pow(i + 1)
                         /\ \/ n \div Pow(i) = 2 * z /\ i \notin Bits(n)
                            \/ n \div Pow(i) = 2 * z + 1 /\ i \in Bits(n)
    BY Halved, Zenon
  <2>3. y = z
    BY <1>2, <2>1, <2>2
  <2> QED
    BY <2>1, <2>2, <2>3
<1>3. Same(0)
  <2> HIDE DEF Same
  <2> DEFINE T == {k \in 0 .. 16 : ~ Same(16 - k)}
  <2>1. T = {}
    <3>1. SUFFICES ASSUME T # {} PROVE FALSE
      OBVIOUS
    <3>2. PICK k \in T : \A j \in T : k \leq j
      <4>1. T \in SUBSET Nat
        OBVIOUS
      <4> HIDE DEF T
      <4> QED
        BY <3>1, <4>1, LeastNumber
    <3>3. k # 0
      BY <1>1
    <3>4. k - 1 \in 0 .. 16 /\ ~ (k \leq k - 1)
      BY <3>3
    <3>5. Same(16 - (k - 1))
      BY <3>2, <3>4
    <3>6. 16 - k \in 0 .. 15 /\ 16 - (k - 1) = (16 - k) + 1
      BY <3>3
    <3>7. Same((16 - k) + 1)
      BY <3>5, <3>6
    <3>8. Same(16 - k)
      BY <1>2, <3>6, <3>7
    <3> QED
      BY <3>8
  <2>2. 16 \in 0 .. 16 /\ 16 - 16 = 0
    OBVIOUS
  <2> QED
    BY <2>1, <2>2
<1>4. m \div 1 = m /\ n \div 1 = n
  OBVIOUS
<1> QED
  BY <1>3, <1>4, Powers

\* A number that has room in the frame field comes back from its bits.
LEMMA NumberRoundTrip ==
  ASSUME NEW n \in Nat, n < 2^(FPN_HIBIT + 1)
  PROVE  Bits(n) \in Fpn /\ ValueOf(Bits(n)) = n
<1>1. PICK h \in 0 .. 12 : h = FPN_HIBIT
  BY PteAssumption
<1>2. PICK top \in Nat : top = Pow(h + 1)
  BY <1>1, Powers
<1>3. top = 2^(FPN_HIBIT + 1)
  BY <1>1, <1>2, Zenon DEF Pow
<1>4. n < top
  BY <1>3
<1>5. top \leq Pow(16)
  <2>1. Pow(16) = 2 * Pow(15) /\ Pow(15) \in Nat
    BY Powers
  <2>2. Pow(h + 1) \leq Pow(15)
    BY Ascending
  <2> QED
    BY <1>2, <2>1, <2>2
<1>6. ASSUME NEW i \in Bits(n) PROVE i \in 0 .. h
  <2>1. i \in 0 .. 15
    BY Zenon DEF Bits
  <2>2. SUFFICES ASSUME h < i PROVE FALSE
    BY <2>1
  <2>3. PICK d \in Nat \ {0} : d = Pow(i)
    BY <2>1, Powers
  <2>4. n < d
    BY <1>2, <1>4, <2>1, <2>2, <2>3, Ascending
  <2>5. n \div d = 0
    <3>1. d * 0 \leq n /\ n < d * (0 + 1)
      BY <2>4
    <3> QED
      BY <3>1, QuotientUnique
  <2>6. (n \div 2^i) % 2 = 1
    BY Zenon DEF Bits
  <2>7. n \div 2^i = 0
    BY <2>3, <2>5, Zenon DEF Pow
  <2>8. 0 % 2 = 1
    BY <2>6, <2>7, Zenon
  <2> QED
    BY <2>8
<1>7. Bits(n) \in Fpn
  BY <1>1, <1>6 DEF Fpn, FPN_MASK, GENMASK
<1>8. ValueOf(Bits(n)) = n
  <2>1. n \in 0 .. top - 1
    BY <1>4
  <2>2. \A m \in 0 .. top - 1 : Bits(m) = Bits(n) => m = n
    <3>1. \A m \in 0 .. top - 1 : m \in Nat /\ m < Pow(16)
      <4>1. PICK e \in Nat : e = Pow(16)
        BY Powers
      <4> QED
        BY <1>5, <4>1
    <3> QED
      BY <2>1, <3>1, BitsApart, Zenon
  <2>3. ValueOf(Bits(n)) = CHOOSE m \in 0 .. top - 1 : Bits(m) = Bits(n)
    BY <1>3, Zenon DEF ValueOf
  <2> QED
    BY <2>1, <2>2, <2>3, Zenon
<1> QED
  BY <1>7, <1>8

-----------------------------------------------------------------------------
(* Frames and entries *)

\* What vmap_page_range writes for a frame of the device names that frame.
LEMMA Written ==
  ASSUME NEW word \in Word, NEW f \in Frame
  PROVE  /\ pte_set_fpn(word, Bits(f)) \in Word
         /\ PAGING_PAGE_PRESENT(pte_set_fpn(word, Bits(f)))
         /\ ValueOf(PAGING_FPN(pte_set_fpn(word, Bits(f)))) = f
<1>1. PICK top \in Nat : top = 2^(FPN_HIBIT + 1)
  <2>1. FPN_HIBIT + 1 \in 0 .. 16
    BY PteAssumption
  <2> QED
    BY <2>1, Powers, Zenon DEF Pow
<1>2. f \in Nat /\ f < top
  BY <1>1, FramesAssumption, MemPhyAssumption DEF Frame
<1>3. Bits(f) \in Fpn /\ ValueOf(Bits(f)) = f
  BY <1>1, <1>2, NumberRoundTrip
<1> QED
  BY <1>3, FrameRoundTrip, Zenon

-----------------------------------------------------------------------------
(* Types, for any number of CPUs *)

\* Where a CPU is in its request, and what it has in hand.
Handed(c) ==
  /\ ~ Working(c) => frm_lst[c] = << >> /\ at[c] = "call"
  /\ Working(c) => Taken(c) \leq request[c].n
  /\ at[c] # "call" => Taken(c) < request[c].n
  /\ at[c] \in {"unlink", "free"} => retfpn[c] \in Frame

Typed == FramesTypeOK /\ \A c \in CPU : Handed(c)

\* The frames and the end of the list are numbers.
LEMMA Nodes == /\ Frame \subseteq Nat /\ NULL \in Nat /\ NULL \notin Frame
               /\ Node \subseteq Nat /\ Frame \subseteq Node
               /\ NULL \in Node /\ 0 \in Frame
               /\ \A k \in Frame : k + 1 \in Node
BY MemPhyAssumption DEF Frame, NULL, Node

\* Typed holds from the start ...
LEMMA TypedFirst == FramesInit => Typed
<1> SUFFICES ASSUME FramesInit PROVE Typed
  OBVIOUS
<1> USE DEF FramesInit, Init
<1>1. TypeOK
  BY Nodes DEF TypeOK, linked
<1>2. pgd \in [Proc -> [Page -> Word]]
  BY FramesAssumption
<1>3. request \in [CPU -> Requests] /\ frm_lst \in [CPU -> Seq(Frame)]
  BY DEF Requests
<1>4. ASSUME NEW c \in CPU PROVE Handed(c)
  BY DEF Handed, Working
<1> QED
  BY <1>1, <1>2, <1>3, <1>4 DEF Typed, FramesTypeOK

\* A request starts with nothing taken.
LEMMA TypedCalled ==
  ASSUME Typed, NEW c \in CPU, vm_map_ram(c)
  PROVE  Typed'
<1>1. PICK p \in Proc, start \in 0 .. PAGES, n \in 0 .. MAX_REQUEST :
        request' = [request EXCEPT ![c] = [proc |-> p, start |-> start, n |-> n]]
  BY DEF vm_map_ram
<1> DEFINE r == [proc |-> p, start |-> start, n |-> n]
<1>2. r \in Requests /\ r.n = n /\ n \in Nat
  BY FramesAssumption DEF Requests
<1> HIDE DEF r
<1>3. request' \in [CPU -> Requests]
  BY <1>1, <1>2 DEF Typed, FramesTypeOK, r
<1>4. UNCHANGED <<vars, pgd, frm_lst>> /\ ~ Working(c)
  BY DEF vm_map_ram
<1>5. TypeOK'
  BY <1>4 DEF vars, TypeOK, Typed, FramesTypeOK
<1>6. FramesTypeOK'
  BY <1>3, <1>4, <1>5 DEF Typed, FramesTypeOK
<1>7. ASSUME NEW d \in CPU PROVE Handed(d)'
  <2>1. at'[d] = at[d] /\ retfpn'[d] = retfpn[d] /\ frm_lst'[d] = frm_lst[d]
    BY <1>4 DEF vars
  <2>2. CASE d = c
    <3>1. request'[c] = r /\ frm_lst[c] = << >> /\ at[c] = "call"
      BY <1>1, <1>4 DEF Typed, FramesTypeOK, Handed, r
    <3>2. Len(frm_lst[c]) \leq n
      BY <1>2, <3>1
    <3> QED
      BY <1>2, <2>1, <2>2, <3>1, <3>2 DEF Handed, Taken
  <2>3. CASE d # c
    <3>1. request'[d] = request[d]
      BY <1>1, <2>3 DEF Typed, FramesTypeOK
    <3> QED
      BY <2>1, <3>1 DEF Handed, Taken, Working, Typed
  <2> QED
    BY <2>2, <2>3
<1> QED
  BY <1>6, <1>7 DEF Typed

\* One access of MEMPHY_get_freefp for a request.
LEMMA TypedTaken ==
  ASSUME Typed, NEW c \in CPU, alloc_pages_range(c)
  PROVE  Typed'
<1> USE DEF Typed, FramesTypeOK
<1>1. Working(c) /\ Taken(c) < request[c].n /\ UNCHANGED pgd
  BY DEF alloc_pages_range
<1>2. CASE read_head(c) /\ free_fp_list = NULL
  <2>1. /\ request' = [request EXCEPT ![c] = Idle]
        /\ frm_lst' = [frm_lst EXCEPT ![c] = << >>]
    BY <1>2 DEF alloc_pages_range, read_head, read_fpn, unlink, free_node
  <2>2. /\ UNCHANGED <<free_fp_list, fp_next, live, retfpn, given, aborted, at>>
        /\ at[c] = "call"
    BY <1>2 DEF read_head
  <2>3. fp' = [fp EXCEPT ![c] = free_fp_list]
    BY <1>2 DEF read_head
  <2>4. TypeOK'
    BY <2>2, <2>3 DEF TypeOK
  <2>5. request' \in [CPU -> Requests] /\ frm_lst' \in [CPU -> Seq(Frame)]
    <3>1. Idle \in Requests /\ << >> \in Seq(Frame)
      BY DEF Requests
    <3> QED
      BY <2>1, <3>1
  <2>6. ASSUME NEW d \in CPU PROVE Handed(d)'
    BY <2>1, <2>2 DEF Handed, Working, Taken
  <2> QED
    BY <1>1, <2>4, <2>5, <2>6
<1>3. CASE read_head(c) /\ free_fp_list # NULL
  <2>1. UNCHANGED <<request, frm_lst>>
    BY <1>3 DEF alloc_pages_range, read_head, read_fpn, unlink, free_node
  <2>2. UNCHANGED <<free_fp_list, fp_next, live, retfpn, given, aborted>>
    BY <1>3 DEF read_head
  <2>3. fp' = [fp EXCEPT ![c] = free_fp_list] /\ at' = [at EXCEPT ![c] = "number"]
    BY <1>3 DEF read_head, Goto
  <2>4. TypeOK'
    BY <2>2, <2>3 DEF TypeOK
  <2>5. ASSUME NEW d \in CPU PROVE Handed(d)'
    BY <1>1, <2>1, <2>2, <2>3 DEF Handed, Working, Taken, TypeOK
  <2> QED
    BY <1>1, <2>1, <2>4, <2>5
<1>4. CASE read_fpn(c)
  <2>1. UNCHANGED <<request, frm_lst>>
    BY <1>4 DEF alloc_pages_range, read_head, read_fpn, unlink, free_node
  <2>2. UNCHANGED <<free_fp_list, fp_next, live, fp, given, aborted>> /\ at[c] = "number"
    BY <1>4 DEF read_fpn
  <2>3. PICK n \in Number(fp[c]) : retfpn' = [retfpn EXCEPT ![c] = n]
    BY <1>4 DEF read_fpn
  <2>4. at' = [at EXCEPT ![c] = "unlink"]
    BY <1>4 DEF read_fpn, Goto
  <2>5. n \in Frame
    BY DEF Number, TypeOK
  <2>6. TypeOK'
    BY <2>2, <2>3, <2>4, <2>5, Nodes DEF TypeOK
  <2>7. ASSUME NEW d \in CPU PROVE Handed(d)'
    BY <1>1, <2>1, <2>2, <2>3, <2>4, <2>5 DEF Handed, Working, Taken, TypeOK
  <2> QED
    BY <1>1, <2>1, <2>6, <2>7
<1>5. CASE unlink(c)
  <2>1. UNCHANGED <<request, frm_lst>>
    BY <1>5 DEF alloc_pages_range, read_head, read_fpn, unlink, free_node
  <2>2. UNCHANGED <<fp_next, live, fp, retfpn, given, aborted>> /\ at[c] = "unlink"
    BY <1>5 DEF unlink
  <2>3. free_fp_list' \in Next_of(fp[c]) /\ at' = [at EXCEPT ![c] = "free"]
    BY <1>5 DEF unlink, Goto
  <2>4. free_fp_list' \in Node
    BY <2>3 DEF Next_of, TypeOK
  <2>5. TypeOK'
    BY <2>2, <2>3, <2>4 DEF TypeOK
  <2>6. ASSUME NEW d \in CPU PROVE Handed(d)'
    BY <1>1, <2>1, <2>2, <2>3 DEF Handed, Working, Taken, TypeOK
  <2> QED
    BY <1>1, <2>1, <2>5, <2>6
<1>6. CASE free_node(c)
  <2>1. frm_lst' = [frm_lst EXCEPT ![c] = Append(@, retfpn[c])] /\ UNCHANGED request
    BY <1>6 DEF alloc_pages_range, append_frame, read_head, read_fpn, unlink, free_node
  <2>2. UNCHANGED <<free_fp_list, fp_next, fp, retfpn>> /\ at[c] = "free"
    BY <1>6 DEF free_node
  <2>3. /\ aborted' = (aborted \/ fp[c] \notin live) /\ live' = live \ {fp[c]}
        /\ given' = [given EXCEPT ![retfpn[c]] = @ + 1] /\ at' = [at EXCEPT ![c] = "call"]
    BY <1>6 DEF free_node, Goto
  <2>4. retfpn[c] \in Frame
    BY <2>2 DEF Handed
  <2>5. TypeOK'
    <3>1. given' \in [Frame -> Nat]
      BY <2>3, <2>4 DEF TypeOK
    <3>2. aborted' \in BOOLEAN
      BY <2>3, Zenon DEF TypeOK
    <3> QED
      BY <2>2, <2>3, <3>1, <3>2 DEF TypeOK
  <2>6. frm_lst[c] \in Seq(Frame)
    OBVIOUS
  <2>7. /\ Append(frm_lst[c], retfpn[c]) \in Seq(Frame)
        /\ Len(Append(frm_lst[c], retfpn[c])) = Len(frm_lst[c]) + 1
        /\ Len(frm_lst[c]) \in Nat
    BY <2>4, <2>6
  <2>8. frm_lst' \in [CPU -> Seq(Frame)]
    BY <2>1, <2>7
  <2>9. frm_lst'[c] = Append(frm_lst[c], retfpn[c])
    BY <2>1
  <2>10. request[c].n \in Nat
    BY <1>1, FramesAssumption DEF Working, Requests
  <2>11. ASSUME NEW d \in CPU PROVE Handed(d)'
    <3>1. CASE d = c
      <4>1. Working(c)' /\ Taken(c)' \leq request[c].n /\ at'[c] = "call"
        BY <1>1, <2>1, <2>3, <2>7, <2>9, <2>10 DEF Working, Taken, TypeOK
      <4> QED
        BY <2>1, <3>1, <4>1 DEF Handed
    <3>2. CASE d # c
      <4>1. /\ frm_lst'[d] = frm_lst[d] /\ at'[d] = at[d] /\ retfpn'[d] = retfpn[d]
            /\ request'[d] = request[d]
        BY <2>1, <2>2, <2>3, <3>2 DEF TypeOK
      <4> QED
        BY <4>1 DEF Handed, Working, Taken
    <3> QED
      BY <3>1, <3>2
  <2> QED
    BY <1>1, <2>1, <2>5, <2>8, <2>11
<1> QED
  BY <1>2, <1>3, <1>4, <1>5, <1>6 DEF alloc_pages_range

\* The mapped pages get words, and the request is over.
LEMMA TypedMapped ==
  ASSUME Typed, NEW c \in CPU, vmap_page_range(c)
  PROVE  Typed'
<1> USE DEF Typed, FramesTypeOK
<1>1. PICK r \in [proc : Proc, start : 0 .. PAGES, n : 0 .. MAX_REQUEST] : r = request[c]
  BY DEF vmap_page_range, Working, Requests
<1>2. PICK l \in Seq(Frame) : l = frm_lst[c] /\ Len(l) = r.n
  BY <1>1 DEF vmap_page_range, Taken
<1>3. r.proc \in Proc /\ r.start \in Nat /\ r.n \in Nat
  BY FramesAssumption
<1> DEFINE Word_of(word, m) == IF m \in r.start .. r.start + r.n - 1
                               THEN pte_set_fpn(word, Bits(l[m - r.start + 1]))
                               ELSE word
<1>4. pgd' = [pgd EXCEPT ![r.proc] = [m \in Page |-> Word_of(pgd[r.proc][m], m)]]
  BY <1>1, <1>2 DEF vmap_page_range, mapped_from
<1>5. ASSUME NEW m \in Page, NEW word \in Word PROVE Word_of(word, m) \in Word
  <2>1. CASE m \in r.start .. r.start + r.n - 1
    <3>1. m - r.start + 1 \in 1 .. Len(l)
      BY <1>2, <1>3, <2>1
    <3>2. l[m - r.start + 1] \in Frame
      BY <3>1
    <3> QED
      BY <2>1, <3>2, Written
  <2> QED
    BY <2>1
<1> HIDE DEF Word_of
<1>6. pgd[r.proc] \in [Page -> Word]
  BY <1>3
<1>7. [m \in Page |-> Word_of(pgd[r.proc][m], m)] \in [Page -> Word]
  BY <1>5, <1>6
<1>8. pgd' \in [Proc -> [Page -> Word]]
  BY <1>4, <1>7
<1>9. /\ request' = [request EXCEPT ![c] = Idle]
      /\ frm_lst' = [frm_lst EXCEPT ![c] = << >>]
      /\ UNCHANGED vars
  BY DEF vmap_page_range
<1>10. request' \in [CPU -> Requests] /\ frm_lst' \in [CPU -> Seq(Frame)]
  <2>1. Idle \in Requests /\ << >> \in Seq(Frame)
    BY DEF Requests
  <2> QED
    BY <1>9, <2>1
<1>11. TypeOK'
  BY <1>9 DEF vars, TypeOK
<1>12. at[c] = "call"
  BY DEF vmap_page_range, Handed, TypeOK, Taken
<1>13. ASSUME NEW d \in CPU PROVE Handed(d)'
  <2>1. at'[d] = at[d] /\ retfpn'[d] = retfpn[d]
    BY <1>9 DEF vars
  <2>2. CASE d = c
    BY <1>9, <1>12, <2>1, <2>2 DEF Handed, Working
  <2>3. CASE d # c
    <3>1. request'[d] = request[d] /\ frm_lst'[d] = frm_lst[d]
      BY <1>9, <2>3
    <3> QED
      BY <2>1, <3>1 DEF Handed, Working, Taken
  <2> QED
    BY <2>2, <2>3
<1> QED
  BY <1>8, <1>10, <1>11, <1>13

\* ... and always.
LEMMA TypedAlways == FramesSpec => []Typed
<1>1. ASSUME Typed, [FramesNext]_<<vars, growVars>> PROVE Typed'
  <2>1. CASE UNCHANGED <<vars, growVars>>
    BY <1>1, <2>1
    DEF Typed, FramesTypeOK, TypeOK, Handed, Working, Taken, vars, growVars
  <2>2. CASE FramesNext
    BY <1>1, <2>2, TypedCalled, TypedTaken, TypedMapped, Zenon DEF FramesNext
  <2> QED
    BY <1>1, <2>1, <2>2
<1> QED
  BY <1>1, TypedFirst, PTL DEF FramesSpec

\* Whatever the accesses of several CPUs do to the free list (mm-memphy.c:155), a
\* table holds words, a list of frames holds frames, and every request stays one.
THEOREM FramesTyped == FramesSpec => []FramesTypeOK
<1>1. Typed => FramesTypeOK
  BY DEF Typed
<1> QED
  BY <1>1, TypedAlways, PTL

-----------------------------------------------------------------------------
(* Frames in line, for one CPU *)

\* The node at the head of the list, counting the one being unlinked and freed.
Base(c) == IF at[c] = "free" THEN fp[c] ELSE free_fp_list

\* The first frame no entry holds.
Fresh(c) == Base(c) - Taken(c)

\* One CPU takes the frames in the order of their numbers: those from Base on are in
\* the list, those before have been given once, and the ones the request in progress
\* has taken are the last of these, in order.
ListInLine(c) ==
  /\ ~ aborted
  /\ fp_next = [k \in Frame |-> k + 1]
  /\ live = Base(c) .. numfp - 1
  /\ given = [k \in Frame |-> IF k < Base(c) THEN 1 ELSE 0]

HandInLine(c) ==
  /\ at[c] \in {"number", "unlink"} => fp[c] = free_fp_list /\ fp[c] \in Frame
  /\ at[c] \in {"unlink", "free"} => retfpn[c] = fp[c]
  /\ at[c] = "free" => fp[c] \in Frame /\ free_fp_list = fp[c] + 1
  /\ Taken(c) \leq Base(c)
  /\ \A i \in 1 .. Taken(c) : frm_lst[c][i] = Fresh(c) + i - 1

EntriesBelow(c) ==
  \A p \in Proc, m \in Page : Entry(p, m) # -1 => Entry(p, m) \in 0 .. Fresh(c) - 1

InLine(c) == ListInLine(c) /\ HandInLine(c) /\ EntriesBelow(c) /\ EntriesApart

\* A table comes from malloc without a present entry (FramesAssumption).
LEMMA EntryFirst ==
  ASSUME FramesInit, NEW p \in Proc, NEW m \in Page
  PROVE  Entry(p, m) = -1
<1>1. ~ PAGING_PAGE_PRESENT(pgd[p][m])
  BY FramesAssumption DEF FramesInit
<1> QED
  BY <1>1 DEF Entry

\* Base and Taken are numbers.
LEMMA BaseType ==
  ASSUME Typed, NEW c \in CPU
  PROVE  Base(c) \in 0 .. numfp /\ Taken(c) \in Nat /\ Fresh(c) \in Int
<1>1. Base(c) \in 0 .. numfp
  BY MemPhyAssumption DEF Base, Typed, FramesTypeOK, TypeOK, Node, Frame, NULL
<1>2. frm_lst[c] \in Seq(Frame)
  BY DEF Typed, FramesTypeOK
<1>3. Taken(c) \in Nat
  BY <1>2 DEF Taken
<1> QED
  BY <1>1, <1>3 DEF Fresh

\* MEMPHY_format leaves every frame in the list.
LEMMA InLineFirst ==
  ASSUME NEW c \in CPU, FramesInit
  PROVE  InLine(c)
<1> USE DEF FramesInit, Init
<1>1. Base(c) = 0 /\ Taken(c) = 0
  BY DEF Base, Taken
<1>2. ListInLine(c)
  <2>1. [k \in Frame |-> linked(k)] = [k \in Frame |-> k + 1]
    BY DEF linked
  <2>2. [k \in Frame |-> 0] = [k \in Frame |-> IF k < 0 THEN 1 ELSE 0]
    BY DEF Frame
  <2> QED
    BY <1>1, <2>1, <2>2 DEF ListInLine, Frame
<1>3. HandInLine(c)
  BY <1>1 DEF HandInLine
<1>4. EntriesBelow(c) /\ EntriesApart
  BY EntryFirst DEF EntriesBelow, EntriesApart
<1> QED
  BY <1>2, <1>3, <1>4 DEF InLine

\* A step that writes no table and takes no frame back leaves the entries alone.
LEMMA EntriesKept ==
  ASSUME NEW c \in CPU, EntriesBelow(c), EntriesApart, UNCHANGED pgd,
         Fresh(c) \in Int, Fresh(c)' \in Int, Fresh(c) \leq Fresh(c)'
  PROVE  EntriesBelow(c)' /\ EntriesApart'
<1>1. \A p, m : Entry(p, m)' = Entry(p, m)
  BY DEF Entry
<1>2. EntriesBelow(c)'
  BY <1>1 DEF EntriesBelow
<1>3. EntriesApart'
  BY <1>1 DEF EntriesApart
<1> QED
  BY <1>2, <1>3

\* vm_map_ram's checks touch neither list nor tables.
LEMMA InLineCalled ==
  ASSUME Typed, NEW c \in CPU, InLine(c), vm_map_ram(c)
  PROVE  InLine(c)'
<1>1. UNCHANGED <<vars, pgd, frm_lst>>
  BY DEF vm_map_ram
<1>2. Base(c)' = Base(c) /\ Taken(c)' = Taken(c) /\ Fresh(c)' = Fresh(c)
  BY <1>1 DEF Base, Taken, Fresh, vars
<1>3. ListInLine(c)'
  BY <1>1, <1>2 DEF InLine, ListInLine, vars
<1>4. HandInLine(c)'
  BY <1>1, <1>2 DEF InLine, HandInLine, vars
<1>5. EntriesBelow(c)' /\ EntriesApart'
  BY <1>1, <1>2, BaseType, EntriesKept DEF InLine
<1> QED
  BY <1>3, <1>4, <1>5 DEF InLine

\* A frame passes from the list to the request without a gap; one that fails loses
\* what it has taken, and the list is empty then.
LEMMA InLineTaken ==
  ASSUME Typed, Typed', NEW c \in CPU, InLine(c), alloc_pages_range(c)
  PROVE  /\ InLine(c)'
         /\ Fresh(c)' = Fresh(c) \/ (Base(c) = numfp /\ Fresh(c)' = numfp)
<1>1. ListInLine(c) /\ HandInLine(c) /\ EntriesBelow(c) /\ EntriesApart
  BY DEF InLine
<1>2. TypeOK /\ frm_lst \in [CPU -> Seq(Frame)] /\ frm_lst[c] \in Seq(Frame)
  BY DEF Typed, FramesTypeOK
<1>3. Base(c) \in 0 .. numfp /\ Taken(c) \in Nat /\ Fresh(c) \in Int
  BY BaseType
<1>4. Base(c)' \in Int /\ Taken(c)' \in Nat /\ Fresh(c)' \in Int
  <2>1. TypeOK' /\ frm_lst' \in [CPU -> Seq(Frame)]
    BY DEF Typed, FramesTypeOK
  <2>2. Base(c)' \in Int
    BY <2>1, MemPhyAssumption DEF Base, TypeOK, Node, Frame, NULL
  <2>3. frm_lst'[c] \in Seq(Frame)
    BY <2>1
  <2>4. Taken(c)' \in Nat
    BY <2>3 DEF Taken
  <2> QED
    BY <2>2, <2>4 DEF Fresh
<1>5. UNCHANGED pgd
  BY DEF alloc_pages_range
<1>6. numfp \in Nat
  BY MemPhyAssumption
<1>7. CASE read_head(c) /\ free_fp_list = NULL
  <2>1. /\ UNCHANGED <<free_fp_list, fp_next, live, retfpn, given, aborted, at>>
        /\ at[c] = "call"
    BY <1>7 DEF read_head
  <2>2. frm_lst'[c] = << >>
    BY <1>2, <1>7 DEF alloc_pages_range, read_head, read_fpn, unlink, free_node
  <2>3. Base(c)' = Base(c) /\ Taken(c)' = 0 /\ Fresh(c)' = Base(c)
    BY <1>3, <2>1, <2>2 DEF Base, Taken, Fresh
  <2>4. ListInLine(c)'
    BY <1>1, <2>1, <2>3 DEF ListInLine
  <2>5. HandInLine(c)'
    BY <1>3, <2>1, <2>3 DEF HandInLine
  <2>6. Fresh(c) \leq Fresh(c)'
    BY <1>3, <2>3 DEF Fresh
  <2>7. Base(c) = numfp
    BY <1>7, <2>1 DEF Base, NULL
  <2>8. EntriesBelow(c)' /\ EntriesApart'
    BY <1>1, <1>3, <1>4, <1>5, <2>6, EntriesKept
  <2> QED
    BY <2>3, <2>4, <2>5, <2>7, <2>8 DEF InLine
<1>8. CASE read_head(c) /\ free_fp_list # NULL
  <2>1. /\ UNCHANGED <<free_fp_list, fp_next, live, retfpn, given, aborted, frm_lst>>
        /\ at[c] = "call" /\ at'[c] = "number" /\ fp'[c] = free_fp_list
    BY <1>2, <1>8
    DEF alloc_pages_range, read_head, read_fpn, unlink, free_node, Goto, TypeOK
  <2>2. Base(c)' = Base(c) /\ Taken(c)' = Taken(c) /\ Fresh(c)' = Fresh(c)
    BY <2>1 DEF Base, Taken, Fresh
  <2>3. ListInLine(c)'
    BY <1>1, <2>1, <2>2 DEF ListInLine
  <2>4. HandInLine(c)'
    <3>1. free_fp_list \in Frame
      BY <1>2, <1>8 DEF TypeOK, Node
    <3> QED
      BY <1>1, <2>1, <2>2, <3>1 DEF HandInLine
  <2>5. EntriesBelow(c)' /\ EntriesApart'
    BY <1>1, <1>3, <1>4, <1>5, <2>2, EntriesKept
  <2> QED
    BY <2>2, <2>3, <2>4, <2>5 DEF InLine
<1>9. CASE read_fpn(c)
  <2>1. /\ UNCHANGED <<free_fp_list, fp_next, live, fp, given, aborted, frm_lst>>
        /\ at[c] = "number" /\ at'[c] = "unlink"
    BY <1>2, <1>9
    DEF alloc_pages_range, read_head, read_fpn, unlink, free_node, Goto, TypeOK
  <2>2. Base(c)' = Base(c) /\ Taken(c)' = Taken(c) /\ Fresh(c)' = Fresh(c)
    BY <2>1 DEF Base, Taken, Fresh
  <2>3. ListInLine(c)'
    BY <1>1, <2>1, <2>2 DEF ListInLine
  <2>4. HandInLine(c)'
    <3>1. fp[c] = free_fp_list /\ fp[c] \in Frame /\ Base(c) = free_fp_list
      BY <1>1, <2>1 DEF HandInLine, Base
    <3>2. fp[c] \in live
      BY <1>1, <1>3, <1>6, <3>1 DEF ListInLine, Frame
    <3>3. retfpn'[c] = fp[c]
      BY <1>2, <1>9, <3>2 DEF read_fpn, Number, TypeOK
    <3> QED
      BY <1>1, <2>1, <2>2, <3>1, <3>3 DEF HandInLine
  <2>5. EntriesBelow(c)' /\ EntriesApart'
    BY <1>1, <1>3, <1>4, <1>5, <2>2, EntriesKept
  <2> QED
    BY <2>2, <2>3, <2>4, <2>5 DEF InLine
<1>10. CASE unlink(c)
  <2>1. /\ UNCHANGED <<fp_next, live, fp, retfpn, given, aborted, frm_lst>>
        /\ at[c] = "unlink" /\ at'[c] = "free"
    BY <1>2, <1>10
    DEF alloc_pages_range, read_head, read_fpn, unlink, free_node, Goto, TypeOK
  <2>2. fp[c] = free_fp_list /\ fp[c] \in Frame /\ Base(c) = free_fp_list
    BY <1>1, <2>1 DEF HandInLine, Base
  <2>3. fp[c] \in live
    BY <1>1, <1>3, <1>6, <2>2 DEF ListInLine, Frame
  <2>4. free_fp_list' = fp[c] + 1
    BY <1>1, <1>10, <2>2, <2>3 DEF unlink, Next_of, ListInLine
  <2>5. Base(c)' = Base(c) /\ Taken(c)' = Taken(c) /\ Fresh(c)' = Fresh(c)
    BY <2>1, <2>2 DEF Base, Taken, Fresh
  <2>6. ListInLine(c)'
    BY <1>1, <2>1, <2>5 DEF ListInLine
  <2>7. HandInLine(c)'
    BY <1>1, <2>1, <2>2, <2>4, <2>5 DEF HandInLine
  <2>8. EntriesBelow(c)' /\ EntriesApart'
    BY <1>1, <1>3, <1>4, <1>5, <2>5, EntriesKept
  <2> QED
    BY <2>5, <2>6, <2>7, <2>8 DEF InLine
<1>11. CASE free_node(c)
  <2>1. /\ UNCHANGED <<free_fp_list, fp_next, fp, retfpn>>
        /\ at[c] = "free" /\ at'[c] = "call"
        /\ aborted' = (aborted \/ fp[c] \notin live) /\ live' = live \ {fp[c]}
        /\ given' = [given EXCEPT ![retfpn[c]] = @ + 1]
    BY <1>2, <1>11 DEF free_node, Goto, TypeOK
  <2>2. frm_lst'[c] = Append(frm_lst[c], retfpn[c])
    BY <1>2, <1>11
    DEF alloc_pages_range, append_frame, read_head, read_fpn, unlink, free_node
  <2>3. /\ fp[c] \in Frame /\ free_fp_list = fp[c] + 1 /\ retfpn[c] = fp[c]
        /\ Base(c) = fp[c] /\ Base(c)' = fp[c] + 1
    BY <1>1, <2>1 DEF HandInLine, Base
  <2>4. PICK b \in Frame : b = fp[c]
    BY <2>3
  <2>5. b \in Nat /\ b \leq numfp - 1
    BY <1>6 DEF Frame
  <2>6. /\ Taken(c)' = Taken(c) + 1
        /\ \A i \in 1 .. Taken(c) : frm_lst'[c][i] = frm_lst[c][i]
        /\ frm_lst'[c][Taken(c) + 1] = b
    BY <1>2, <2>2, <2>3, <2>4 DEF Taken
  <2>7. Fresh(c)' = Fresh(c)
    BY <1>3, <2>3, <2>4, <2>5, <2>6 DEF Fresh
  <2>8. ListInLine(c)'
    <3>1. live = b .. numfp - 1
      BY <1>1, <2>3, <2>4 DEF ListInLine
    <3>2. ~ aborted'
      <4>1. fp[c] \in live
        BY <1>6, <2>4, <2>5, <3>1
      <4> QED
        BY <1>1, <2>1, <4>1, Zenon DEF ListInLine
    <3>3. live' = b + 1 .. numfp - 1
      BY <1>6, <2>1, <2>4, <2>5, <3>1
    <3>4. given' = [k \in Frame |-> IF k < b + 1 THEN 1 ELSE 0]
      <4>1. given = [k \in Frame |-> IF k < b THEN 1 ELSE 0]
        BY <1>1, <2>3, <2>4 DEF ListInLine
      <4>2. given' = [given EXCEPT ![b] = given[b] + 1]
        BY <2>1, <2>3, <2>4
      <4>3. given[b] = 0
        BY <2>5, <4>1
      <4>4. given' = [k \in Frame |-> IF k = b THEN given[b] + 1 ELSE given[k]]
        BY <4>1, <4>2, Zenon
      <4>5. \A k \in Frame :
              (IF k = b THEN given[b] + 1 ELSE given[k]) = (IF k < b + 1 THEN 1 ELSE 0)
        <5>1. \A k \in Frame : k \in Nat
          BY <1>6 DEF Frame
        <5>2. ASSUME NEW k \in Frame
              PROVE  (IF k = b THEN given[b] + 1 ELSE given[k])
                       = (IF k < b + 1 THEN 1 ELSE 0)
          <6>1. given[k] = (IF k < b THEN 1 ELSE 0)
            BY <4>1
          <6> QED
            BY <2>5, <4>3, <5>1, <6>1
        <5> QED
          BY <5>2
      <4> QED
        BY <4>4, <4>5
    <3> QED
      BY <1>1, <2>1, <2>3, <2>4, <3>2, <3>3, <3>4 DEF ListInLine
  <2>9. HandInLine(c)'
    <3>1. Taken(c)' \leq Base(c)'
      BY <1>1, <1>3, <2>3, <2>4, <2>5, <2>6 DEF HandInLine
    <3>2. ASSUME NEW i \in 1 .. Taken(c)' PROVE frm_lst'[c][i] = Fresh(c)' + i - 1
      <4>1. CASE i \in 1 .. Taken(c)
        BY <1>1, <2>6, <2>7, <4>1 DEF HandInLine
      <4>2. CASE i = Taken(c) + 1
        <5>1. Fresh(c) + (Taken(c) + 1) - 1 = b
          BY <1>3, <2>3, <2>4, <2>5 DEF Fresh
        <5> QED
          BY <2>6, <2>7, <4>2, <5>1
      <4> QED
        BY <1>3, <2>6, <4>1, <4>2
    <3> QED
      BY <2>1, <3>1, <3>2 DEF HandInLine
  <2>10. EntriesBelow(c)' /\ EntriesApart'
    BY <1>1, <1>3, <1>4, <1>5, <2>7, EntriesKept
  <2> QED
    BY <2>7, <2>8, <2>9, <2>10 DEF InLine
<1> QED
  BY <1>7, <1>8, <1>9, <1>10, <1>11 DEF alloc_pages_range

\* The frames a request has taken go to its pages, in order; the entries of all other
\* pages keep theirs.
LEMMA EntriesMapped ==
  ASSUME Typed, NEW c \in CPU, InLine(c), vmap_page_range(c)
  PROVE  \E p \in Proc, s \in 0 .. PAGES, n \in 0 .. MAX_REQUEST :
           /\ n = Taken(c)
           /\ \A q \in Proc, m \in Page :
                Entry(q, m)' = IF q = p /\ m \in s .. s + n - 1
                               THEN Fresh(c) + (m - s) ELSE Entry(q, m)
<1>1. PICK p \in Proc, s \in 0 .. PAGES, n \in 0 .. MAX_REQUEST :
        request[c] = [proc |-> p, start |-> s, n |-> n]
  BY DEF vmap_page_range, Working, Requests, Typed, FramesTypeOK
<1>2. n = Taken(c) /\ n \in Nat /\ s \in Nat
  BY <1>1, FramesAssumption DEF vmap_page_range
<1>3. Fresh(c) \in Int
  BY BaseType
<1>4. pgd' = [pgd EXCEPT ![p] = [m \in Page |->
                IF m \in s .. s + n - 1
                THEN pte_set_fpn(@[m], Bits(frm_lst[c][mapped_from(c, m)]))
                ELSE @[m]]]
  BY <1>1 DEF vmap_page_range
<1>5. pgd \in [Proc -> [Page -> Word]] /\ frm_lst[c] \in Seq(Frame)
  BY DEF Typed, FramesTypeOK
<1>6. ASSUME NEW q \in Proc, NEW m \in Page
      PROVE  Entry(q, m)' = IF q = p /\ m \in s .. s + n - 1
                            THEN Fresh(c) + (m - s) ELSE Entry(q, m)
  <2>1. CASE q = p /\ m \in s .. s + n - 1
    <3>1. PICK i \in 1 .. n : i = m - s + 1 /\ mapped_from(c, m) = i
      BY <1>1, <1>2, <2>1 DEF mapped_from
    <3>2. PICK f \in Frame : f = frm_lst[c][i] /\ f = Fresh(c) + i - 1
      BY <1>2, <1>5, <3>1 DEF InLine, HandInLine, Taken
    <3>3. pgd'[q][m] = pte_set_fpn(pgd[q][m], Bits(f))
      BY <1>4, <1>5, <2>1, <3>1, <3>2
    <3>4. pgd[q][m] \in Word
      BY <1>5
    <3>5. Entry(q, m)' = f
      BY <3>3, <3>4, Written, Zenon DEF Entry
    <3>6. f = Fresh(c) + (m - s)
      BY <1>2, <1>3, <2>1, <3>1, <3>2
    <3> QED
      BY <2>1, <3>5, <3>6
  <2>2. CASE ~ (q = p /\ m \in s .. s + n - 1)
    <3>1. pgd'[q][m] = pgd[q][m]
      BY <1>4, <1>5, <2>2
    <3>2. Entry(q, m)' = Entry(q, m)
      BY <3>1, Zenon DEF Entry
    <3> QED
      BY <2>2, <3>2
  <2> QED
    BY <2>1, <2>2
<1> QED
  BY <1>1, <1>2, <1>6

\* The entries written are new ones, above all that were there and below the list.
LEMMA InLineMapped ==
  ASSUME Typed, NEW c \in CPU, InLine(c), vmap_page_range(c)
  PROVE  InLine(c)'
<1>1. PICK p \in Proc, s \in 0 .. PAGES, n \in 0 .. MAX_REQUEST :
        /\ n = Taken(c)
        /\ \A q \in Proc, m \in Page :
             Entry(q, m)' = IF q = p /\ m \in s .. s + n - 1
                            THEN Fresh(c) + (m - s) ELSE Entry(q, m)
  BY EntriesMapped
<1>2. ListInLine(c) /\ HandInLine(c) /\ EntriesBelow(c) /\ EntriesApart
  BY DEF InLine
<1>3. UNCHANGED vars /\ frm_lst'[c] = << >>
  BY DEF vmap_page_range, Typed, FramesTypeOK
<1>4. PICK b \in Nat, t \in Int : b = Base(c) /\ t = Fresh(c) /\ t = b - n /\ t \in Nat
  BY <1>1, <1>2, BaseType DEF Fresh, HandInLine
<1>5. Base(c)' = b /\ Taken(c)' = 0 /\ Fresh(c)' = b
  BY <1>3, <1>4 DEF Base, Taken, Fresh, vars
<1>6. ListInLine(c)'
  BY <1>2, <1>3, <1>4, <1>5 DEF ListInLine, vars
<1>7. HandInLine(c)'
  BY <1>2, <1>3, <1>4, <1>5 DEF HandInLine, vars
<1>8. s \in Nat /\ n \in Nat /\ \A m \in Page : m \in Int
  BY FramesAssumption DEF Page
<1>9. EntriesBelow(c)'
  <2>1. ASSUME NEW q \in Proc, NEW m \in Page, Entry(q, m)' # -1
        PROVE  Entry(q, m)' \in 0 .. b - 1
    <3>1. CASE q = p /\ m \in s .. s + n - 1
      BY <1>1, <1>4, <1>8, <3>1
    <3>2. CASE ~ (q = p /\ m \in s .. s + n - 1)
      <4>1. Entry(q, m)' = Entry(q, m)
        BY <1>1, <3>2
      <4>2. Entry(q, m) \in 0 .. t - 1
        BY <1>2, <1>4, <2>1, <4>1 DEF EntriesBelow
      <4> QED
        BY <1>1, <1>4, <4>1, <4>2
    <3> QED
      BY <3>1, <3>2
  <2> QED
    BY <1>5, <2>1 DEF EntriesBelow
<1>10. EntriesApart'
  <2> DEFINE New(q, m) == q = p /\ m \in s .. s + n - 1
  <2>1. ASSUME NEW q \in Proc, NEW o \in Proc, NEW m \in Page, NEW k \in Page,
               Entry(q, m)' # -1, Entry(q, m)' = Entry(o, k)'
        PROVE  q = o /\ m = k
    <3>1. CASE New(q, m) /\ New(o, k)
      <4>1. Entry(q, m)' = t + (m - s) /\ Entry(o, k)' = t + (k - s)
        BY <1>1, <1>4, <3>1
      <4> QED
        BY <1>4, <1>8, <2>1, <3>1, <4>1
    <3>2. CASE New(q, m) /\ ~ New(o, k)
      <4>1. Entry(q, m)' = t + (m - s) /\ Entry(o, k)' = Entry(o, k)
        BY <1>1, <1>4, <3>2
      <4>2. Entry(o, k) \in 0 .. t - 1
        BY <1>2, <1>4, <2>1, <4>1 DEF EntriesBelow
      <4> QED
        BY <1>4, <1>8, <2>1, <3>2, <4>1, <4>2
    <3>3. CASE ~ New(q, m) /\ New(o, k)
      <4>1. Entry(o, k)' = t + (k - s) /\ Entry(q, m)' = Entry(q, m)
        BY <1>1, <1>4, <3>3
      <4>2. Entry(q, m) \in 0 .. t - 1
        BY <1>2, <1>4, <2>1, <4>1 DEF EntriesBelow
      <4> QED
        BY <1>4, <1>8, <2>1, <3>3, <4>1, <4>2
    <3>4. CASE ~ New(q, m) /\ ~ New(o, k)
      <4>1. Entry(q, m)' = Entry(q, m) /\ Entry(o, k)' = Entry(o, k)
        BY <1>1, <3>4
      <4> QED
        BY <1>2, <2>1, <4>1 DEF EntriesApart
    <3> QED
      BY <3>1, <3>2, <3>3, <3>4
  <2> QED
    BY <2>1 DEF EntriesApart
<1> QED
  BY <1>6, <1>7, <1>9, <1>10 DEF InLine

\* On one CPU the frames are in line in every state.
LEMMA InLineAlways ==
  ASSUME NEW c, CPU = {c}
  PROVE  FramesSpec => []InLine(c)
<1>0. c \in CPU
  OBVIOUS
<1>1. FramesInit => InLine(c)
  BY <1>0, InLineFirst
<1>2. ASSUME Typed, Typed', InLine(c), [FramesNext]_<<vars, growVars>>
      PROVE  InLine(c)'
  <2>1. CASE UNCHANGED <<vars, growVars>>
    <3>1. /\ Base(c)' = Base(c) /\ Taken(c)' = Taken(c) /\ Fresh(c)' = Fresh(c)
          /\ UNCHANGED pgd
      BY <2>1 DEF Base, Taken, Fresh, vars, growVars
    <3>2. ListInLine(c)'
      BY <1>2, <2>1, <3>1 DEF InLine, ListInLine, vars
    <3>3. HandInLine(c)'
      BY <1>2, <2>1, <3>1 DEF InLine, HandInLine, vars, growVars
    <3>4. EntriesBelow(c)' /\ EntriesApart'
      BY <1>0, <1>2, <3>1, BaseType, EntriesKept DEF InLine
    <3> QED
      BY <3>2, <3>3, <3>4 DEF InLine
  <2>2. CASE FramesNext
    <3>1. vm_map_ram(c) \/ alloc_pages_range(c) \/ vmap_page_range(c)
      BY <2>2 DEF FramesNext
    <3> QED
      BY <1>0, <1>2, <3>1, InLineCalled, InLineTaken, InLineMapped
  <2> QED
    BY <1>2, <2>1, <2>2
<1> QED
  BY <1>1, <1>2, TypedAlways, PTL DEF FramesSpec

\* One CPU never gets a frame twice and never frees a node twice, for every number of
\* frames and every sequence of requests (mm-memphy.c:155).  With two CPUs TLC finds
\* a frame given to both (run MemPhyTwo).
THEOREM GivenOnceByOne ==
  ASSUME NEW c, CPU = {c}
  PROVE  FramesSpec => []FrameGivenOnce
<1>1. InLine(c) => FrameGivenOnce
  BY DEF InLine, ListInLine, FrameGivenOnce
<1> QED
  BY <1>1, InLineAlways, PTL

\* As long as one CPU maps pages (vmap_page_range, mm.c:99), no two present entries
\* name one frame: the number survives the bit field, and no frame is handed on twice.
THEOREM EntriesStayApart ==
  ASSUME NEW c, CPU = {c}
  PROVE  FramesSpec => []EntriesApart
<1>1. InLine(c) => EntriesApart
  BY DEF InLine
<1> QED
  BY <1>1, InLineAlways, PTL

-----------------------------------------------------------------------------
(* The list as FramePool has it *)

\* The frames from b on, in order.
Run(b) == [i \in 1 .. numfp - b |-> b + i - 1]

\* A run is a sequence of frames.
LEMMA RunIs ==
  ASSUME NEW b \in 0 .. numfp
  PROVE  /\ Run(b) \in Seq(Frame) /\ Len(Run(b)) = numfp - b
         /\ \A i \in 1 .. numfp - b : Run(b)[i] = b + i - 1
<1>1. numfp \in Nat /\ numfp - b \in Nat
  BY MemPhyAssumption
<1>2. \A i \in 1 .. numfp - b : b + i - 1 \in Frame
  BY <1>1 DEF Frame
<1>3. Run(b) \in [1 .. numfp - b -> Frame]
  BY <1>2 DEF Run
<1>4. Run(b) \in Seq(Frame) /\ Len(Run(b)) = numfp - b
  BY <1>1, <1>3
<1> QED
  BY <1>4 DEF Run

\* Frames that end where a run starts make one run with it.
LEMMA RunJoined ==
  ASSUME NEW b \in 0 .. numfp, NEW l \in Seq(Frame), Len(l) \leq b,
         \A i \in 1 .. Len(l) : l[i] = b - Len(l) + i - 1
  PROVE  l \o Run(b) = Run(b - Len(l))
<1>1. PICK t \in Nat : t = Len(l)
  OBVIOUS
<1>2. PICK n \in Nat : n = numfp
  BY MemPhyAssumption
<1>3. b \in 0 .. n /\ b - t \in 0 .. n /\ t \leq b
  BY <1>1, <1>2
<1>4. PICK r \in Seq(Frame) : /\ r = Run(b) /\ Len(r) = n - b
                              /\ \A i \in 1 .. n - b : r[i] = b + i - 1
  BY <1>2, RunIs
<1>5. PICK q \in Seq(Frame) : /\ q = Run(b - t) /\ Len(q) = n - (b - t)
                              /\ \A i \in 1 .. n - (b - t) : q[i] = b - t + i - 1
  BY <1>2, <1>3, RunIs
<1>6. l \o r \in Seq(Frame) /\ Len(l \o r) = t + (n - b)
  <2>1. l \o r \in Seq(Frame) /\ Len(l \o r) = Len(l) + Len(r)
    BY <1>4, ConcatProperties
  <2> QED
    BY <1>1, <1>4, <2>1
<1>7. ASSUME NEW i \in 1 .. t + (n - b) PROVE (l \o r)[i] = q[i]
  <2>1. q[i] = b - t + i - 1
    BY <1>3, <1>5
  <2>2. CASE i \leq t
    BY <1>1, <1>4, <2>1, <2>2
  <2>3. CASE i > t
    <3>1. (l \o r)[i] = r[i - t] /\ i - t \in 1 .. n - b
      BY <1>1, <1>3, <1>4, <2>3
    <3> QED
      BY <1>3, <1>4, <2>1, <3>1
  <2>4. i \leq t \/ i > t
    BY <1>3
  <2> QED
    BY <2>2, <2>3, <2>4
<1>8. l \o r = q
  <2>1. Len(q) = t + (n - b)
    BY <1>3, <1>5
  <2>2. \A i \in 1 .. Len(q) : (l \o r)[i] = q[i]
    BY <1>7, <2>1
  <2> QED
    BY <1>5, <1>6, <2>1, <2>2, SeqEqual, Zenon
<1> QED
  BY <1>1, <1>4, <1>5, <1>8

\* While every node points to the one of the next frame, FollowedBy is a run: it is
\* the only function that solves its equation.
LEMMA FollowedIs ==
  ASSUME fp_next = [k \in Frame |-> k + 1], NEW k \in Node
  PROVE  FollowedBy[k] = Run(k)
<1> DEFINE Solves(f) == f = [n \in Node |-> IF n = NULL THEN << >>
                                                        ELSE <<n>> \o f[fp_next[n]]]
           R == [n \in Node |-> Run(n)]
<1>1. FollowedBy = CHOOSE f : Solves(f)
  BY Zenon DEF FollowedBy
<1> HIDE DEF Solves, R
<1>2. Run(NULL) = << >>
  BY MemPhyAssumption DEF Run, NULL
<1>3. ASSUME NEW n \in Frame PROVE Run(n) = <<n>> \o Run(fp_next[n])
  <2>1. fp_next[n] = n + 1 /\ n + 1 \in 0 .. numfp /\ n \in Nat
    BY MemPhyAssumption DEF Frame
  <2>2. PICK m \in 0 .. numfp : m = n + 1 /\ m - 1 = n
    BY <2>1
  <2>3. PICK l \in Seq(Frame) : l = <<n>> /\ Len(l) = 1 /\ l[1] = n
    <3>1. <<n>> \in Seq(Frame) /\ Len(<<n>>) = 1 /\ <<n>>[1] = n
      OBVIOUS
    <3> QED
      BY <3>1, Zenon
  <2>4. Len(l) \leq m /\ \A i \in 1 .. Len(l) : l[i] = m - Len(l) + i - 1
    BY <2>1, <2>2, <2>3
  <2>5. l \o Run(m) = Run(m - Len(l))
    BY <2>4, RunJoined
  <2> QED
    BY <2>1, <2>2, <2>3, <2>5
<1>4. Solves(R)
  <2>1. \A n \in Frame : fp_next[n] \in Node
    BY Nodes
  <2>2. \A n \in Node : n # NULL => n \in Frame
    BY DEF Node
  <2>3. \A n \in Node : Run(n) = IF n = NULL THEN << >> ELSE <<n>> \o R[fp_next[n]]
    BY <1>2, <1>3, <2>1, <2>2 DEF R
  <2> QED
    BY <2>3 DEF Solves, R
<1>5. Solves(FollowedBy)
  <2> QED
    BY <1>1, <1>4, Zenon
<1>6. \A n \in Node : FollowedBy[n] = IF n = NULL THEN << >>
                                                  ELSE <<n>> \o FollowedBy[fp_next[n]]
  BY <1>5, Zenon DEF Solves
<1>7. PICK top \in Nat : top = numfp /\ top = NULL
  BY MemPhyAssumption DEF NULL
<1> DEFINE Right(j) == FollowedBy[top - j] = Run(top - j)
           T == {j \in 0 .. top : ~ Right(j)}
<1>8. T = {}
  <2>1. SUFFICES ASSUME T # {} PROVE FALSE
    OBVIOUS
  <2>2. PICK j \in T : \A i \in T : j \leq i
    <3>1. T \in SUBSET Nat
      OBVIOUS
    <3> HIDE DEF T
    <3> QED
      BY <2>1, <3>1, LeastNumber
  <2>3. Right(0)
    <3>1. FollowedBy[NULL] = << >>
      BY <1>6, Nodes, Zenon
    <3>2. top - 0 = NULL
      BY <1>7
    <3> QED
      BY <1>2, <3>1, <3>2
  <2>4. \A i \in 0 .. top : i \notin T => Right(i)
    OBVIOUS
  <2>5. ~ Right(j) /\ j \in 0 .. top
    OBVIOUS
  <2> HIDE DEF T, Right
  <2>6. j # 0
    BY <2>3, <2>5
  <2>7. j - 1 \in 0 .. top /\ ~ (j \leq j - 1)
    BY <2>5, <2>6
  <2>8. Right(j - 1)
    BY <2>2, <2>4, <2>7
  <2>9. PICK n \in Frame : n = top - j /\ n + 1 = top - (j - 1)
    BY <1>7, <2>5, <2>6 DEF Frame
  <2>10. fp_next[n] = n + 1 /\ n \in Node /\ n # NULL
    BY Nodes
  <2>11. FollowedBy[n + 1] = Run(n + 1)
    BY <2>8, <2>9, Zenon DEF Right
  <2>12. FollowedBy[n] = <<n>> \o FollowedBy[n + 1]
    BY <1>6, <2>10, Zenon
  <2>13. Run(n) = <<n>> \o Run(n + 1)
    BY <1>3, <2>10, Zenon
  <2>14. Right(j)
    BY <2>9, <2>11, <2>12, <2>13, Zenon DEF Right
  <2> QED
    BY <2>5, <2>14
<1>9. top - k \in 0 .. top /\ top - (top - k) = k
  BY <1>7 DEF Node, Frame
<1>10. Right(top - k)
  <2>1. \A i \in 0 .. top : i \notin T => Right(i)
    OBVIOUS
  <2> HIDE DEF T, Right
  <2> QED
    BY <1>8, <1>9, <2>1
<1> QED
  BY <1>9, <1>10, Zenon

\* What one CPU has taken, what it has in hand and the list make one run.
LEMMA AvailableIs ==
  ASSUME Typed, NEW c \in CPU, InLine(c)
  PROVE  Available(c) = Run(Fresh(c)) /\ Fresh(c) \in 0 .. numfp
<1>1. PICK l \in Seq(Frame), t \in Nat : l = frm_lst[c] /\ t = Len(l) /\ t = Taken(c)
  <2>1. frm_lst[c] \in Seq(Frame)
    BY DEF Typed, FramesTypeOK
  <2> QED
    BY <2>1 DEF Taken
<1>2. PICK n \in Nat : n = numfp
  BY MemPhyAssumption
<1>3. PICK b \in 0 .. n : b = Base(c)
  BY <1>2, BaseType
<1>4. t \leq b /\ Fresh(c) = b - t /\ \A i \in 1 .. t : l[i] = b - t + i - 1
  BY <1>1, <1>3 DEF InLine, HandInLine, Fresh
<1>5. l \o Run(b) = Run(b - t)
  BY <1>1, <1>2, <1>3, <1>4, RunJoined
<1>6. free_fp_list \in Node /\ FollowedBy[free_fp_list] = Run(free_fp_list)
  <2>1. free_fp_list \in Node /\ fp_next = [k \in Frame |-> k + 1]
    BY DEF Typed, FramesTypeOK, TypeOK, InLine, ListInLine
  <2> QED
    BY <2>1, FollowedIs
<1>7. CASE at[c] # "free"
  <2>1. Available(c) = (l \o << >>) \o Run(b)
    BY <1>1, <1>3, <1>6, <1>7 DEF Available, Base
  <2>2. l \o << >> = l
    OBVIOUS
  <2> QED
    BY <1>2, <1>4, <1>5, <2>1, <2>2
<1>8. CASE at[c] = "free"
  <2>1. b \in Frame /\ free_fp_list = b + 1 /\ retfpn[c] = b
    BY <1>3, <1>8 DEF InLine, HandInLine, Base
  <2>2. Available(c) = (l \o <<b>>) \o Run(b + 1)
    BY <1>1, <1>6, <1>8, <2>1 DEF Available
  <2>3. PICK h \in Seq(Frame) : h = <<b>> /\ Len(h) = 1 /\ h[1] = b
    <3>1. <<b>> \in Seq(Frame) /\ Len(<<b>>) = 1 /\ <<b>>[1] = b
      BY <2>1
    <3> QED
      BY <3>1, Zenon
  <2>4. PICK q \in Seq(Frame) : /\ q = l \o h /\ Len(q) = t + 1
                                /\ \A i \in 1 .. t : q[i] = l[i]
                                /\ q[t + 1] = b
    <3>1. /\ l \o h \in Seq(Frame) /\ Len(l \o h) = Len(l) + Len(h)
          /\ \A i \in 1 .. Len(l) + Len(h) :
               (l \o h)[i] = IF i \leq Len(l) THEN l[i] ELSE h[i - Len(l)]
      BY ConcatProperties
    <3>2. \A i \in 1 .. t : (l \o h)[i] = l[i]
      BY <1>1, <2>3, <3>1
    <3>3. (l \o h)[t + 1] = b
      <4>1. t + 1 \in 1 .. Len(l) + Len(h)
        BY <1>1, <2>3
      <4>2. (l \o h)[t + 1] = IF t + 1 \leq t THEN l[t + 1] ELSE h[(t + 1) - t]
        BY <1>1, <3>1, <4>1, Zenon
      <4>3. ~ (t + 1 \leq t) /\ (t + 1) - t = 1
        OBVIOUS
      <4> QED
        BY <2>3, <4>2, <4>3, Zenon
    <3> QED
      BY <1>1, <2>3, <3>1, <3>2, <3>3
  <2>5. PICK m \in 0 .. numfp : m = b + 1 /\ b \in Nat
    BY <1>2, <2>1 DEF Frame
  <2>6. \A i \in 1 .. Len(q) : q[i] = m - Len(q) + i - 1
    <3>1. ASSUME NEW i \in 1 .. t + 1 PROVE q[i] = m - (t + 1) + i - 1
      <4>1. CASE i \in 1 .. t
        BY <1>4, <2>4, <2>5, <4>1
      <4>2. CASE i = t + 1
        BY <2>4, <2>5, <4>2
      <4> QED
        BY <4>1, <4>2
    <3> QED
      BY <2>4, <3>1
  <2>7. Len(q) \leq m /\ m - Len(q) = b - t
    BY <1>4, <2>4, <2>5
  <2>8. q \o Run(m) = Run(m - Len(q))
    BY <2>6, <2>7, RunJoined, Zenon
  <2>9. Available(c) = Run(b - t)
    BY <2>2, <2>3, <2>4, <2>5, <2>7, <2>8, Zenon
  <2> QED
    BY <1>2, <1>4, <2>9
<1> QED
  BY <1>7, <1>8

\* What stays of a run when the first n frames are gone.
LEMMA RunShortened ==
  ASSUME NEW b \in 0 .. numfp, NEW n \in Nat, b + n \leq numfp
  PROVE  SubSeq(Run(b), n + 1, Len(Run(b))) = Run(b + n)
<1>1. PICK top \in Nat : top = numfp
  BY MemPhyAssumption
<1>2. PICK r \in Seq(Frame) : /\ r = Run(b) /\ Len(r) = top - b
                              /\ \A i \in 1 .. top - b : r[i] = b + i - 1
  BY <1>1, RunIs
<1>3. PICK q \in Seq(Frame) : /\ q = Run(b + n) /\ Len(q) = top - (b + n)
                              /\ \A i \in 1 .. top - (b + n) : q[i] = b + n + i - 1
  <2>1. b + n \in 0 .. numfp
    BY <1>1
  <2> QED
    BY <1>1, <2>1, RunIs
<1>4. PICK d \in Nat : d = top - (b + n) /\ top - b = d + n
  BY <1>1
<1>5. /\ SubSeq(r, n + 1, Len(r)) \in Seq(Frame)
      /\ Len(SubSeq(r, n + 1, Len(r))) = d
      /\ \A i \in 1 .. d : SubSeq(r, n + 1, Len(r))[i] = r[n + i]
  <2>1. n + 1 \in 1 .. Len(r) + 1 /\ Len(r) \in n .. Len(r)
    BY <1>2, <1>4
  <2>2. Len(SubSeq(r, n + 1, Len(r))) = d
    BY <1>2, <1>4
  <2>3. SubSeq(r, n + 1, Len(r)) \in Seq(Frame)
    BY <1>2, <1>4
  <2>4. ASSUME NEW i \in 1 .. d PROVE SubSeq(r, n + 1, Len(r))[i] = r[n + i]
    BY <1>2, <1>4
  <2> QED
    BY <2>2, <2>3, <2>4
<1>6. ASSUME NEW i \in 1 .. d PROVE SubSeq(r, n + 1, Len(r))[i] = q[i]
  <2>1. n + i \in 1 .. top - b /\ b + (n + i) - 1 = b + n + i - 1
    BY <1>4
  <2> QED
    BY <1>2, <1>3, <1>4, <1>5, <2>1
<1>7. SubSeq(r, n + 1, Len(r)) = q
  BY <1>3, <1>4, <1>5, <1>6, SeqEqual, Zenon
<1> QED
  BY <1>2, <1>3, <1>7

-----------------------------------------------------------------------------
(* The abstract pool is implemented *)

\* The pool's variables, for the one CPU.
PoolFree  == Available(CHOOSE c \in CPU : TRUE)
PoolTable == [p \in Proc |-> [n \in Page |-> Entry(p, n)]]

\* What the one CPU and the list hold is what the pool holds.
Mirrored(c) == (PoolFree = Run(Fresh(c)))

\* The pool starts with all frames and no entry.
LEMMA PoolFirst ==
  ASSUME NEW c, CPU = {c}, Typed, InLine(c), FramesInit
  PROVE  Pool!Init
<1>1. (CHOOSE d \in CPU : TRUE) = c /\ c \in CPU
  OBVIOUS
<1>2. PICK b \in 0 .. numfp : PoolFree = Run(b)
  BY <1>1, AvailableIs DEF PoolFree
<1>3. PICK r \in Seq(Frame) : /\ r = Run(b) /\ Len(r) = numfp - b
                              /\ \A i \in 1 .. numfp - b : r[i] = b + i - 1
  BY RunIs
<1>4. \A j, k \in DOMAIN r : r[j] = r[k] => j = k
  <2>1. DOMAIN r = 1 .. numfp - b
    BY <1>3
  <2>2. b \in Nat /\ \A j \in 1 .. numfp - b : j \in Nat
    BY MemPhyAssumption
  <2> QED
    BY <1>3, <2>1, <2>2
<1>5. PoolTable = [p \in Proc |-> [n \in Page |-> -1]]
  BY EntryFirst DEF PoolTable
<1> QED
  BY <1>2, <1>3, <1>4, <1>5, Zenon DEF Pool!Init, PoolFree, PoolTable

\* Only two steps of the code show: a request that fails and the writing of the
\* entries.
LEMMA PoolStep ==
  ASSUME NEW c, CPU = {c}, Typed, Typed', InLine(c), InLine(c)',
         Mirrored(c), Mirrored(c)',
         [FramesNext]_<<vars, growVars>>
  PROVE  Pool!Next \/ (PoolFree' = PoolFree /\ PoolTable' = PoolTable)
<1>0. PoolFree = Run(Fresh(c)) /\ PoolFree' = Run(Fresh(c)')
  BY DEF Mirrored
<1>1. c \in CPU
  OBVIOUS
<1>2. Fresh(c) \in 0 .. numfp /\ Base(c) \in 0 .. numfp /\ Taken(c) \in Nat
  BY <1>1, AvailableIs, BaseType
<1>3. ASSUME UNCHANGED pgd PROVE PoolTable' = PoolTable
  <2>1. \A p, m : Entry(p, m)' = Entry(p, m)
    BY <1>3 DEF Entry
  <2> QED
    BY <2>1 DEF PoolTable
<1>4. CASE UNCHANGED <<vars, growVars>>
  <2>1. Fresh(c)' = Fresh(c) /\ UNCHANGED pgd
    BY <1>4 DEF Fresh, Base, Taken, vars, growVars
  <2> QED
    BY <1>0, <1>3, <2>1
<1>5. CASE vm_map_ram(c)
  <2>1. Fresh(c)' = Fresh(c) /\ UNCHANGED pgd
    BY <1>5 DEF vm_map_ram, Fresh, Base, Taken, vars
  <2> QED
    BY <1>0, <1>3, <2>1
<1>6. CASE alloc_pages_range(c)
  <2>1. Fresh(c)' = Fresh(c) \/ (Base(c) = numfp /\ Fresh(c)' = numfp)
    BY <1>1, <1>6, InLineTaken
  <2>2. PoolTable' = PoolTable
    BY <1>3, <1>6 DEF alloc_pages_range
  <2>3. CASE Fresh(c)' = Fresh(c)
    BY <1>0, <2>2, <2>3
  <2>4. CASE Base(c) = numfp /\ Fresh(c)' = numfp
    <3>1. PICK n \in 0 .. MAX_REQUEST : n = request[c].n /\ n > Taken(c)
      BY <1>1, <1>6, <1>2, FramesAssumption
      DEF alloc_pages_range, Working, Requests, Typed, FramesTypeOK
    <3>2. Len(Run(Fresh(c))) = Taken(c)
      <4>1. Len(Run(Fresh(c))) = numfp - Fresh(c)
        BY <1>2, RunIs
      <4>2. Fresh(c) = numfp - Taken(c) /\ numfp \in Nat
        BY <2>4, MemPhyAssumption DEF Fresh
      <4> QED
        BY <1>2, <4>1, <4>2
    <3>3. PoolFree' = << >>
      BY <1>0, <2>4, MemPhyAssumption DEF Run
    <3>4. Pool!Fail(n)
      BY <1>0, <2>2, <3>1, <3>2, <3>3, Zenon DEF Pool!Fail, PoolFree, PoolTable
    <3> QED
      BY <3>4, Zenon DEF Pool!Next
  <2> QED
    BY <2>1, <2>3, <2>4
<1>7. CASE vmap_page_range(c)
  <2>1. PICK p \in Proc, s \in 0 .. PAGES, n \in 0 .. MAX_REQUEST :
          /\ n = Taken(c)
          /\ \A q \in Proc, m \in Page :
               Entry(q, m)' = IF q = p /\ m \in s .. s + n - 1
                              THEN Fresh(c) + (m - s) ELSE Entry(q, m)
    BY <1>1, <1>7, EntriesMapped
  <2>2. PICK b \in 0 .. numfp, t \in 0 .. numfp :
          b = Base(c) /\ t = Fresh(c) /\ b = t + n /\ n \in Nat
    BY <1>2, <2>1, FramesAssumption DEF Fresh
  <2>3. Fresh(c)' = b
    BY <1>1, <1>7, <2>2
    DEF vmap_page_range, Fresh, Base, Taken, vars, Typed, FramesTypeOK
  <2>4. PICK r \in Seq(Frame) : /\ r = PoolFree /\ r = Run(t) /\ Len(r) = numfp - t
                                /\ \A i \in 1 .. numfp - t : r[i] = t + i - 1
    BY <1>0, <2>2, RunIs
  <2>5. PoolFree' = SubSeq(r, n + 1, Len(r)) /\ n \leq Len(r)
    <3>1. t + n \leq numfp /\ numfp \in Nat
      BY <2>2, MemPhyAssumption
    <3>2. SubSeq(Run(t), n + 1, Len(Run(t))) = Run(t + n)
      BY <2>2, <3>1, RunShortened
    <3>3. n \leq Len(r)
      BY <2>4, <3>1
    <3>4. PoolFree' = Run(t + n)
      BY <1>0, <2>2, <2>3
    <3> QED
      BY <2>4, <3>2, <3>3, <3>4, Zenon
  <2>6. PoolTable' = [PoolTable EXCEPT ![p] = [m \in Page |->
                        IF m \in s .. s + n - 1 THEN r[m - s + 1] ELSE @[m]]]
    <3>1. ASSUME NEW m \in Page, m \in s .. s + n - 1
          PROVE  r[m - s + 1] = Fresh(c) + (m - s)
      <4>1. s \in Nat /\ m \in Int /\ t \in Nat /\ numfp \in Nat
        BY FramesAssumption, MemPhyAssumption DEF Page
      <4>2. PICK i \in 1 .. numfp - t : i = m - s + 1
        BY <2>2, <3>1, <4>1
      <4> QED
        BY <2>2, <2>4, <4>1, <4>2
    <3>2. \A q \in Proc, m \in Page :
            Entry(q, m)' = IF q = p
                           THEN IF m \in s .. s + n - 1 THEN r[m - s + 1] ELSE Entry(p, m)
                           ELSE Entry(q, m)
      BY <2>1, <3>1
    <3>3. PoolTable[p] = [m \in Page |-> Entry(p, m)]
      BY DEF PoolTable
    <3>4. PoolTable' = [q \in Proc |-> [m \in Page |->
            IF q = p THEN IF m \in s .. s + n - 1 THEN r[m - s + 1] ELSE Entry(p, m)
                     ELSE Entry(q, m)]]
      BY <3>2 DEF PoolTable
    <3> QED
      BY <3>3, <3>4 DEF PoolTable
  <2>7. Pool!Map(p, s, n)
    BY <2>4, <2>5, <2>6, Zenon DEF Pool!Map, PoolFree, PoolTable
  <2> QED
    BY <2>7, Zenon DEF Pool!Next
<1> QED
  BY <1>4, <1>5, <1>6, <1>7 DEF FramesNext

\* On one CPU the code implements FramePool: taking a frame access by access
\* (MEMPHY_get_freefp), the failure midway (alloc_pages_range, mm.c:134) and the
\* packing into entries (vmap_page_range, mm.c:99) come down to one step that maps the
\* next frames to the pages asked for, or fails because there are not enough.
THEOREM PoolImplemented ==
  ASSUME NEW c, CPU = {c}
  PROVE  FramesSpec => PoolRefined
<1>1. (CHOOSE d \in CPU : TRUE) = c /\ c \in CPU
  OBVIOUS
<1>2. Typed /\ InLine(c) => Mirrored(c)
  BY <1>1, AvailableIs DEF PoolFree, Mirrored
<1>3. FramesInit /\ Typed /\ InLine(c) => Pool!Init
  BY PoolFirst
<1>4. /\ Typed /\ Typed' /\ InLine(c) /\ InLine(c)'
      /\ Mirrored(c) /\ Mirrored(c)'
      /\ [FramesNext]_<<vars, growVars>>
      => Pool!Next \/ (PoolFree' = PoolFree /\ PoolTable' = PoolTable)
  BY PoolStep
<1>5. Pool!Next \/ (PoolFree' = PoolFree /\ PoolTable' = PoolTable)
      => [Pool!Next]_(Pool!poolVars)
  BY DEF Pool!poolVars, PoolFree, PoolTable
<1>6. FramesSpec => []InLine(c)
  BY InLineAlways
<1> QED
  BY <1>2, <1>3, <1>4, <1>5, <1>6, TypedAlways, PTL DEF FramesSpec, PoolRefined, Pool!Spec
=============================================================================
