-------------------------------- MODULE Pte --------------------------------
(***************************************************************************)
(* The 32-bit page table entry: the bit operators of src/include/bitops.h, *)
(* the fields of src/include/mm.h and the functions of src/src/mm.c that   *)
(* write an entry.                                                         *)
(*                                                                         *)
(* A word is the set of the positions of its 1 bits, so that & is \cap,    *)
(* | is \cup and ~ is the complement, for every word.  Operators named     *)
(* like another one with a suffix are faulty variants.                     *)
(***************************************************************************)
EXTENDS Integers

CONSTANT FPN_HIBIT      \* PAGING_PTE_FPN_HIBIT, 12 in the code

Bit  == 0 .. 31
Word == SUBSET Bit

\* The fields of an entry do not reach its flags.
ASSUME PteAssumption == FPN_HIBIT \in 0 .. 12

BIT(nr) == {nr}
GENMASK(h, l) == l .. h

\* value << n and value >> n
ShiftLeft(value, n)  == {i \in Bit : i - n \in value}
ShiftRight(value, n) == {i \in Bit : i + n \in value}

SETBIT(v, mask) == v \cup mask
CLRBIT(v, mask) == v \ mask
SETVAL_keeps_old(v, value, mask, offst) == v \cup (ShiftLeft(value, offst) \cap mask)
SETVAL(v, value, mask, offst) == (v \ mask) \cup (ShiftLeft(value, offst) \cap mask)
GETVAL(v, mask, offst) == ShiftRight(v \cap mask, offst)

-----------------------------------------------------------------------------
(* Fields *)

PRESENT_MASK == BIT(31)
SWAPPED_MASK == BIT(30)
DIRTY_MASK   == BIT(28)
FPN_MASK     == GENMASK(FPN_HIBIT, 0)
SWPTYP_MASK  == GENMASK(4, 0)
SWPOFF_MASK  == GENMASK(25, 5)

PAGING_PAGE_PRESENT(pte) == pte \cap PRESENT_MASK # {}
PAGING_FPN(pte) == GETVAL(pte, FPN_MASK, 0)
PAGING_SWP(pte) == ShiftRight(pte \cap SWPOFF_MASK, 5)

-----------------------------------------------------------------------------
(* Writing an entry: the value stored through the pointer `pte` *)

pte_set_fpn(pte, fpn) ==
  LET online == CLRBIT(SETBIT(pte, PRESENT_MASK), SWAPPED_MASK)
  IN  SETVAL(online, fpn, FPN_MASK, 0)

pte_set_swap(pte, swptyp, swpoff) ==
  LET swapped == SETBIT(SETBIT(pte, PRESENT_MASK), SWAPPED_MASK)
  IN  SETVAL(SETVAL(swapped, swptyp, SWPTYP_MASK, 0), swpoff, SWPOFF_MASK, 5)

\* init_pte: an entry that is not to be present is left alone, and so is one whose
\* frame is 0, the first frame of the device.
init_pte(pte, pre, fpn, swp, swptyp, swpoff) ==
  IF ~ pre \/ (~ swp /\ fpn = {})
  THEN pte
  ELSE CLRBIT(IF swp THEN pte_set_swap(pte, swptyp, swpoff)
                     ELSE pte_set_fpn(pte, fpn), DIRTY_MASK)

\* The entry pg_getpage writes for the page it brings in: `value` is not cut to the
\* field, so one that needs more bits reaches its neighbours.
pte_replaced(pte, value) == (pte \ FPN_MASK) \cup value \cup PRESENT_MASK

-----------------------------------------------------------------------------
(* Numbers and words *)

\* The word of a number below 2^16, and the number the frame field holds.
Bits(n) == {i \in 0 .. 15 : (n \div 2^i) % 2 = 1}
ValueOf(field) == CHOOSE n \in 0 .. 2^(FPN_HIBIT + 1) - 1 : Bits(n) = field
=============================================================================
