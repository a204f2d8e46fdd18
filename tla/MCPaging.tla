------------------------------ MODULE MCPaging ------------------------------
(* Paging.tla on small instances: pages of two bytes, PAGE_SIZE two pages.    *)
EXTENDS Paging, TLC

CONSTANTS p1, p2, x, none

OneProc == {p1}
TwoProcs == {p1, p2}

\* Nothing tells two processes apart.
ProcSymmetry == Permutations(Proc)

NoMore == {none}
TwoValues == {none, x}

\* Nothing, within a page, more than a page.
AllSizes == {0, 1, 3}
BigSizes == {0, 3}

\* From a region at 0 the first pages, and page 3, where a second alloc is mapped;
\* from one at -1 the last page as well.
AllOffsets == {0, 1, 3}
FarOffsets == {0, 6}
=============================================================================
