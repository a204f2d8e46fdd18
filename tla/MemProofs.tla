------------------------------ MODULE MemProofs ------------------------------
(***************************************************************************)
(* The page tables of mem.c, for any number of processes and pages: they   *)
(* and mem_stat agree on who has which page, every process reaches what it *)
(* was given and nothing else, and what it sees is the address space of    *)
(* AddressSpace.tla.                                                       *)
(***************************************************************************)
EXTENDS Mem, NumberFacts, FunctionTheorems

-----------------------------------------------------------------------------
(* Addresses.  A virtual page is known by its number, in whose quotient and  *)
(* remainder by ROWS the two indexes are.                                    *)

ROWS == 2 ^ SECOND_LV_LEN
TOP  == 2 ^ FIRST_LV_LEN

LEMMA Sizing ==
  /\ PAGE_SIZE \in Nat \ {0} /\ ROWS \in Nat \ {0} /\ TOP \in Nat \ {0}
  /\ NUM_PAGES = TOP * ROWS /\ NUM_PAGES \in Nat \ {0}
  /\ RAM_SIZE = PAGE_SIZE * NUM_PAGES /\ RAM_SIZE \in Nat \ {0}
  /\ 2 ^ (OFFSET_LEN + SECOND_LV_LEN) = PAGE_SIZE * ROWS
<1>1. OFFSET_LEN \in 0 .. 10 /\ SECOND_LV_LEN \in 0 .. 5 /\ FIRST_LV_LEN \in 0 .. 5
  BY MemAssumption
<1>2. OFFSET_LEN \in 0 .. 16 /\ SECOND_LV_LEN \in 0 .. 16 /\ FIRST_LV_LEN \in 0 .. 16
      /\ FIRST_LV_LEN \in 0 .. 10
  BY <1>1
<1>3. PAGE_SIZE \in Nat \ {0} /\ ROWS \in Nat \ {0} /\ TOP \in Nat \ {0}
  <2>1. Pow(OFFSET_LEN) \in Nat \ {0} /\ Pow(SECOND_LV_LEN) \in Nat \ {0}
        /\ Pow(FIRST_LV_LEN) \in Nat \ {0}
    BY <1>2, Powers
  <2> QED
    BY <2>1 DEF PAGE_SIZE, ROWS, TOP, Pow
<1>4. NUM_PAGES = TOP * ROWS
  <2>1. Pow(FIRST_LV_LEN + SECOND_LV_LEN) = Pow(FIRST_LV_LEN) * Pow(SECOND_LV_LEN)
    BY <1>1, <1>2, PowerSum
  <2> QED
    BY <2>1 DEF NUM_PAGES, ROWS, TOP, Pow
<1>5. 2 ^ (OFFSET_LEN + SECOND_LV_LEN) = PAGE_SIZE * ROWS
  <2>1. Pow(OFFSET_LEN + SECOND_LV_LEN) = Pow(OFFSET_LEN) * Pow(SECOND_LV_LEN)
    BY <1>1, PowerSum
  <2> QED
    BY <2>1 DEF PAGE_SIZE, ROWS, Pow
<1>6. \A x, y \in Nat \ {0} : x * y \in Nat \ {0}
  OBVIOUS
<1>7. NUM_PAGES \in Nat \ {0}
  BY <1>3, <1>4, <1>6
<1>8. RAM_SIZE \in Nat \ {0}
  BY <1>3, <1>7, <1>6 DEF RAM_SIZE
<1> QED
  BY <1>3, <1>4, <1>5, <1>7, <1>8 DEF RAM_SIZE

\* Both indexes of an address depend on its page alone.
LEMMA Indexes ==
  ASSUME NEW addr \in Nat
  PROVE  /\ addr \div PAGE_SIZE \in Nat
         /\ get_first_lv(addr) = (addr \div PAGE_SIZE) \div ROWS
         /\ get_second_lv(addr) = (addr \div PAGE_SIZE) % ROWS
<1> DEFINE n == addr \div PAGE_SIZE
           f == n \div ROWS
<1>1. PAGE_SIZE \in Nat \ {0} /\ ROWS \in Nat \ {0}
  BY Sizing
<1>2. n \in Nat /\ PAGE_SIZE * n \leq addr /\ addr < PAGE_SIZE * (n + 1)
  BY <1>1, Divided
<1> HIDE DEF n
<1>3. f \in Nat /\ ROWS * f \leq n /\ n < ROWS * (f + 1)
  BY <1>1, <1>2, Divided
<1>4. n % ROWS = n - f * ROWS
  BY <1>1, <1>2
<1> HIDE DEF f
<1>5. get_first_lv(addr) = f
  <2> DEFINE d == PAGE_SIZE * ROWS
  <2>1. ROWS * f \in Int /\ ROWS * (f + 1) \in Int /\ n + 1 \leq ROWS * (f + 1)
    BY <1>1, <1>2, <1>3
  <2>2. PAGE_SIZE * (ROWS * f) \leq PAGE_SIZE * n
    BY <1>1, <1>2, <1>3, <2>1, TimesMonotone
  <2>3. PAGE_SIZE * (n + 1) \leq PAGE_SIZE * (ROWS * (f + 1))
    BY <1>1, <1>2, <1>3, <2>1, TimesMonotone
  <2>4. /\ PAGE_SIZE * (ROWS * f) = d * f
        /\ PAGE_SIZE * (ROWS * (f + 1)) = d * (f + 1)
    BY <1>1, <1>3
  <2>5. d \in Nat \ {0} /\ d * f \in Int /\ d * (f + 1) \in Int
        /\ PAGE_SIZE * n \in Int /\ PAGE_SIZE * (n + 1) \in Int
    BY <1>1, <1>2, <1>3
  <2> HIDE DEF d
  <2>6. d * f \leq addr /\ addr < d * (f + 1)
    BY <1>2, <2>2, <2>3, <2>4, <2>5
  <2>7. addr \div d = f
    BY <1>3, <2>5, <2>6, QuotientUnique
  <2> QED
    BY <2>7, Sizing DEF get_first_lv, d
<1>6. get_second_lv(addr) = n - f * ROWS
  BY <1>5 DEF get_second_lv, n, PAGE_SIZE, ROWS
<1> QED
  BY <1>2, <1>4, <1>5, <1>6 DEF n, f

\* The page of an address, and its place in it.
LEMMA Paged ==
  ASSUME NEW n \in Nat, NEW o \in 0 .. PAGE_SIZE - 1
  PROVE  /\ n * PAGE_SIZE + o \in Nat
         /\ (n * PAGE_SIZE + o) \div PAGE_SIZE = n
         /\ (n * PAGE_SIZE + o) % PAGE_SIZE = o
<1>1. PAGE_SIZE \in Nat \ {0}
  BY Sizing
<1>2. n * PAGE_SIZE \in Nat /\ n * PAGE_SIZE = PAGE_SIZE * n
      /\ PAGE_SIZE * (n + 1) = PAGE_SIZE * n + PAGE_SIZE
  BY <1>1
<1> DEFINE x == n * PAGE_SIZE + o
<1>3. x \in Nat /\ PAGE_SIZE * n \leq x /\ x < PAGE_SIZE * (n + 1)
  BY <1>1, <1>2
<1>4. x = n * PAGE_SIZE + o
  OBVIOUS
<1> HIDE DEF x
<1>5. x \div PAGE_SIZE = n
  BY <1>1, <1>3, QuotientUnique
<1>6. x = PAGE_SIZE * (x \div PAGE_SIZE) + (x % PAGE_SIZE) /\ x % PAGE_SIZE \in 0 .. PAGE_SIZE - 1
  BY <1>1, <1>3, Remainder
<1>7. x % PAGE_SIZE = o
  BY <1>1, <1>2, <1>4, <1>5, <1>6
<1> QED
  BY <1>3, <1>5, <1>7 DEF x

\* An address is its page and its place there.
LEMMA SplitAddress ==
  ASSUME NEW addr \in Nat
  PROVE  /\ addr \div PAGE_SIZE \in Nat /\ addr % PAGE_SIZE \in 0 .. PAGE_SIZE - 1
         /\ addr = (addr \div PAGE_SIZE) * PAGE_SIZE + (addr % PAGE_SIZE)
<1>1. PAGE_SIZE \in Nat \ {0}
  BY Sizing
<1>2. PICK q \in Nat, r \in 0 .. PAGE_SIZE - 1 :
        q = addr \div PAGE_SIZE /\ r = addr % PAGE_SIZE /\ addr = PAGE_SIZE * q + r
  BY <1>1, Remainder, Divided
<1>3. addr = q * PAGE_SIZE + r
  BY <1>1, <1>2
<1> QED
  BY <1>2, <1>3

\* The bytes of a page of memory are in memory.
LEMMA InMemory ==
  ASSUME NEW i \in PhysicalPage, NEW o \in 0 .. PAGE_SIZE - 1
  PROVE  i * PAGE_SIZE + o \in Address
<1>1. PAGE_SIZE \in Nat \ {0} /\ NUM_PAGES \in Nat \ {0} /\ RAM_SIZE = PAGE_SIZE * NUM_PAGES
  BY Sizing
<1>2. i \in Nat /\ i + 1 \leq NUM_PAGES
  BY <1>1 DEF PhysicalPage
<1>3. PAGE_SIZE * (i + 1) \leq PAGE_SIZE * NUM_PAGES
  BY <1>1, <1>2, TimesMonotone
<1>4. PAGE_SIZE * (i + 1) = i * PAGE_SIZE + PAGE_SIZE /\ i * PAGE_SIZE \in Nat
  BY <1>1, <1>2
<1> QED
  BY <1>1, <1>3, <1>4 DEF Address

-----------------------------------------------------------------------------
(* Tables of rows that have a v_index *)

Entry == [v_index : Nat, p_index : PhysicalPage]
Row   == [v_index : Nat, next_lv : TransTable]

\* row finds the first row with an index, if there is one.
LEMMA RowFound ==
  ASSUME NEW R, NEW T \in Seq(R), NEW index
  PROVE  \/ row(T, index) = 0 /\ \A k \in DOMAIN T : T[k].v_index # index
         \/ /\ row(T, index) \in DOMAIN T /\ row(T, index) # 0
            /\ T[row(T, index)].v_index = index
            /\ \A j \in DOMAIN T : T[j].v_index = index => row(T, index) \leq j
<1> DEFINE ks == {k \in DOMAIN T : T[k].v_index = index}
<1>1. DOMAIN T \subseteq Nat \ {0} /\ ks \in SUBSET Nat
  OBVIOUS
<1>2. CASE ks = {}
  BY <1>2 DEF row
<1>3. CASE ks # {}
  <2>1. \E k \in ks : \A j \in ks : k \leq j
    <3> HIDE DEF ks
    <3> QED
      BY <1>1, <1>3, LeastNumber
  <2>2. row(T, index) = CHOOSE k \in ks : \A j \in ks : k \leq j
    BY <1>3 DEF row
  <2>3. row(T, index) \in ks /\ \A j \in ks : row(T, index) \leq j
    <3> HIDE DEF ks
    <3> QED
      BY <2>1, <2>2
  <2> QED
    BY <1>1, <2>3
<1> QED
  BY <1>2, <1>3

\* Which row that is only depends on the indexes.
LEMMA RowIs ==
  ASSUME NEW R, NEW T \in Seq(R), NEW index, NEW k \in DOMAIN T,
         T[k].v_index = index, \A j \in DOMAIN T : T[j].v_index = index => k \leq j
  PROVE  row(T, index) = k
<1>1. row(T, index) # 0
  BY RowFound
<1>2. row(T, index) \in DOMAIN T /\ row(T, index) \leq k /\ k \leq row(T, index)
  BY <1>1, RowFound
<1>3. k \in Int /\ row(T, index) \in Int
  BY <1>2
<1> QED
  BY <1>2, <1>3

LEMMA SameRows ==
  ASSUME NEW R, NEW T \in Seq(R), NEW Q, NEW U \in Seq(Q), NEW index,
         DOMAIN U = DOMAIN T, \A k \in DOMAIN T : U[k].v_index = T[k].v_index
  PROVE  row(U, index) = row(T, index)
<1>1. CASE row(T, index) = 0
  <2>1. \A k \in DOMAIN U : U[k].v_index # index
    BY <1>1, RowFound
  <2> QED
    BY <1>1, <2>1, RowFound
<1>2. CASE row(T, index) # 0
  <2>1. /\ row(T, index) \in DOMAIN T /\ T[row(T, index)].v_index = index
        /\ \A j \in DOMAIN T : T[j].v_index = index => row(T, index) \leq j
    BY <1>2, RowFound
  <2> QED
    BY <2>1, RowIs
<1> QED
  BY <1>1, <1>2

\* A row behind the others is found under its own index alone, and there only if no
\* other has it.
LEMMA RowAppended ==
  ASSUME NEW R, NEW T \in Seq(R), NEW e \in R, NEW index
  PROVE  row(Append(T, e), index) =
           IF row(T, index) # 0 THEN row(T, index)
           ELSE IF e.v_index = index THEN Len(T) + 1 ELSE 0
<1> DEFINE U == Append(T, e)
<1>1. /\ U \in Seq(R) /\ DOMAIN U = 1 .. Len(T) + 1 /\ DOMAIN T = 1 .. Len(T) /\ Len(T) \in Nat
      /\ \A k \in DOMAIN T : U[k] = T[k]
      /\ U[Len(T) + 1] = e
  OBVIOUS
<1> HIDE DEF U
<1>2. CASE row(T, index) # 0
  <2>1. /\ row(T, index) \in DOMAIN T /\ T[row(T, index)].v_index = index
        /\ \A j \in DOMAIN T : T[j].v_index = index => row(T, index) \leq j
    BY <1>2, RowFound
  <2>2. /\ row(T, index) \in DOMAIN U /\ U[row(T, index)].v_index = index
        /\ \A j \in DOMAIN U : U[j].v_index = index => row(T, index) \leq j
    <3>1. ASSUME NEW j \in DOMAIN U, U[j].v_index = index PROVE row(T, index) \leq j
      <4>1. CASE j \in DOMAIN T
        BY <1>1, <2>1, <3>1, <4>1
      <4>2. CASE j \notin DOMAIN T
        BY <1>1, <2>1, <4>2
      <4> QED
        BY <4>1, <4>2
    <3> QED
      BY <1>1, <2>1, <3>1
  <2>3. row(U, index) = row(T, index)
    BY <1>1, <2>2, RowIs
  <2> QED
    BY <1>2, <2>3 DEF U
<1>3. CASE row(T, index) = 0 /\ e.v_index = index
  <2>1. \A k \in DOMAIN T : T[k].v_index # index
    BY <1>3, RowFound
  <2>2. /\ Len(T) + 1 \in DOMAIN U /\ U[Len(T) + 1].v_index = index
        /\ \A j \in DOMAIN U : U[j].v_index = index => Len(T) + 1 \leq j
    <3>1. ASSUME NEW j \in DOMAIN U, U[j].v_index = index PROVE Len(T) + 1 \leq j
      <4>1. j \notin DOMAIN T
        BY <1>1, <2>1, <3>1
      <4> QED
        BY <1>1, <4>1
    <3> QED
      BY <1>1, <1>3, <3>1
  <2>3. row(U, index) = Len(T) + 1
    BY <1>1, <2>2, RowIs
  <2> QED
    BY <1>3, <2>3 DEF U
<1>4. CASE row(T, index) = 0 /\ e.v_index # index
  <2>1. \A k \in DOMAIN T : T[k].v_index # index
    BY <1>4, RowFound
  <2>2. \A k \in DOMAIN U : U[k].v_index # index
    <3>1. ASSUME NEW k \in DOMAIN U PROVE U[k].v_index # index
      <4>1. k \in DOMAIN T \/ k = Len(T) + 1
        BY <1>1
      <4> QED
        BY <1>1, <1>4, <2>1, <4>1
    <3> QED
      BY <3>1
  <2>3. row(U, index) = 0
    BY <1>1, <2>2, RowFound
  <2> QED
    BY <1>4, <2>3 DEF U
<1> QED
  BY <1>2, <1>3, <1>4

-----------------------------------------------------------------------------
(* The physical page of a virtual page n in a page table T *)

Page(T, n) ==
  LET trans_table == get_trans_table(n \div ROWS, T)
      k == row(trans_table, n % ROWS)
  IN  IF k = 0 THEN NONE ELSE trans_table[k].p_index

LEMMA SecondLevel ==
  ASSUME NEW T \in Seq(Row), NEW index
  PROVE  get_trans_table(index, T) \in Seq(Entry)
<1>1. CASE row(T, index) = 0
  BY <1>1 DEF get_trans_table
<1>2. CASE row(T, index) # 0
  <2>1. row(T, index) \in DOMAIN T
    BY <1>2, RowFound
  <2>2. T[row(T, index)] \in Row
    BY <2>1
  <2>3. T[row(T, index)].next_lv \in TransTable
    BY <2>2 DEF Row
  <2> QED
    BY <1>2, <2>3 DEF get_trans_table, TransTable, Entry
<1> QED
  BY <1>1, <1>2

LEMMA PageTyped ==
  ASSUME NEW T \in Seq(Row), NEW n
  PROVE  /\ Page(T, n) \in PhysicalPage \cup {NONE}
         /\ NONE \notin PhysicalPage
         /\ Page(T, n) = NONE <=> row(get_trans_table(n \div ROWS, T), n % ROWS) = 0
<1> DEFINE S == get_trans_table(n \div ROWS, T)
<1>1. S \in Seq(Entry)
  BY SecondLevel
<1> HIDE DEF S
<1>2. NONE \notin PhysicalPage
  BY Sizing DEF NONE, PhysicalPage
<1>3. CASE row(S, n % ROWS) = 0
  BY <1>2, <1>3 DEF Page, S
<1>4. CASE row(S, n % ROWS) # 0
  <2>1. row(S, n % ROWS) \in DOMAIN S
    BY <1>1, <1>4, RowFound
  <2>2. S[row(S, n % ROWS)] \in Entry
    BY <1>1, <2>1
  <2>3. S[row(S, n % ROWS)].p_index \in PhysicalPage
    BY <2>2 DEF Entry
  <2> QED
    BY <1>2, <1>4, <2>3 DEF Page, S
<1> QED
  BY <1>3, <1>4

\* translate finds an address through the table of its process.
LEMMA Translated ==
  ASSUME NEW p \in Proc, page_table[p] \in Seq(Row), NEW addr \in Nat
  PROVE  /\ Page(page_table[p], addr \div PAGE_SIZE) = NONE => translate(addr, p) = NONE
         /\ Page(page_table[p], addr \div PAGE_SIZE) # NONE =>
              /\ translate(addr, p) = Page(page_table[p], addr \div PAGE_SIZE) * PAGE_SIZE
                                      + (addr % PAGE_SIZE)
              /\ translate(addr, p) \in Address
              /\ translate(addr, p) # NONE
<1> DEFINE T == page_table[p]
           n == addr \div PAGE_SIZE
           S == get_trans_table(n \div ROWS, T)
           k == row(S, n % ROWS)
<1>1. get_first_lv(addr) = n \div ROWS /\ get_second_lv(addr) = n % ROWS
  BY Indexes
<1>2. translate(addr, p) = IF k = 0 THEN NONE
                           ELSE S[k].p_index * PAGE_SIZE + get_offset(addr)
  BY <1>1 DEF translate
<1>3. Page(T, n) = IF k = 0 THEN NONE ELSE S[k].p_index
  BY DEF Page
<1>4. Page(T, n) = NONE <=> k = 0
  BY PageTyped
<1>5. Page(T, n) # NONE => Page(T, n) \in PhysicalPage
  BY PageTyped
<1> HIDE DEF k, S, n, T
<1>6. CASE k = 0
  BY <1>2, <1>4, <1>6 DEF n, T
<1>7. CASE k # 0
  <2>1. translate(addr, p) = Page(T, n) * PAGE_SIZE + (addr % PAGE_SIZE)
    BY <1>2, <1>3, <1>7 DEF get_offset
  <2>2. Page(T, n) \in PhysicalPage
    BY <1>4, <1>5, <1>7
  <2>3. addr % PAGE_SIZE \in 0 .. PAGE_SIZE - 1
    BY SplitAddress
  <2>4. translate(addr, p) \in Address
    BY <2>1, <2>2, <2>3, InMemory
  <2>5. translate(addr, p) # NONE
    BY <2>4, Sizing DEF Address, NONE
  <2> QED
    BY <1>4, <1>7, <2>1, <2>4, <2>5 DEF n, T
<1> QED
  BY <1>6, <1>7

-----------------------------------------------------------------------------
(* add_page_mapping maps one page and no other *)

\* A number is known by quotient and remainder.
LEMMA SameNumber ==
  ASSUME NEW m \in Nat, NEW n \in Nat, m \div ROWS = n \div ROWS, m % ROWS = n % ROWS
  PROVE  m = n
<1>1. ROWS \in Nat \ {0}
  BY Sizing
<1>2. m = ROWS * (m \div ROWS) + (m % ROWS)
  BY <1>1, Remainder
<1>3. n = ROWS * (n \div ROWS) + (n % ROWS)
  BY <1>1, Remainder
<1> QED
  BY <1>2, <1>3

\* The rows behind a first-level index, with the new entry behind its own.
LEMMA RowsMapped ==
  ASSUME NEW T \in Seq(Row), NEW addr \in Nat, NEW page \in PhysicalPage
  PROVE  LET f == (addr \div PAGE_SIZE) \div ROWS
             e == [v_index |-> (addr \div PAGE_SIZE) % ROWS, p_index |-> page]
             U == add_page_mapping(T, addr, page)
         IN  /\ e \in Entry
             /\ U \in Seq(Row)
             /\ get_trans_table(f, U) = Append(get_trans_table(f, T), e)
             /\ \A g : g # f => get_trans_table(g, U) = get_trans_table(g, T)
<1> DEFINE n == addr \div PAGE_SIZE
           f == n \div ROWS
           e == [v_index |-> n % ROWS, p_index |-> page]
           k == row(T, f)
           U == add_page_mapping(T, addr, page)
<1>1. /\ n \in Nat /\ f \in Nat /\ n % ROWS \in Nat
      /\ get_first_lv(addr) = f /\ get_second_lv(addr) = n % ROWS
  <2>1. n \in Nat /\ ROWS \in Nat \ {0}
    BY Indexes, Sizing
  <2>2. f \in Nat /\ n % ROWS \in Nat
    <3> HIDE DEF n
    <3> QED
      BY <2>1, Divided, Remainder
  <2> QED
    BY <2>1, <2>2, Indexes
<1>2. e \in Entry
  BY <1>1 DEF Entry
<1>3. U = IF k = 0 THEN Append(T, [v_index |-> f, next_lv |-> <<e>>])
          ELSE [T EXCEPT ![k].next_lv = Append(@, e)]
  BY <1>1 DEF add_page_mapping
<1>4. TransTable = Seq(Entry)
  BY DEF TransTable, Entry
<1> HIDE DEF n, f, e, k, U
<1>5. CASE k = 0
  <2> DEFINE r == [v_index |-> f, next_lv |-> <<e>>]
  <2>1. r \in Row /\ r.v_index = f /\ r.next_lv = <<e>>
    BY <1>1, <1>2, <1>4 DEF Row
  <2> HIDE DEF r
  <2>2. U = Append(T, r)
    BY <1>3, <1>5 DEF r
  <2>3. U \in Seq(Row) /\ U[Len(T) + 1] = r /\ \A j \in DOMAIN T : U[j] = T[j]
    BY <2>1, <2>2
  <2>4. Len(T) + 1 # 0
    OBVIOUS
  <2>5. row(U, f) = Len(T) + 1
    BY <1>5, <2>1, <2>2, RowAppended DEF k
  <2>6. get_trans_table(f, U) = <<e>> /\ get_trans_table(f, T) = << >>
    BY <1>5, <2>1, <2>3, <2>4, <2>5 DEF get_trans_table, k
  <2>7. <<e>> = Append(<< >>, e)
    OBVIOUS
  <2>8. ASSUME NEW g, g # f PROVE get_trans_table(g, U) = get_trans_table(g, T)
    <3>1. row(U, g) = row(T, g)
      BY <2>1, <2>2, <2>8, RowAppended
    <3>2. row(T, g) # 0 => row(T, g) \in DOMAIN T
      BY RowFound
    <3> QED
      BY <2>3, <3>1, <3>2 DEF get_trans_table
  <2> QED
    BY <1>2, <2>3, <2>6, <2>7, <2>8 DEF U, e, f, n
<1>6. CASE k # 0
  <2>1. k \in DOMAIN T /\ T[k].v_index = f
    BY <1>6, RowFound DEF k
  <2>2. T[k] \in Row /\ T[k].next_lv \in Seq(Entry)
    <3>1. T[k] \in Row
      BY <2>1
    <3> QED
      BY <1>4, <3>1 DEF Row
  <2>3. Append(T[k].next_lv, e) \in Seq(Entry)
    BY <1>2, <2>2
  <2>4. U = [T EXCEPT ![k] = [T[k] EXCEPT !.next_lv = Append(T[k].next_lv, e)]]
    BY <1>3, <1>6, <2>1
  <2>5. [T[k] EXCEPT !.next_lv = Append(T[k].next_lv, e)] \in Row
    BY <1>4, <2>2, <2>3 DEF Row
  <2>6. /\ U \in Seq(Row) /\ DOMAIN U = DOMAIN T
        /\ U[k] = [T[k] EXCEPT !.next_lv = Append(T[k].next_lv, e)]
        /\ \A j \in DOMAIN T : j # k => U[j] = T[j]
    <3> DEFINE r == [T[k] EXCEPT !.next_lv = Append(T[k].next_lv, e)]
    <3> HIDE DEF r
    <3>1. U = [T EXCEPT ![k] = r] /\ r \in Row
      BY <2>4, <2>5 DEF r
    <3> QED
      BY <2>1, <3>1 DEF r
  <2>7. /\ U[k].v_index = T[k].v_index
        /\ U[k].next_lv = Append(T[k].next_lv, e)
    BY <2>2, <2>6 DEF Row
  <2>8. \A j \in DOMAIN T : U[j].v_index = T[j].v_index
    BY <2>6, <2>7
  <2>9. \A g : row(U, g) = row(T, g)
    BY <2>6, <2>8, SameRows
  <2>10. get_trans_table(f, U) = Append(get_trans_table(f, T), e)
    BY <1>6, <2>7, <2>9 DEF get_trans_table, k
  <2>11. ASSUME NEW g, g # f PROVE get_trans_table(g, U) = get_trans_table(g, T)
    <3>1. row(T, g) # 0 => row(T, g) \in DOMAIN T /\ T[row(T, g)].v_index = g
      BY RowFound
    <3>2. row(T, g) # 0 => U[row(T, g)] = T[row(T, g)]
      BY <2>1, <2>6, <2>11, <3>1
    <3> QED
      BY <2>9, <3>2 DEF get_trans_table
  <2> QED
    BY <1>2, <2>6, <2>10, <2>11 DEF U, e, f, n
<1> QED
  BY <1>5, <1>6

\* A page that has no entry yet gets the one named; the others keep theirs.
LEMMA Mapped ==
  ASSUME NEW T \in Seq(Row), NEW addr \in Nat, NEW page \in PhysicalPage
  PROVE  /\ add_page_mapping(T, addr, page) \in Seq(Row)
         /\ \A m \in Nat : Page(add_page_mapping(T, addr, page), m) =
              IF m = addr \div PAGE_SIZE /\ Page(T, m) = NONE THEN page ELSE Page(T, m)
<1> DEFINE n == addr \div PAGE_SIZE
           f == n \div ROWS
           e == [v_index |-> n % ROWS, p_index |-> page]
           U == add_page_mapping(T, addr, page)
           S == get_trans_table(f, T)
<1>1. /\ e \in Entry /\ U \in Seq(Row)
      /\ get_trans_table(f, U) = Append(S, e)
      /\ \A g : g # f => get_trans_table(g, U) = get_trans_table(g, T)
  BY RowsMapped
<1>2. S \in Seq(Entry)
  BY SecondLevel
<1>3. n \in Nat /\ e.v_index = n % ROWS /\ e.p_index = page
  BY Indexes
<1> HIDE DEF n, e, U, S
<1>4. ASSUME NEW m \in Nat
      PROVE  Page(U, m) = IF m = n /\ Page(T, m) = NONE THEN page ELSE Page(T, m)
  <2>1. CASE m \div ROWS # f
    <3>1. get_trans_table(m \div ROWS, U) = get_trans_table(m \div ROWS, T)
      BY <1>1, <2>1
    <3>2. m # n
      BY <2>1
    <3> QED
      BY <3>1, <3>2 DEF Page
  <2>2. CASE m \div ROWS = f
    <3> DEFINE s == m % ROWS
               k == row(S, s)
    <3>1. /\ Page(U, m) = IF row(Append(S, e), s) = 0 THEN NONE
                          ELSE Append(S, e)[row(Append(S, e), s)].p_index
          /\ Page(T, m) = IF k = 0 THEN NONE ELSE S[k].p_index
      BY <1>1, <2>2 DEF Page, S
    <3>2. row(Append(S, e), s) = IF k # 0 THEN k ELSE IF e.v_index = s THEN Len(S) + 1 ELSE 0
      BY <1>1, <1>2, RowAppended
    <3>3. Page(T, m) = NONE <=> k = 0
      BY <2>2, PageTyped DEF S
    <3>4. /\ Append(S, e)[Len(S) + 1] = e /\ Len(S) + 1 # 0
          /\ k # 0 => k \in DOMAIN S /\ Append(S, e)[k] = S[k]
      <4>1. k # 0 => k \in DOMAIN S
        BY <1>2, RowFound
      <4> HIDE DEF k
      <4> QED
        BY <1>1, <1>2, <4>1
    <3>5. e.v_index = s <=> m = n
      BY <1>3, <2>2, SameNumber
    <3> HIDE DEF k, s
    <3>6. CASE k # 0
      BY <3>1, <3>2, <3>3, <3>4, <3>6
    <3>7. CASE k = 0
      BY <1>3, <3>1, <3>2, <3>3, <3>4, <3>5, <3>7
    <3> QED
      BY <3>6, <3>7
  <2> QED
    BY <2>1, <2>2
<1> QED
  BY <1>1, <1>4 DEF U, n

-----------------------------------------------------------------------------
(* Tables with room: their indexes are distinct and small *)

Distinct(T, bound) ==
  /\ \A k \in DOMAIN T : T[k].v_index < bound
  /\ \A j, k \in DOMAIN T : T[j].v_index = T[k].v_index => j = k

Roomy(T) ==
  /\ Distinct(T, TOP)
  /\ \A k \in DOMAIN T : Distinct(T[k].next_lv, ROWS)

\* Distinct indexes are no more than there are.
LEMMA Short ==
  ASSUME NEW R, NEW T \in Seq(R), NEW bound \in Nat, Distinct(T, bound),
         \A k \in DOMAIN T : T[k].v_index \in Nat
  PROVE  Len(T) \leq bound
<1> DEFINE f == [k \in 1 .. Len(T) |-> T[k].v_index + 1]
<1>1. DOMAIN T = 1 .. Len(T) /\ Len(T) \in Nat
  OBVIOUS
<1>2. f \in Injection(1 .. Len(T), 1 .. bound)
  <2>1. f \in [1 .. Len(T) -> 1 .. bound]
    BY <1>1 DEF Distinct
  <2>2. \A j, k \in 1 .. Len(T) : f[j] = f[k] => j = k
    BY <1>1 DEF Distinct
  <2> HIDE DEF f
  <2> QED
    BY <2>1, <2>2 DEF Injection, IsInjective
<1>3. Cardinality(1 .. Len(T)) = Len(T) /\ Cardinality(1 .. bound) = bound /\ IsFiniteSet(1 .. bound)
  <2> HIDE DEF f
  <2>1. ASSUME NEW n \in Nat PROVE Cardinality(1 .. n) = n /\ IsFiniteSet(1 .. n)
    <3>1. 1 \in Int /\ n \in Int
      OBVIOUS
    <3>2. IsFiniteSet(1 .. n) /\ Cardinality(1 .. n) = IF 1 > n THEN 0 ELSE n - 1 + 1
      BY <3>1, FS_Interval, Zenon
    <3> QED
      BY <3>2
  <2> QED
    BY <1>1, <2>1
<1> HIDE DEF f
<1>4. Cardinality(1 .. Len(T)) \leq Cardinality(1 .. bound)
  BY <1>2, <1>3, FS_Injection
<1> QED
  BY <1>3, <1>4

\* One more index that was not there.
LEMMA StillDistinct ==
  ASSUME NEW R, NEW T \in Seq(R), NEW e \in R, NEW bound, Distinct(T, bound),
         e.v_index < bound, row(T, e.v_index) = 0
  PROVE  Distinct(Append(T, e), bound)
<1> DEFINE U == Append(T, e)
<1>1. /\ DOMAIN U = 1 .. Len(T) + 1 /\ DOMAIN T = 1 .. Len(T) /\ Len(T) \in Nat
      /\ \A k \in DOMAIN T : U[k] = T[k]
      /\ U[Len(T) + 1] = e
  OBVIOUS
<1>2. \A k \in DOMAIN T : T[k].v_index # e.v_index
  BY RowFound
<1>3. \A k \in DOMAIN U : k \in DOMAIN T \/ k = Len(T) + 1
  BY <1>1
<1> HIDE DEF U
<1>4. \A k \in DOMAIN U : U[k].v_index < bound
  BY <1>1, <1>3 DEF Distinct
<1>5. \A j, k \in DOMAIN U : U[j].v_index = U[k].v_index => j = k
  BY <1>1, <1>2, <1>3 DEF Distinct
<1> QED
  BY <1>4, <1>5 DEF Distinct, U

\* A page below NUM_PAGES that has no entry finds room.
LEMMA MappedRoomy ==
  ASSUME NEW T \in Seq(Row), NEW addr \in Nat, NEW page \in PhysicalPage, Roomy(T),
         addr \div PAGE_SIZE < NUM_PAGES, Page(T, addr \div PAGE_SIZE) = NONE
  PROVE  Roomy(add_page_mapping(T, addr, page))
<1> DEFINE n == addr \div PAGE_SIZE
           f == n \div ROWS
           e == [v_index |-> n % ROWS, p_index |-> page]
           k == row(T, f)
           U == add_page_mapping(T, addr, page)
<1>1. /\ n \in Nat /\ f \in Nat /\ n % ROWS \in 0 .. ROWS - 1
      /\ get_first_lv(addr) = f /\ get_second_lv(addr) = n % ROWS
  <2>1. n \in Nat /\ ROWS \in Nat \ {0}
    BY Indexes, Sizing
  <2>2. f \in Nat /\ n % ROWS \in 0 .. ROWS - 1
    <3> HIDE DEF n
    <3> QED
      BY <2>1, Divided, Remainder
  <2> QED
    BY <2>1, <2>2, Indexes
<1>2. f < TOP
  <2>1. n < NUM_PAGES /\ NUM_PAGES = TOP * ROWS /\ ROWS \in Nat \ {0} /\ TOP \in Nat
    BY Sizing
  <2> HIDE DEF n
  <2>2. f \in Nat /\ ROWS * f \leq n
    BY <1>1, <2>1, Divided
  <2>3. SUFFICES ASSUME TOP \leq f PROVE FALSE
    BY <2>1, <2>2
  <2>4. ROWS * TOP \leq ROWS * f /\ ROWS * TOP = TOP * ROWS /\ ROWS * TOP \in Nat /\ ROWS * f \in Nat
    BY <2>1, <2>2, <2>3, TimesMonotone
  <2> QED
    BY <1>1, <2>1, <2>2, <2>4
<1>3. e \in Entry /\ e.v_index = n % ROWS
  BY <1>1 DEF Entry
<1>4. U = IF k = 0 THEN Append(T, [v_index |-> f, next_lv |-> <<e>>])
          ELSE [T EXCEPT ![k].next_lv = Append(@, e)]
  BY <1>1 DEF add_page_mapping
<1>5. TransTable = Seq(Entry)
  BY DEF TransTable, Entry
<1>6. row(get_trans_table(f, T), n % ROWS) = 0
  BY PageTyped
<1> HIDE DEF n, f, e, k, U
<1>7. ROWS \in Nat \ {0} /\ e.v_index < ROWS
  BY <1>1, <1>3, Sizing
<1>8. CASE k = 0
  <2> DEFINE r == [v_index |-> f, next_lv |-> <<e>>]
  <2>1. r \in Row /\ r.v_index = f /\ r.next_lv = <<e>>
    BY <1>1, <1>3, <1>5 DEF Row
  <2> HIDE DEF r
  <2>2. U = Append(T, r)
    BY <1>4, <1>8 DEF r
  <2>3. Distinct(U, TOP)
    BY <1>2, <1>8, <2>1, <2>2, StillDistinct DEF Roomy, k
  <2>4. Distinct(<<e>>, ROWS)
    BY <1>7 DEF Distinct
  <2>5. ASSUME NEW j \in DOMAIN U PROVE Distinct(U[j].next_lv, ROWS)
    <3>1. (j \in DOMAIN T /\ U[j] = T[j]) \/ U[j] = r
      BY <2>1, <2>2
    <3> QED
      BY <2>1, <2>4, <3>1 DEF Roomy
  <2> QED
    BY <2>3, <2>5 DEF Roomy, U
<1>9. CASE k # 0
  <2>1. k \in DOMAIN T /\ T[k].v_index = f
    BY <1>9, RowFound DEF k
  <2>2. T[k] \in Row /\ T[k].next_lv \in Seq(Entry)
    <3>1. T[k] \in Row
      BY <2>1
    <3> QED
      BY <1>5, <3>1 DEF Row
  <2> DEFINE r == [T[k] EXCEPT !.next_lv = Append(T[k].next_lv, e)]
  <2>3. r \in Row /\ r.v_index = T[k].v_index /\ r.next_lv = Append(T[k].next_lv, e)
    <3>1. Append(T[k].next_lv, e) \in Seq(Entry)
      BY <1>3, <2>2
    <3> QED
      BY <1>5, <2>2, <3>1 DEF Row
  <2>4. U = [T EXCEPT ![k] = r]
    BY <1>4, <1>9, <2>1
  <2> HIDE DEF r
  <2>5. /\ DOMAIN U = DOMAIN T /\ U[k] = r
        /\ \A j \in DOMAIN T : j # k => U[j] = T[j]
    BY <2>1, <2>4
  <2>6. \A j \in DOMAIN T : U[j].v_index = T[j].v_index
    BY <2>3, <2>5
  <2>7. Distinct(U, TOP)
    BY <2>5, <2>6 DEF Roomy, Distinct
  <2>8. Distinct(T[k].next_lv, ROWS)
    BY <2>1 DEF Roomy
  <2>9. get_trans_table(f, T) = T[k].next_lv
    BY <1>9 DEF get_trans_table, k
  <2>10. Distinct(Append(T[k].next_lv, e), ROWS)
    BY <1>3, <1>6, <1>7, <2>2, <2>8, <2>9, StillDistinct
  <2>11. \A j \in DOMAIN U : Distinct(U[j].next_lv, ROWS)
    BY <2>3, <2>5, <2>10 DEF Roomy
  <2> QED
    BY <2>7, <2>11 DEF Roomy, U
<1> QED
  BY <1>8, <1>9

-----------------------------------------------------------------------------
(* The free pages *)

LEMMA PagesFinite ==
  /\ IsFiniteSet(FreePages) /\ FreePages \in SUBSET Nat /\ FreePages \subseteq PhysicalPage
  /\ Cardinality(FreePages) \in 0 .. NUM_PAGES
<1>1. NUM_PAGES \in Nat \ {0}
  BY Sizing
<1>2. IsFiniteSet(PhysicalPage) /\ Cardinality(PhysicalPage) = NUM_PAGES
  BY <1>1, FS_Interval DEF PhysicalPage
<1>3. FreePages \subseteq PhysicalPage
  BY DEF FreePages
<1>4. IsFiniteSet(FreePages) /\ Cardinality(FreePages) \leq Cardinality(PhysicalPage)
  BY <1>2, <1>3, FS_Subset
<1>5. Cardinality(FreePages) \in Nat
  BY <1>4, FS_CardinalityType
<1> QED
  BY <1>1, <1>2, <1>3, <1>4, <1>5 DEF PhysicalPage

\* An allocation gets as many pages as it asks for, each once.
LEMMA FreeTaken ==
  ASSUME NEW n \in Nat, n \leq Cardinality(FreePages)
  PROVE  /\ first_free(n) \in [1 .. n -> FreePages]
         /\ \A j, k \in 1 .. n : first_free(n)[j] = first_free(n)[k] => j = k
<1>1. {k \in 1 .. n : k \leq Cardinality(FreePages)} = 1 .. n
  BY PagesFinite
<1>2. first_free(n) = [k \in 1 .. n |-> nth_free(k)]
  BY <1>1 DEF first_free
<1>3. ASSUME NEW k \in 1 .. n
      PROVE  /\ nth_free(k) \in FreePages
             /\ Cardinality({j \in FreePages : j < nth_free(k)}) = k - 1
  <2>1. k \in 1 .. Cardinality(FreePages)
    BY PagesFinite
  <2>2. \E i \in FreePages : Cardinality({j \in FreePages : j < i}) = k - 1
    BY <2>1, PagesFinite, NthSmallest
  <2> QED
    BY <2>2 DEF nth_free
<1>4. \A j, k \in 1 .. n : nth_free(j) = nth_free(k) => j = k
  <2> SUFFICES ASSUME NEW j \in 1 .. n, NEW k \in 1 .. n, nth_free(j) = nth_free(k)
               PROVE  j = k
    OBVIOUS
  <2>1. /\ Cardinality({i \in FreePages : i < nth_free(j)}) = j - 1
        /\ Cardinality({i \in FreePages : i < nth_free(k)}) = k - 1
    BY <1>3
  <2>2. j - 1 = k - 1
    BY <2>1
  <2> QED
    BY <2>2
<1> QED
  BY <1>2, <1>3, <1>4

-----------------------------------------------------------------------------
(* The pages of one allocation, mapped one behind the other *)

\* The tables f[0] .. f[n] between the mappings of an allocation.
Grown(f, n, T, addr, pages) ==
  /\ f[0] = T
  /\ \A i \in 1 .. n :
       f[i] = add_page_mapping(f[i - 1], addr + (i - 1) * PAGE_SIZE, pages[i])
  /\ add_mappings(T, addr, pages) = f[n]

LEMMA MappingsFollow ==
  ASSUME NEW T, NEW addr, NEW n \in Nat, NEW pages, pages \in Seq(PhysicalPage),
         Len(pages) = n, T \in Seq(Row), addr \in Nat
  PROVE  \E f \in [0 .. n -> Seq(Row)] : Grown(f, n, T, addr, pages)
<1> DEFINE S == Seq(Row)
           G == [i \in 1 .. n |->
                   [t \in S |-> add_page_mapping(t, addr + (i - 1) * PAGE_SIZE, pages[i])]]
           Body(g) == [k \in 0 .. Len(pages) |->
                         IF k = 0 THEN T
                         ELSE add_page_mapping(g[k - 1], addr + (k - 1) * PAGE_SIZE, pages[k])]
           tables == CHOOSE g : g = Body(g)
<1>1. \A i \in 1 .. n : addr + (i - 1) * PAGE_SIZE \in Nat /\ pages[i] \in PhysicalPage
  <2> TAKE i \in 1 .. n
  <2>1. i - 1 \in Nat /\ PAGE_SIZE \in Nat
    BY Sizing
  <2>2. (i - 1) * PAGE_SIZE \in Nat
    BY <2>1
  <2> QED
    BY <2>2
<1>2. IsSteps(G, n, S)
  <2> SUFFICES ASSUME NEW i \in 1 .. n, NEW t \in S
               PROVE  add_page_mapping(t, addr + (i - 1) * PAGE_SIZE, pages[i]) \in S
    BY DEF IsSteps
  <2> QED
    BY <1>1, Mapped
<1>3. PICK f \in [0 .. n -> S] : f[0] = T /\ \A i \in 1 .. n : f[i] = G[i][f[i - 1]]
  <2>1. PICK sets, first, step : sets = S /\ first = T /\ step = G
    OBVIOUS
  <2>2. first \in sets /\ IsSteps(step, n, sets)
    BY <1>2, <2>1
  <2>3. PICK f : f \in Computations(n, sets, first, step)
    BY <2>2, Iterated
  <2> QED
    BY <2>1, <2>3 DEF Computations
<1>4. \A i \in 1 .. n :
        f[i] = add_page_mapping(f[i - 1], addr + (i - 1) * PAGE_SIZE, pages[i])
  <2> TAKE i \in 1 .. n
  <2>1. i - 1 \in 0 .. n
    OBVIOUS
  <2>2. f[i - 1] \in S
    BY <2>1
  <2> QED
    BY <1>3, <2>2
<1>5. f = Body(f)
  <2>1. \A i \in 0 .. n : i # 0 => i \in 1 .. n
    OBVIOUS
  <2> QED
    BY <1>3, <1>4, <2>1
<1>6. tables = Body(tables)
  <2> HIDE DEF Body
  <2> QED
    BY <1>5
<1>7. add_mappings(T, addr, pages) = tables[n]
  BY DEF add_mappings
<1> HIDE DEF tables
<1> DEFINE W == {i \in 0 .. n : tables[i] # f[i]}
<1>8. W = {}
  <2>1. SUFFICES ASSUME W # {} PROVE FALSE
    OBVIOUS
  <2>2. PICK m \in W : \A k \in W : m \leq k
    <3>1. W \in SUBSET Nat
      OBVIOUS
    <3> HIDE DEF W
    <3> QED
      BY <2>1, <3>1, LeastNumber
  <2>3. m \in 0 .. n /\ tables[m] # f[m]
    OBVIOUS
  <2>4. m # 0
    BY <1>3, <1>6, <2>3
  <2>5. m - 1 \in 0 .. n /\ m \in 1 .. n /\ ~ (m \leq m - 1)
    BY <2>3, <2>4
  <2>6. tables[m - 1] = f[m - 1]
    BY <2>2, <2>5
  <2>7. tables[m] = add_page_mapping(tables[m - 1], addr + (m - 1) * PAGE_SIZE, pages[m])
    BY <1>6, <2>3, <2>4
  <2> QED
    BY <1>4, <2>3, <2>5, <2>6, <2>7
<1>9. add_mappings(T, addr, pages) = f[n]
  <2>1. n \in 0 .. n
    OBVIOUS
  <2> QED
    BY <1>7, <1>8, <2>1
<1>10. Grown(f, n, T, addr, pages)
  BY <1>3, <1>4, <1>9 DEF Grown
<1> QED
  BY <1>10

\* After an allocation at page v the table has the new pages there and the old ones
\* where they were.
LEMMA Allocated ==
  ASSUME NEW T, NEW v \in Nat, NEW pages, T \in Seq(Row), Roomy(T),
         pages \in Seq(PhysicalPage), v + Len(pages) \leq NUM_PAGES,
         \A m \in v .. v + Len(pages) - 1 : Page(T, m) = NONE
  PROVE  LET U == add_mappings(T, v * PAGE_SIZE, pages)
         IN  /\ U \in Seq(Row) /\ Roomy(U)
             /\ \A m \in Nat : Page(U, m) =
                  IF m \in v .. v + Len(pages) - 1 THEN pages[m - v + 1] ELSE Page(T, m)
<1> DEFINE n == Len(pages)
           addr(i) == v * PAGE_SIZE + (i - 1) * PAGE_SIZE
<1>1. n \in Nat /\ PAGE_SIZE \in Nat \ {0} /\ v * PAGE_SIZE \in Nat /\ NUM_PAGES \in Nat
  BY Sizing
<1>2. \A i \in 1 .. n : pages[i] \in PhysicalPage
  OBVIOUS
<1> HIDE DEF n
<1>3. PICK f \in [0 .. n -> Seq(Row)] :
        /\ f[0] = T
        /\ \A i \in 1 .. n : f[i] = add_page_mapping(f[i - 1], addr(i), pages[i])
        /\ add_mappings(T, v * PAGE_SIZE, pages) = f[n]
  <2>1. PICK len, start : len = n /\ start = v * PAGE_SIZE
    OBVIOUS
  <2>2. len \in Nat /\ Len(pages) = len /\ start \in Nat
    BY <1>1, <2>1 DEF n
  <2>3. PICK f \in [0 .. len -> Seq(Row)] : Grown(f, len, T, start, pages)
    BY <2>2, MappingsFollow
  <2> QED
    BY <2>1, <2>3 DEF Grown
<1>4. ASSUME NEW i \in 1 .. n
      PROVE  addr(i) \in Nat /\ addr(i) \div PAGE_SIZE = v + i - 1
  <2>1. addr(i) = (v + i - 1) * PAGE_SIZE + 0
    BY <1>1
  <2>2. v + i - 1 \in Nat /\ 0 \in 0 .. PAGE_SIZE - 1
    BY <1>1
  <2> HIDE DEF addr
  <2> QED
    BY <2>1, <2>2, Paged
<1> HIDE DEF addr
<1> DEFINE Good(i) == /\ Roomy(f[i])
                      /\ \A m \in Nat : Page(f[i], m) =
                           IF m \in v .. v + i - 1 THEN pages[m - v + 1] ELSE Page(T, m)
           W == {i \in 0 .. n : ~ Good(i)}
<1>5. Good(0)
  BY <1>3
<1>6. ASSUME NEW i \in 1 .. n, Good(i - 1) PROVE Good(i)
  <2>1. i - 1 \in 0 .. n /\ i \in 0 .. n /\ f[i - 1] \in Seq(Row)
    <3>1. i - 1 \in 0 .. n /\ i \in 0 .. n
      BY <1>1
    <3> QED
      BY <3>1
  <2>2. addr(i) \in Nat /\ addr(i) \div PAGE_SIZE = v + i - 1
    BY <1>4
  <2>3. v + i - 1 \in Nat /\ v + i - 1 < NUM_PAGES /\ v + i - 1 \in v .. v + n - 1
        /\ v + i - 1 \notin v .. v + (i - 1) - 1
    BY <1>1 DEF n
  <2>4. Page(f[i - 1], v + i - 1) = NONE
    BY <1>6, <2>3 DEF n
  <2>5. f[i] = add_page_mapping(f[i - 1], addr(i), pages[i]) /\ pages[i] \in PhysicalPage
    BY <1>2, <1>3
  <2>6. Roomy(f[i])
    BY <1>6, <2>1, <2>2, <2>3, <2>4, <2>5, MappedRoomy
  <2>7. ASSUME NEW m \in Nat
        PROVE  Page(f[i], m) = IF m \in v .. v + i - 1 THEN pages[m - v + 1] ELSE Page(T, m)
    <3>1. Page(f[i], m) = IF m = v + i - 1 /\ Page(f[i - 1], m) = NONE THEN pages[i]
                          ELSE Page(f[i - 1], m)
      <4>1. \A l \in Nat : Page(add_page_mapping(f[i - 1], addr(i), pages[i]), l) =
              IF l = addr(i) \div PAGE_SIZE /\ Page(f[i - 1], l) = NONE
              THEN pages[i] ELSE Page(f[i - 1], l)
        BY <2>1, <2>2, <2>5, Mapped
      <4>2. Page(add_page_mapping(f[i - 1], addr(i), pages[i]), m) =
              IF m = addr(i) \div PAGE_SIZE /\ Page(f[i - 1], m) = NONE
              THEN pages[i] ELSE Page(f[i - 1], m)
        BY <4>1
      <4> QED
        BY <2>2, <2>5, <4>2
    <3>2. Page(f[i - 1], m) = IF m \in v .. v + (i - 1) - 1 THEN pages[m - v + 1] ELSE Page(T, m)
      BY <1>6
    <3>3. CASE m = v + i - 1
      <4>1. m - v + 1 = i /\ m \in v .. v + i - 1
        BY <3>3
      <4> QED
        BY <2>4, <3>1, <3>3, <4>1
    <3>4. CASE m # v + i - 1
      <4>1. m \in v .. v + i - 1 <=> m \in v .. v + (i - 1) - 1
        BY <3>4
      <4> QED
        BY <3>1, <3>2, <3>4, <4>1
    <3> QED
      BY <3>3, <3>4
  <2> QED
    BY <2>6, <2>7
<1>7. W = {}
  <2>1. SUFFICES ASSUME W # {} PROVE FALSE
    OBVIOUS
  <2>2. PICK m \in W : \A k \in W : m \leq k
    <3>1. W \in SUBSET Nat
      OBVIOUS
    <3> HIDE DEF W
    <3> QED
      BY <2>1, <3>1, LeastNumber
  <2>3. m \in 0 .. n /\ ~ Good(m)
    OBVIOUS
  <2> HIDE DEF Good
  <2>4. m # 0
    BY <1>5, <2>3
  <2>5. m - 1 \in 0 .. n /\ m \in 1 .. n /\ ~ (m \leq m - 1)
    BY <1>1, <2>3, <2>4
  <2>6. Good(m - 1)
    BY <2>2, <2>5
  <2> QED
    BY <1>6, <2>3, <2>5, <2>6
<1>8. n \in 0 .. n
  BY <1>1
<1>9. Good(n)
  <2> HIDE DEF Good
  <2> QED
    BY <1>7, <1>8
<1> QED
  BY <1>3, <1>8, <1>9 DEF n

-----------------------------------------------------------------------------
(* The invariant *)

\* The tables have room for every page of memory.
Tables ==
  /\ page_table \in [Proc -> Seq(Row)]
  /\ \A p \in Proc : Roomy(page_table[p])

\* A process has the pages from the first to its break, which is a page's.
HasPages(p, v) ==
  /\ bp[p] = v * PAGE_SIZE
  /\ \A m \in Nat : Page(page_table[p], m) # NONE <=> 1 \leq m /\ m < v

Breaks ==
  /\ bp \in [Proc -> Nat]
  /\ \A p \in Proc : \E v \in 1 .. NUM_PAGES : HasPages(p, v)

\* A page in a table is its process's and at one place; a page with an owner is there.
Owners ==
  /\ mem_stat \in [PhysicalPage -> [proc : Proc \cup {NOBODY}, index : 0 .. NUM_PAGES,
                                    next : PhysicalPage \cup {NONE}]]
  /\ \A p \in Proc : \A m \in Nat :
       Page(page_table[p], m) # NONE => mem_stat[Page(page_table[p], m)].proc = p
  /\ \A p \in Proc : \A l, m \in Nat :
       Page(page_table[p], m) # NONE /\ Page(page_table[p], l) = Page(page_table[p], m) => l = m
  /\ \A i \in PhysicalPage :
       mem_stat[i].proc \in Proc => \E m \in Nat : Page(page_table[mem_stat[i].proc], m) = i

\* The chain of an allocation goes through its pages as they are mapped.
Chains ==
  \A i, j \in PhysicalPage :
    mem_stat[i].proc # NOBODY /\ mem_stat[i].next = j =>
      /\ mem_stat[j].proc = mem_stat[i].proc
      /\ mem_stat[j].index = mem_stat[i].index + 1
      /\ \A m \in Nat : Page(page_table[mem_stat[i].proc], m) = i =>
                          Page(page_table[mem_stat[i].proc], m + 1) = j

\* Nobody has written to a free page.
Cleared ==
  /\ ram \in [Address -> Bytes]
  /\ \A i \in FreePages : \A o \in 0 .. PAGE_SIZE - 1 : ram[i * PAGE_SIZE + o] = 0

Registers == regs \in [Proc -> [Reg -> 0 .. WORD - 1]]

InOrder == Tables /\ Breaks /\ Owners /\ Chains /\ Cleared /\ Registers

-----------------------------------------------------------------------------
(* An allocation: `pages`, free before, become those of p from page v on *)

Takes(p, v, pages) ==
  LET n == Len(pages)
  IN  /\ v \in 1 .. NUM_PAGES /\ pages \in Seq(PhysicalPage) /\ v + n \leq NUM_PAGES
      /\ HasPages(p, v)
      /\ \A k \in 1 .. n : pages[k] \in FreePages
      /\ \A j, k \in 1 .. n : pages[j] = pages[k] => j = k
      /\ bp' = [bp EXCEPT ![p] = (v + n) * PAGE_SIZE]
      /\ \A q \in Proc \ {p} : page_table'[q] = page_table[q]
      /\ page_table' \in [Proc -> Seq(Row)]
      /\ Roomy(page_table'[p])
      /\ \A m \in Nat : Page(page_table'[p], m) =
           IF m \in v .. v + n - 1 THEN pages[m - v + 1] ELSE Page(page_table[p], m)
      /\ mem_stat' = [i \in PhysicalPage |-> mem_stat'[i]]
      /\ \A i \in PhysicalPage :
           (\A k \in 1 .. n : pages[k] # i) => mem_stat'[i] = mem_stat[i]
      /\ \A k \in 1 .. n :
           mem_stat'[pages[k]] = [proc |-> p, index |-> k - 1, next |-> next_of(pages, k)]

LEMMA SmallModulo ==
  ASSUME NEW w \in Nat, NEW x \in 0 .. w - 1
  PROVE  x % w = x
<1>1. w \in Nat \ {0} /\ x \in Nat
  OBVIOUS
<1>2. w * 0 \leq x /\ x < w * (0 + 1)
  BY <1>1
<1>3. x \div w = 0
  BY <1>1, <1>2, QuotientUnique
<1>4. x = w * (x \div w) + (x % w) /\ x % w \in 0 .. w - 1
  BY <1>1, Remainder
<1> QED
  BY <1>1, <1>3, <1>4

\* What fits into memory by the test of 32 bits fits into it.
LEMMA NoWrap ==
  ASSUME NEW v \in 1 .. NUM_PAGES, NEW n \in 0 .. NUM_PAGES,
         (v * PAGE_SIZE + n * PAGE_SIZE) % WORD \leq RAM_SIZE
  PROVE  /\ (v * PAGE_SIZE + n * PAGE_SIZE) % WORD = (v + n) * PAGE_SIZE
         /\ v + n \leq NUM_PAGES
<1>1. PAGE_SIZE \in Nat \ {0} /\ NUM_PAGES \in Nat \ {0} /\ RAM_SIZE = PAGE_SIZE * NUM_PAGES
      /\ RAM_SIZE \in Nat /\ WORD \in Nat /\ 2 * RAM_SIZE < WORD
  BY Sizing, MemAssumption
<1>2. v * PAGE_SIZE + n * PAGE_SIZE = PAGE_SIZE * (v + n) /\ v + n \in Nat
      /\ PAGE_SIZE * (v + n) = (v + n) * PAGE_SIZE
  BY <1>1
<1>3. PAGE_SIZE * (v + n) \leq PAGE_SIZE * (2 * NUM_PAGES)
  BY <1>1, <1>2, TimesMonotone
<1>4. PAGE_SIZE * (2 * NUM_PAGES) = 2 * RAM_SIZE
  BY <1>1
<1>5. PAGE_SIZE * (v + n) \in 0 .. WORD - 1
  <2>1. PAGE_SIZE * (v + n) \in Nat
    BY <1>1, <1>2
  <2> QED
    BY <1>1, <1>3, <1>4, <2>1
<1>6. (PAGE_SIZE * (v + n)) % WORD = PAGE_SIZE * (v + n)
  BY <1>1, <1>5, SmallModulo
<1>7. v + n \leq NUM_PAGES
  <2>1. SUFFICES ASSUME NUM_PAGES + 1 \leq v + n PROVE FALSE
    BY <1>1, <1>2
  <2>2. PAGE_SIZE * (NUM_PAGES + 1) \leq PAGE_SIZE * (v + n)
    BY <1>1, <1>2, <2>1, TimesMonotone
  <2>3. PAGE_SIZE * (NUM_PAGES + 1) = RAM_SIZE + PAGE_SIZE
    BY <1>1
  <2> QED
    BY <1>1, <1>2, <1>5, <1>6, <2>2, <2>3
<1> QED
  BY <1>2, <1>6, <1>7

LEMMA Taken ==
  ASSUME InOrder, NEW p \in Proc, NEW n \in Nat, available(p, n), take_pages(p, n)
  PROVE  \E v, pages : Takes(p, v, pages) /\ Len(pages) = n
<1>1. PICK v \in 1 .. NUM_PAGES : HasPages(p, v)
  BY DEF InOrder, Breaks
<1> DEFINE pages == first_free(n)
<1>2. bp[p] = v * PAGE_SIZE /\ bp \in [Proc -> Nat]
  BY <1>1 DEF HasPages, InOrder, Breaks
<1>3. n \in 0 .. NUM_PAGES /\ n \leq Cardinality(FreePages)
  <2>1. n \leq Cardinality(FreePages)
    BY DEF available
  <2>2. Cardinality(FreePages) \in 0 .. NUM_PAGES /\ NUM_PAGES \in Nat
    BY PagesFinite, Sizing
  <2> QED
    BY <2>1, <2>2
<1>4. (bp[p] + n * PAGE_SIZE) % WORD = (v + n) * PAGE_SIZE /\ v + n \leq NUM_PAGES
  BY <1>2, <1>3, NoWrap DEF available
<1>5. pages \in [1 .. n -> FreePages] /\ \A j, k \in 1 .. n : pages[j] = pages[k] => j = k
  BY <1>3, FreeTaken
<1> HIDE DEF pages
<1>6. pages \in Seq(PhysicalPage) /\ Len(pages) = n /\ DOMAIN pages = 1 .. n
  <2>1. FreePages \subseteq PhysicalPage
    BY PagesFinite
  <2>2. pages \in [1 .. n -> PhysicalPage]
    BY <1>5, <2>1
  <2> QED
    BY <2>2
<1>7. bp' = [bp EXCEPT ![p] = (v + n) * PAGE_SIZE]
  BY <1>4 DEF take_pages
<1>8. page_table' = [page_table EXCEPT ![p] = add_mappings(page_table[p], v * PAGE_SIZE, pages)]
  BY <1>2 DEF take_pages, pages, InOrder, Tables
<1>9. page_table \in [Proc -> Seq(Row)] /\ page_table[p] \in Seq(Row) /\ Roomy(page_table[p])
  BY DEF InOrder, Tables
<1>10. \A m \in v .. v + n - 1 : Page(page_table[p], m) = NONE
  BY <1>1, <1>3 DEF HasPages
<1> DEFINE U == add_mappings(page_table[p], v * PAGE_SIZE, pages)
<1>11. /\ U \in Seq(Row) /\ Roomy(U)
       /\ \A m \in Nat : Page(U, m) =
            IF m \in v .. v + n - 1 THEN pages[m - v + 1] ELSE Page(page_table[p], m)
  <2>1. v \in Nat /\ v + Len(pages) \leq NUM_PAGES
        /\ \A m \in v .. v + Len(pages) - 1 : Page(page_table[p], m) = NONE
    BY <1>4, <1>6, <1>10
  <2>2. /\ U \in Seq(Row) /\ Roomy(U)
        /\ \A m \in Nat : Page(U, m) =
             IF m \in v .. v + Len(pages) - 1 THEN pages[m - v + 1] ELSE Page(page_table[p], m)
    BY <1>6, <1>9, <2>1, Allocated
  <2> HIDE DEF U
  <2> QED
    BY <1>6, <2>2
<1> HIDE DEF U
<1>12. /\ page_table'[p] = U /\ \A q \in Proc \ {p} : page_table'[q] = page_table[q]
       /\ page_table' \in [Proc -> Seq(Row)]
  BY <1>8, <1>9, <1>11 DEF U
<1>13. mem_stat' = [i \in PhysicalPage |->
           IF \E k \in DOMAIN pages : pages[k] = i
           THEN LET k == CHOOSE k \in DOMAIN pages : pages[k] = i
                IN  [proc |-> p, index |-> k - 1, next |-> next_of(pages, k)]
           ELSE mem_stat[i]]
  BY DEF take_pages, pages
<1>14. \A i \in PhysicalPage :
         (\A k \in 1 .. n : pages[k] # i) => mem_stat'[i] = mem_stat[i]
  BY <1>6, <1>13
<1>15. ASSUME NEW k \in 1 .. n
       PROVE  mem_stat'[pages[k]] = [proc |-> p, index |-> k - 1, next |-> next_of(pages, k)]
  <2>1. pages[k] \in PhysicalPage /\ k \in DOMAIN pages
    BY <1>6
  <2>2. (CHOOSE l \in DOMAIN pages : pages[l] = pages[k]) = k
    BY <1>5, <1>6, <2>1
  <2> QED
    BY <1>13, <2>1, <2>2
<1>16. Takes(p, v, pages)
  <2>1. mem_stat' = [i \in PhysicalPage |-> mem_stat'[i]]
    BY <1>13
  <2>2. \A k \in 1 .. n : pages[k] \in FreePages
    BY <1>5
  <2> QED
    BY <1>1, <1>4, <1>5, <1>6, <1>7, <1>11, <1>12, <1>14, <1>15, <2>1, <2>2 DEF Takes
<1> QED
  BY <1>6, <1>16

-----------------------------------------------------------------------------
(* An allocation keeps everything in order *)

\* Where the virtual pages are afterwards, whoever's they are.
LEMMA PagesAfter ==
  ASSUME NEW p \in Proc, NEW v, NEW pages, Takes(p, v, pages), NEW q \in Proc, NEW m \in Nat
  PROVE  Page(page_table'[q], m) =
           IF q = p /\ m \in v .. v + Len(pages) - 1 THEN pages[m - v + 1]
           ELSE Page(page_table[q], m)
<1>1. CASE q = p
  BY <1>1 DEF Takes
<1>2. CASE q # p
  BY <1>2 DEF Takes
<1> QED
  BY <1>1, <1>2

\* Whose the physical pages are afterwards.
LEMMA OwnersAfter ==
  ASSUME NEW p \in Proc, NEW v, NEW pages, Takes(p, v, pages), NEW i \in PhysicalPage
  PROVE  \/ /\ mem_stat'[i] = mem_stat[i]
            /\ \A k \in 1 .. Len(pages) : pages[k] # i
         \/ \E k \in 1 .. Len(pages) :
              /\ pages[k] = i /\ mem_stat[i].proc = NOBODY
              /\ mem_stat'[i] = [proc |-> p, index |-> k - 1, next |-> next_of(pages, k)]
<1>1. CASE \A k \in 1 .. Len(pages) : pages[k] # i
  BY <1>1 DEF Takes
<1>2. ASSUME NEW k \in 1 .. Len(pages), pages[k] = i
      PROVE  /\ pages[k] = i /\ mem_stat[i].proc = NOBODY
             /\ mem_stat'[i] = [proc |-> p, index |-> k - 1, next |-> next_of(pages, k)]
  BY <1>2 DEF Takes, FreePages
<1> QED
  BY <1>1, <1>2

LEMMA NobodyIsNoProc == NOBODY \notin Proc /\ NONE \notin PhysicalPage
BY MemAssumption, Sizing DEF NOBODY, NONE, PhysicalPage

LEMMA TablesTaken ==
  ASSUME Tables, NEW p \in Proc, NEW v, NEW pages, Takes(p, v, pages)
  PROVE  Tables'
<1>1. page_table' \in [Proc -> Seq(Row)]
  BY DEF Takes
<1>2. ASSUME NEW q \in Proc PROVE Roomy(page_table'[q])
  <2>1. CASE q = p
    BY <2>1 DEF Takes
  <2>2. CASE q # p
    BY <2>2 DEF Takes, Tables
  <2> QED
    BY <2>1, <2>2
<1> QED
  BY <1>1, <1>2 DEF Tables

LEMMA BreaksTaken ==
  ASSUME InOrder, NEW p \in Proc, NEW v, NEW pages, Takes(p, v, pages)
  PROVE  Breaks'
<1> DEFINE n == Len(pages)
<1>1. /\ v \in 1 .. NUM_PAGES /\ v \in Nat /\ n \in Nat /\ v + n \in 1 .. NUM_PAGES
      /\ bp' = [bp EXCEPT ![p] = (v + n) * PAGE_SIZE] /\ bp \in [Proc -> Nat]
      /\ pages \in Seq(PhysicalPage) /\ HasPages(p, v)
  <2>1. /\ v \in 1 .. NUM_PAGES /\ v + n \leq NUM_PAGES /\ HasPages(p, v)
        /\ bp' = [bp EXCEPT ![p] = (v + n) * PAGE_SIZE]
        /\ pages \in Seq(PhysicalPage)
    BY DEF Takes
  <2>2. n \in Nat /\ NUM_PAGES \in Nat
    BY <2>1, Sizing
  <2> HIDE DEF n
  <2>3. v \in Nat /\ v + n \in 1 .. NUM_PAGES
    BY <2>1, <2>2
  <2> QED
    BY <2>1, <2>2, <2>3 DEF InOrder, Breaks
<1>2. (v + n) * PAGE_SIZE \in Nat
  <2>1. \A x, y \in Nat : x * y \in Nat
    OBVIOUS
  <2> QED
    BY <1>1, <2>1, Sizing
<1>3. bp' \in [Proc -> Nat]
  BY <1>1, <1>2
<1>4. ASSUME NEW q \in Proc
      PROVE  \E w \in 1 .. NUM_PAGES :
               /\ bp'[q] = w * PAGE_SIZE
               /\ \A m \in Nat : Page(page_table'[q], m) # NONE <=> 1 \leq m /\ m < w
  <2>1. CASE q # p
    <3>1. PICK w \in 1 .. NUM_PAGES : HasPages(q, w)
      BY DEF InOrder, Breaks
    <3>2. bp'[q] = bp[q]
      BY <1>1, <2>1
    <3>3. \A m \in Nat : Page(page_table'[q], m) = Page(page_table[q], m)
      BY <2>1, PagesAfter
    <3> QED
      BY <3>1, <3>2, <3>3 DEF HasPages
  <2>2. CASE q = p
    <3>1. bp'[q] = (v + n) * PAGE_SIZE
      BY <1>1, <2>2
    <3>2. ASSUME NEW m \in Nat
          PROVE  Page(page_table'[p], m) # NONE <=> 1 \leq m /\ m < v + n
      <4>1. Page(page_table'[p], m) = IF m \in v .. v + n - 1 THEN pages[m - v + 1]
                                      ELSE Page(page_table[p], m)
        BY PagesAfter
      <4>2. Page(page_table[p], m) # NONE <=> 1 \leq m /\ m < v
        BY <1>1 DEF HasPages
      <4>3. CASE m \in v .. v + n - 1
        <5>1. m - v + 1 \in 1 .. n /\ 1 \leq m /\ m < v + n
          BY <1>1, <4>3
        <5>2. pages[m - v + 1] \in PhysicalPage
          BY <1>1, <5>1
        <5> QED
          BY <4>1, <4>3, <5>1, <5>2, NobodyIsNoProc
      <4>4. CASE m \notin v .. v + n - 1
        BY <1>1, <4>1, <4>2, <4>4
      <4> QED
        BY <4>3, <4>4
    <3> QED
      BY <1>1, <2>2, <3>1, <3>2
  <2> QED
    BY <2>1, <2>2
<1> QED
  BY <1>3, <1>4 DEF Breaks, HasPages

LEMMA OwnersTaken ==
  ASSUME InOrder, NEW p \in Proc, NEW v, NEW pages, Takes(p, v, pages)
  PROVE  Owners'
<1> DEFINE n == Len(pages)
           Old(q, m) == Page(page_table[q], m)
           New(q, m) == Page(page_table'[q], m)
<1>1. /\ v \in 1 .. NUM_PAGES /\ v \in Nat /\ n \in Nat /\ n \leq NUM_PAGES /\ NUM_PAGES \in Nat
      /\ pages \in Seq(PhysicalPage) /\ HasPages(p, v)
      /\ \A k \in 1 .. n : pages[k] \in FreePages /\ pages[k] \in PhysicalPage
      /\ \A j, k \in 1 .. n : pages[j] = pages[k] => j = k
  <2>1. pages \in Seq(PhysicalPage) /\ n \in Nat
    BY DEF Takes
  <2>2. \A k \in 1 .. n : pages[k] \in PhysicalPage
    BY <2>1
  <2> QED
    BY <2>1, <2>2, Sizing DEF Takes
<1>2. /\ mem_stat \in [PhysicalPage -> [proc : Proc \cup {NOBODY}, index : 0 .. NUM_PAGES,
                                        next : PhysicalPage \cup {NONE}]]
      /\ \A q \in Proc : \A m \in Nat : Old(q, m) # NONE => mem_stat[Old(q, m)].proc = q
      /\ \A q \in Proc : \A l, m \in Nat : Old(q, m) # NONE /\ Old(q, l) = Old(q, m) => l = m
      /\ \A i \in PhysicalPage :
           mem_stat[i].proc \in Proc => \E m \in Nat : Old(mem_stat[i].proc, m) = i
      /\ page_table \in [Proc -> Seq(Row)]
  BY DEF InOrder, Owners, Tables
<1>3. \A q \in Proc : \A m \in Nat : Old(q, m) \in PhysicalPage \cup {NONE}
  <2> TAKE q \in Proc
  <2> TAKE m \in Nat
  <2>1. page_table[q] \in Seq(Row)
    BY <1>2
  <2> QED
    BY <2>1, PageTyped
<1>4. \A q \in Proc : \A m \in Nat :
        New(q, m) = IF q = p /\ m \in v .. v + n - 1 THEN pages[m - v + 1] ELSE Old(q, m)
  BY PagesAfter
<1>5. \A m \in v .. v + n - 1 : m \in Nat /\ m - v + 1 \in 1 .. n /\ Old(p, m) = NONE
  BY <1>1 DEF HasPages
<1>6. \A i \in PhysicalPage :
        \/ mem_stat'[i] = mem_stat[i] /\ \A k \in 1 .. n : pages[k] # i
        \/ \E k \in 1 .. n :
             /\ pages[k] = i /\ mem_stat[i].proc = NOBODY
             /\ mem_stat'[i] = [proc |-> p, index |-> k - 1, next |-> next_of(pages, k)]
  BY OwnersAfter
<1> HIDE DEF n, Old, New
<1>7. mem_stat' \in [PhysicalPage -> [proc : Proc \cup {NOBODY}, index : 0 .. NUM_PAGES,
                                      next : PhysicalPage \cup {NONE}]]
  <2>1. mem_stat' = [i \in PhysicalPage |-> mem_stat'[i]]
    BY DEF Takes
  <2>2. ASSUME NEW i \in PhysicalPage
        PROVE  mem_stat'[i] \in [proc : Proc \cup {NOBODY}, index : 0 .. NUM_PAGES,
                                 next : PhysicalPage \cup {NONE}]
    <3>1. CASE mem_stat'[i] = mem_stat[i]
      BY <1>2, <3>1
    <3>2. ASSUME NEW k \in 1 .. n,
                 mem_stat'[i] = [proc |-> p, index |-> k - 1, next |-> next_of(pages, k)]
          PROVE  mem_stat'[i] \in [proc : Proc \cup {NOBODY}, index : 0 .. NUM_PAGES,
                                   next : PhysicalPage \cup {NONE}]
      <4>1. k - 1 \in 0 .. NUM_PAGES
        BY <1>1
      <4>2. next_of(pages, k) \in PhysicalPage \cup {NONE}
        BY <1>1 DEF next_of, n
      <4> QED
        BY <3>2, <4>1, <4>2
    <3> QED
      BY <1>6, <3>1, <3>2
  <2> QED
    BY <2>1, <2>2
<1>8. ASSUME NEW q \in Proc, NEW m \in Nat, New(q, m) # NONE
      PROVE  mem_stat'[New(q, m)].proc = q
  <2>1. CASE q = p /\ m \in v .. v + n - 1
    <3>1. PICK k \in 1 .. n : New(q, m) = pages[k]
      BY <1>4, <1>5, <2>1
    <3>2. pages[k] \in PhysicalPage
      BY <1>1
    <3>3. mem_stat'[pages[k]].proc = p
      <4>1. \E j \in 1 .. n :
              mem_stat'[pages[k]] = [proc |-> p, index |-> j - 1, next |-> next_of(pages, j)]
        BY <1>6, <3>2
      <4> QED
        BY <4>1
    <3> QED
      BY <2>1, <3>1, <3>3
  <2>2. CASE ~ (q = p /\ m \in v .. v + n - 1)
    <3>1. New(q, m) = Old(q, m)
      BY <1>4, <2>2
    <3>2. Old(q, m) \in PhysicalPage /\ mem_stat[Old(q, m)].proc = q
      BY <1>2, <1>3, <1>8, <3>1
    <3>3. mem_stat'[Old(q, m)] = mem_stat[Old(q, m)]
      BY <1>6, <3>2, NobodyIsNoProc
    <3> QED
      BY <3>1, <3>2, <3>3
  <2> QED
    BY <2>1, <2>2
<1>9. ASSUME NEW q \in Proc, NEW l \in Nat, NEW m \in Nat, New(q, m) # NONE, New(q, l) = New(q, m)
      PROVE  l = m
  <2> DEFINE In(x) == q = p /\ x \in v .. v + n - 1
  <2>1. ASSUME NEW x \in Nat, NEW y \in Nat, In(x), ~ In(y), New(q, x) = New(q, y), New(q, x) # NONE
        PROVE  FALSE
    <3>1. x - v + 1 \in 1 .. n /\ New(q, x) = pages[x - v + 1]
      BY <1>4, <1>5, <2>1
    <3>2. New(q, x) \in FreePages
      BY <1>1, <3>1
    <3>3. New(q, y) = Old(q, y)
      BY <1>4, <2>1
    <3>4. mem_stat[Old(q, y)].proc = q
      BY <1>2, <2>1, <3>3
    <3> QED
      BY <2>1, <3>2, <3>3, <3>4, NobodyIsNoProc DEF FreePages
  <2>2. CASE In(l) /\ In(m)
    <3>1. l - v + 1 \in 1 .. n /\ m - v + 1 \in 1 .. n
      BY <1>5, <2>2
    <3>2. pages[l - v + 1] = pages[m - v + 1]
      BY <1>4, <1>9, <2>2
    <3>3. l - v + 1 = m - v + 1
      BY <1>1, <3>1, <3>2
    <3> QED
      BY <1>1, <3>3
  <2>3. CASE ~ In(l) /\ ~ In(m)
    BY <1>2, <1>4, <1>9, <2>3
  <2> QED
    BY <1>9, <2>1, <2>2, <2>3
<1>10. ASSUME NEW i \in PhysicalPage, mem_stat'[i].proc \in Proc
       PROVE  \E m \in Nat : New(mem_stat'[i].proc, m) = i
  <2>1. CASE mem_stat'[i] = mem_stat[i] /\ \A k \in 1 .. n : pages[k] # i
    <3>1. PICK m \in Nat : Old(mem_stat[i].proc, m) = i
      BY <1>2, <1>10, <2>1
    <3>2. Old(mem_stat[i].proc, m) # NONE
      BY <3>1, NobodyIsNoProc
    <3>3. New(mem_stat[i].proc, m) = Old(mem_stat[i].proc, m)
      BY <1>4, <1>5, <1>10, <2>1, <3>2
    <3> QED
      BY <2>1, <3>1, <3>3
  <2>2. ASSUME NEW k \in 1 .. n, pages[k] = i,
               mem_stat'[i] = [proc |-> p, index |-> k - 1, next |-> next_of(pages, k)]
        PROVE  \E m \in Nat : New(mem_stat'[i].proc, m) = i
    <3> DEFINE m == v + k - 1
    <3>1. m \in Nat /\ m \in v .. v + n - 1 /\ m - v + 1 = k
      BY <1>1
    <3>2. New(p, m) = i
      BY <1>4, <2>2, <3>1
    <3>3. mem_stat'[i].proc = p
      BY <2>2
    <3> QED
      BY <3>1, <3>2, <3>3
  <2> QED
    BY <1>6, <2>1, <2>2
<1> QED
  BY <1>7, <1>8, <1>9, <1>10 DEF Owners, New

LEMMA ChainsTaken ==
  ASSUME InOrder, NEW p \in Proc, NEW v, NEW pages, Takes(p, v, pages)
  PROVE  Chains'
<1> DEFINE n == Len(pages)
           Old(q, m) == Page(page_table[q], m)
           New(q, m) == Page(page_table'[q], m)
<1>1. /\ v \in Nat /\ n \in Nat
      /\ pages \in Seq(PhysicalPage) /\ HasPages(p, v)
      /\ \A k \in 1 .. n : pages[k] \in PhysicalPage
      /\ \A j, k \in 1 .. n : pages[j] = pages[k] => j = k
  <2>1. pages \in Seq(PhysicalPage) /\ n \in Nat
    BY DEF Takes
  <2>2. \A k \in 1 .. n : pages[k] \in PhysicalPage
    BY <2>1
  <2>3. v \in Nat /\ HasPages(p, v) /\ \A j, k \in 1 .. n : pages[j] = pages[k] => j = k
    BY DEF Takes
  <2> QED
    BY <2>1, <2>2, <2>3
<1>2. \A q \in Proc : \A m \in Nat :
        New(q, m) = IF q = p /\ m \in v .. v + n - 1 THEN pages[m - v + 1] ELSE Old(q, m)
  BY PagesAfter
<1>3. \A m \in v .. v + n - 1 : m \in Nat /\ m - v + 1 \in 1 .. n /\ Old(p, m) = NONE
  BY <1>1 DEF HasPages
<1>4. \A i \in PhysicalPage :
        \/ mem_stat'[i] = mem_stat[i] /\ \A k \in 1 .. n : pages[k] # i
        \/ \E k \in 1 .. n :
             /\ pages[k] = i /\ mem_stat[i].proc = NOBODY
             /\ mem_stat'[i] = [proc |-> p, index |-> k - 1, next |-> next_of(pages, k)]
  BY OwnersAfter
<1>5. \A q \in Proc : \A l, m \in Nat : New(q, m) # NONE /\ New(q, l) = New(q, m) => l = m
  <2>1. Owners'
    BY OwnersTaken
  <2> QED
    BY <2>1 DEF Owners
<1>6. \A i \in PhysicalPage : mem_stat[i].proc \in Proc \cup {NOBODY}
  BY DEF InOrder, Owners
<1>7. \A i, j \in PhysicalPage :
        mem_stat[i].proc # NOBODY /\ mem_stat[i].next = j =>
          /\ mem_stat[j].proc = mem_stat[i].proc
          /\ mem_stat[j].index = mem_stat[i].index + 1
          /\ \A m \in Nat : Old(mem_stat[i].proc, m) = i => Old(mem_stat[i].proc, m + 1) = j
  BY DEF InOrder, Chains
<1> HIDE DEF n, Old, New
<1>8. ASSUME NEW i \in PhysicalPage, NEW j \in PhysicalPage,
             mem_stat'[i].proc # NOBODY, mem_stat'[i].next = j
      PROVE  /\ mem_stat'[j].proc = mem_stat'[i].proc
             /\ mem_stat'[j].index = mem_stat'[i].index + 1
             /\ \A m \in Nat : New(mem_stat'[i].proc, m) = i => New(mem_stat'[i].proc, m + 1) = j
  <2>1. CASE mem_stat'[i] = mem_stat[i] /\ \A k \in 1 .. n : pages[k] # i
    <3>1. PICK q \in Proc : q = mem_stat[i].proc
      BY <1>6, <1>8, <2>1
    <3>2. /\ mem_stat[j].proc = q
          /\ mem_stat[j].index = mem_stat[i].index + 1
          /\ \A m \in Nat : Old(q, m) = i => Old(q, m + 1) = j
      BY <1>7, <1>8, <2>1, <3>1
    <3>3. mem_stat'[j] = mem_stat[j]
      BY <1>4, <3>2, NobodyIsNoProc
    <3>4. ASSUME NEW m \in Nat, New(q, m) = i PROVE New(q, m + 1) = j
      <4>1. ~ (q = p /\ m \in v .. v + n - 1)
        BY <1>2, <1>3, <2>1, <3>4
      <4>2. Old(q, m) = i
        BY <1>2, <3>4, <4>1
      <4>3. Old(q, m + 1) = j /\ m + 1 \in Nat
        BY <3>2, <4>2
      <4>4. ~ (q = p /\ m + 1 \in v .. v + n - 1)
        BY <1>3, <4>3, NobodyIsNoProc
      <4> QED
        BY <1>2, <4>3, <4>4
    <3> QED
      BY <2>1, <3>1, <3>2, <3>3, <3>4
  <2>2. ASSUME NEW k \in 1 .. n, pages[k] = i,
               mem_stat'[i] = [proc |-> p, index |-> k - 1, next |-> next_of(pages, k)]
        PROVE  /\ mem_stat'[j].proc = mem_stat'[i].proc
               /\ mem_stat'[j].index = mem_stat'[i].index + 1
               /\ \A m \in Nat : New(mem_stat'[i].proc, m) = i => New(mem_stat'[i].proc, m + 1) = j
    <3>1. mem_stat'[i].proc = p /\ mem_stat'[i].index = k - 1 /\ mem_stat'[i].next = next_of(pages, k)
      BY <2>2
    <3>2. k + 1 \in 1 .. n /\ pages[k + 1] = j
      <4>1. next_of(pages, k) = j /\ j # NONE
        BY <1>8, <3>1, NobodyIsNoProc
      <4>2. k < n /\ pages[k + 1] = j
        BY <4>1 DEF next_of, n
      <4> QED
        BY <1>1, <4>2
    <3>3. mem_stat'[j].proc = p /\ mem_stat'[j].index = (k - 1) + 1
      <4>1. \E l \in 1 .. n :
              pages[l] = j /\ mem_stat'[j] = [proc |-> p, index |-> l - 1, next |-> next_of(pages, l)]
        BY <1>4, <3>2
      <4>2. mem_stat'[j] = [proc |-> p, index |-> (k + 1) - 1, next |-> next_of(pages, k + 1)]
        BY <1>1, <3>2, <4>1
      <4>3. (k + 1) - 1 = (k - 1) + 1
        OBVIOUS
      <4> QED
        BY <4>2, <4>3
    <3>4. ASSUME NEW m \in Nat, New(p, m) = i PROVE New(p, m + 1) = j
      <4> DEFINE l == v + k - 1
      <4>1. /\ l \in Nat /\ l \in v .. v + n - 1 /\ l - v + 1 = k
            /\ l + 1 \in Nat /\ l + 1 \in v .. v + n - 1 /\ (l + 1) - v + 1 = k + 1
        BY <1>1, <3>2
      <4> HIDE DEF l
      <4>2. New(p, l) = i /\ New(p, l + 1) = j
        BY <1>2, <2>2, <3>2, <4>1
      <4>3. m = l
        BY <1>5, <3>4, <4>1, <4>2, NobodyIsNoProc
      <4> QED
        BY <4>2, <4>3
    <3> QED
      BY <3>1, <3>3, <3>4
  <2> QED
    BY <1>4, <2>1, <2>2
<1> QED
  BY <1>8 DEF Chains, New

LEMMA ClearedTaken ==
  ASSUME Cleared, NEW p \in Proc, NEW v, NEW pages, Takes(p, v, pages), ram' = ram
  PROVE  Cleared'
<1>1. ASSUME NEW i \in PhysicalPage, mem_stat'[i].proc = NOBODY PROVE i \in FreePages
  <2>1. CASE mem_stat'[i] = mem_stat[i]
    BY <1>1, <2>1 DEF FreePages
  <2>2. ASSUME NEW k, mem_stat'[i] = [proc |-> p, index |-> k - 1, next |-> next_of(pages, k)]
        PROVE  FALSE
    <3>1. mem_stat'[i].proc = p
      BY <2>2
    <3> QED
      BY <1>1, <3>1, NobodyIsNoProc
  <2>3. \/ mem_stat'[i] = mem_stat[i]
        \/ \E k \in 1 .. Len(pages) :
             mem_stat'[i] = [proc |-> p, index |-> k - 1, next |-> next_of(pages, k)]
    BY OwnersAfter
  <2> QED
    BY <2>1, <2>2, <2>3, Zenon
<1> QED
  BY <1>1 DEF Cleared, FreePages

-----------------------------------------------------------------------------
(* A store into a page of its process *)

LEMMA Stored ==
  ASSUME InOrder, NEW p \in Proc, NEW addr \in Nat, NEW data \in Bytes,
         translate(addr, p) # NONE,
         ram' = [ram EXCEPT ![translate(addr, p)] = data],
         UNCHANGED <<bp, regs, page_table, mem_stat>>
  PROVE  Cleared'
<1> DEFINE i == Page(page_table[p], addr \div PAGE_SIZE)
           o == addr % PAGE_SIZE
<1>1. page_table[p] \in Seq(Row)
  BY DEF InOrder, Tables
<1>2. i # NONE /\ translate(addr, p) = i * PAGE_SIZE + o /\ translate(addr, p) \in Address
  BY <1>1, Translated
<1>3. i \in PhysicalPage
  BY <1>1, <1>2, PageTyped
<1>4. addr \div PAGE_SIZE \in Nat /\ o \in 0 .. PAGE_SIZE - 1
  BY SplitAddress
<1>5. mem_stat[i].proc = p
  BY <1>2, <1>4 DEF InOrder, Owners
<1> HIDE DEF i, o
<1>6. ram \in [Address -> Bytes] /\ ram' \in [Address -> Bytes]
  BY <1>2 DEF InOrder, Cleared
<1>7. FreePages' = FreePages
  BY DEF FreePages
<1>8. ASSUME NEW f \in FreePages, NEW x \in 0 .. PAGE_SIZE - 1
      PROVE  ram'[f * PAGE_SIZE + x] = 0
  <2>1. f \in PhysicalPage /\ f # i
    BY <1>5, NobodyIsNoProc DEF FreePages
  <2>2. f \in Nat /\ i \in Nat
    BY <1>3, <2>1 DEF PhysicalPage
  <2>3. (f * PAGE_SIZE + x) \div PAGE_SIZE = f /\ (i * PAGE_SIZE + o) \div PAGE_SIZE = i
    BY <1>4, <2>2, Paged
  <2>4. f * PAGE_SIZE + x # translate(addr, p)
    <3> SUFFICES ASSUME f * PAGE_SIZE + x = translate(addr, p) PROVE FALSE
      OBVIOUS
    <3>1. f * PAGE_SIZE + x = i * PAGE_SIZE + o
      BY <1>2
    <3>2. f = i
      BY <2>3, <3>1, Zenon
    <3> QED
      BY <2>1, <3>2
  <2>5. f * PAGE_SIZE + x \in Address
    BY <2>1, InMemory
  <2>6. ram[f * PAGE_SIZE + x] = 0
    BY DEF InOrder, Cleared
  <2> QED
    BY <1>2, <1>6, <2>4, <2>5, <2>6
<1> QED
  BY <1>6, <1>7, <1>8 DEF Cleared

-----------------------------------------------------------------------------
(* The invariant holds *)

LEMMA InOrderInit == Init => InOrder
<1> SUFFICES ASSUME Init PROVE InOrder
  OBVIOUS
<1>1. /\ PAGE_SIZE \in Nat \ {0} /\ NUM_PAGES \in Nat \ {0} /\ WORD \in Nat
      /\ RAM_SIZE \in Nat \ {0} /\ 2 * RAM_SIZE < WORD /\ 0 \in Bytes
  BY Sizing, MemAssumption
<1>2. \A n : Page(<< >>, n) = NONE
  <2> TAKE n
  <2>1. << >> \in Seq(Row) /\ << >> \in Seq(Entry)
    OBVIOUS
  <2>2. \A index : row(<< >>, index) = 0
    BY DEF row
  <2> QED
    BY <2>2 DEF Page, get_trans_table
<1>3. Tables
  <2>1. << >> \in Seq(Row) /\ Roomy(<< >>)
    BY DEF Roomy, Distinct
  <2> QED
    BY <2>1 DEF Init, Tables
<1>4. Breaks
  <2>1. 1 \in 1 .. NUM_PAGES /\ PAGE_SIZE = 1 * PAGE_SIZE
    BY <1>1
  <2>2. \A p \in Proc : bp[p] = PAGE_SIZE /\ page_table[p] = << >>
    BY DEF Init
  <2>3. \A p \in Proc : HasPages(p, 1)
    BY <1>2, <2>1, <2>2 DEF HasPages
  <2> QED
    BY <1>1, <2>1, <2>3 DEF Breaks, Init
<1>5. \A i \in PhysicalPage : mem_stat[i].proc = NOBODY
  BY DEF Init
<1>6. Owners
  <2>1. 0 \in 0 .. NUM_PAGES /\ 0 \in PhysicalPage
    BY <1>1 DEF PhysicalPage
  <2>2. mem_stat \in [PhysicalPage -> [proc : Proc \cup {NOBODY}, index : 0 .. NUM_PAGES,
                                       next : PhysicalPage \cup {NONE}]]
    BY <2>1 DEF Init
  <2>3. \A p \in Proc : \A m \in Nat : Page(page_table[p], m) = NONE
    BY <1>2 DEF Init
  <2> QED
    BY <1>5, <2>2, <2>3, NobodyIsNoProc DEF Owners
<1>7. Chains
  BY <1>5 DEF Chains
<1>8. Cleared
  <2>1. \A i \in PhysicalPage : \A o \in 0 .. PAGE_SIZE - 1 : i * PAGE_SIZE + o \in Address
    BY InMemory
  <2> QED
    BY <1>1, <2>1 DEF Cleared, Init, FreePages
<1>9. Registers
  BY <1>1 DEF Registers, Init
<1> QED
  BY <1>3, <1>4, <1>6, <1>7, <1>8, <1>9 DEF InOrder

\* What alloc does when the pages are there.
LEMMA AllocTakes ==
  ASSUME InOrder, NEW p \in Proc, NEW size \in Sizes, NEW r \in Reg, alloc(p, size, r)
  PROVE  \/ UNCHANGED vars
         \/ /\ \E v, pages : Takes(p, v, pages)
            /\ regs' = [regs EXCEPT ![p][r] = bp[p]]
            /\ ram' = ram
<1>1. num_pages(size) \in Nat
  <2>1. size \in Nat /\ PAGE_SIZE \in Nat \ {0}
    BY MemAssumption, Sizing
  <2>2. size \div PAGE_SIZE \in Nat
    BY <2>1, Divided
  <2> QED
    BY <2>2 DEF num_pages
<1>2. CASE available(p, num_pages(size))
  <2>1. take_pages(p, num_pages(size)) /\ regs' = [regs EXCEPT ![p][r] = bp[p]] /\ ram' = ram
    BY <1>2 DEF alloc
  <2>2. \E v, pages : Takes(p, v, pages)
    BY <1>1, <1>2, <2>1, Taken
  <2> QED
    BY <2>1, <2>2
<1>3. CASE ~ available(p, num_pages(size))
  BY <1>3 DEF alloc, vars
<1> QED
  BY <1>2, <1>3

\* The address an instruction makes of a register and an offset.
LEMMA Operand ==
  ASSUME Registers, NEW p \in Proc, NEW r \in Reg, NEW o \in Offsets
  PROVE  (regs[p][r] + o) % WORD \in Nat
<1>1. regs[p][r] \in 0 .. WORD - 1 /\ o \in 0 .. WORD - 1 /\ WORD \in Nat
  BY MemAssumption DEF Registers
<1>2. PICK x \in Nat, w \in Nat \ {0} : x = regs[p][r] + o /\ w = WORD
  BY <1>1
<1>3. x % w \in 0 .. w - 1
  BY Remainder
<1> QED
  BY <1>2, <1>3

LEMMA InOrderStep == InOrder /\ [Next]_vars => InOrder'
<1> SUFFICES ASSUME InOrder, [Next]_vars PROVE InOrder'
  OBVIOUS
<1>1. ASSUME UNCHANGED vars PROVE InOrder'
  BY <1>1 DEF vars, InOrder, Tables, Breaks, HasPages, Owners, Chains, Cleared, FreePages, Registers
<1>2. ASSUME NEW p \in Proc, NEW size \in Sizes, NEW r \in Reg, alloc(p, size, r)
      PROVE  InOrder'
  <2>1. CASE UNCHANGED vars
    BY <1>1, <2>1
  <2>2. CASE /\ \E v, pages : Takes(p, v, pages)
             /\ regs' = [regs EXCEPT ![p][r] = bp[p]]
             /\ ram' = ram
    <3>1. PICK v, pages : Takes(p, v, pages)
      BY <2>2
    <3>2. Tables' /\ Breaks' /\ Owners' /\ Chains' /\ Cleared'
      BY <2>2, <3>1, TablesTaken, BreaksTaken, OwnersTaken, ChainsTaken, ClearedTaken DEF InOrder
    <3>3. bp[p] \in 0 .. WORD - 1
      <4>1. PICK w \in 1 .. NUM_PAGES : bp[p] = w * PAGE_SIZE
        BY DEF InOrder, Breaks, HasPages
      <4>2. /\ PAGE_SIZE \in Nat \ {0} /\ NUM_PAGES \in Nat \ {0} /\ RAM_SIZE = PAGE_SIZE * NUM_PAGES
            /\ RAM_SIZE \in Nat \ {0} /\ WORD \in Nat /\ 2 * RAM_SIZE < WORD
        BY Sizing, MemAssumption
      <4>3. PAGE_SIZE * w \leq PAGE_SIZE * NUM_PAGES
        BY <4>2, TimesMonotone
      <4>4. PAGE_SIZE * w = w * PAGE_SIZE /\ w * PAGE_SIZE \in Nat
        BY <4>2
      <4> QED
        BY <4>1, <4>2, <4>3, <4>4
    <3>4. Registers'
      BY <2>2, <3>3 DEF InOrder, Registers
    <3> QED
      BY <3>2, <3>4 DEF InOrder
  <2> QED
    BY <1>2, <2>1, <2>2, AllocTakes
<1>3. ASSUME NEW p \in Proc, NEW r \in Reg, free_data(p, r)
      PROVE  InOrder'
  BY <1>1, <1>3 DEF free_data
<1>4. ASSUME NEW p \in Proc, NEW s \in Reg, NEW d \in Reg, NEW o \in Offsets, read(p, s, o, d)
      PROVE  InOrder'
  <2>1. UNCHANGED <<bp, page_table, mem_stat, ram>>
    BY <1>4 DEF read
  <2>2. Tables' /\ Breaks' /\ Owners' /\ Chains' /\ Cleared'
    BY <2>1 DEF InOrder, Tables, Breaks, HasPages, Owners, Chains, Cleared, FreePages
  <2>3. Registers'
    <3>1. regs' = regs \/ \E data \in Bytes : regs' = [regs EXCEPT ![p][d] = data]
      BY <1>4 DEF read
    <3>2. Bytes \subseteq 0 .. WORD - 1
      BY MemAssumption
    <3> QED
      BY <3>1, <3>2 DEF InOrder, Registers
  <2> QED
    BY <2>2, <2>3 DEF InOrder
<1>5. ASSUME NEW p \in Proc, NEW b \in Bytes, NEW d \in Reg, NEW o \in Offsets, write(p, b, d, o)
      PROVE  InOrder'
  <2> DEFINE addr == (regs[p][d] + o) % WORD
  <2>1. addr \in Nat
    BY Operand DEF InOrder
  <2>2. /\ ram' = IF translate(addr, p) = NONE THEN ram
                  ELSE [ram EXCEPT ![translate(addr, p)] = b]
        /\ UNCHANGED <<bp, regs, page_table, mem_stat>>
    BY <1>5 DEF write
  <2> HIDE DEF addr
  <2>3. CASE translate(addr, p) = NONE
    BY <1>1, <2>2, <2>3 DEF vars
  <2>4. CASE translate(addr, p) # NONE
    <3>1. Cleared'
      BY <2>1, <2>2, <2>4, Stored
    <3>2. Tables' /\ Breaks' /\ Owners' /\ Chains' /\ Registers'
      BY <2>2 DEF InOrder, Tables, Breaks, HasPages, Owners, Chains, Registers
    <3> QED
      BY <3>1, <3>2 DEF InOrder
  <2> QED
    BY <2>3, <2>4
<1> QED
  BY <1>1, <1>2, <1>3, <1>4, <1>5 DEF Next

LEMMA InOrderAlways == Spec => []InOrder
BY InOrderInit, InOrderStep, PTL DEF Spec

-----------------------------------------------------------------------------
(* The properties of Mem.tla *)

\* The break of a process is within memory.
LEMMA BreakInMemory ==
  ASSUME NEW v \in 1 .. NUM_PAGES
  PROVE  v * PAGE_SIZE \in 0 .. RAM_SIZE
<1>1. PAGE_SIZE \in Nat \ {0} /\ NUM_PAGES \in Nat \ {0} /\ RAM_SIZE = PAGE_SIZE * NUM_PAGES
      /\ RAM_SIZE \in Nat
  BY Sizing
<1>2. PAGE_SIZE * v \leq PAGE_SIZE * NUM_PAGES
  BY <1>1, TimesMonotone
<1>3. PAGE_SIZE * v = v * PAGE_SIZE /\ v * PAGE_SIZE \in Nat
  BY <1>1
<1> QED
  BY <1>1, <1>2, <1>3

\* Every value stays of its type: no table of mem.c outgrows its array, whatever is
\* asked of alloc_mem.
THEOREM TypesKept == Spec => []TypeOK
<1>1. InOrder => TypeOK
  <2> SUFFICES ASSUME InOrder PROVE TypeOK
    OBVIOUS
  <2>1. bp \in [Proc -> 0 .. RAM_SIZE]
    <3>1. ASSUME NEW p \in Proc PROVE bp[p] \in 0 .. RAM_SIZE
      <4>1. PICK v \in 1 .. NUM_PAGES : bp[p] = v * PAGE_SIZE
        BY DEF InOrder, Breaks, HasPages
      <4> QED
        BY <4>1, BreakInMemory
    <3>2. bp \in [Proc -> Nat]
      BY DEF InOrder, Breaks
    <3> QED
      BY <3>1, <3>2
  <2>2. ASSUME NEW p \in Proc
        PROVE  /\ page_table[p] \in Seq([v_index : Nat, next_lv : TransTable])
               /\ Len(page_table[p]) \leq 2 ^ FIRST_LV_LEN
               /\ \A k \in DOMAIN page_table[p] :
                    Len(page_table[p][k].next_lv) \leq 2 ^ SECOND_LV_LEN
    <3> DEFINE T == page_table[p]
    <3>1. T \in Seq(Row) /\ Distinct(T, TOP)
          /\ \A k \in DOMAIN T : Distinct(T[k].next_lv, ROWS)
      BY DEF InOrder, Tables, Roomy
    <3> HIDE DEF T
    <3>2. \A k \in DOMAIN T : T[k] \in Row
      BY <3>1
    <3>3. \A k \in DOMAIN T : T[k].v_index \in Nat /\ T[k].next_lv \in Seq(Entry)
      BY <3>2 DEF Row, TransTable, Entry
    <3>4. TOP \in Nat /\ ROWS \in Nat
      BY Sizing
    <3>5. Len(T) \leq TOP
      BY <3>1, <3>3, <3>4, Short
    <3>6. ASSUME NEW k \in DOMAIN T PROVE Len(T[k].next_lv) \leq ROWS
      <4> DEFINE S == T[k].next_lv
      <4>1. S \in Seq(Entry) /\ Distinct(S, ROWS)
        BY <3>1, <3>3
      <4> HIDE DEF S
      <4>2. \A j \in DOMAIN S : S[j] \in Entry
        BY <4>1
      <4>3. \A j \in DOMAIN S : S[j].v_index \in Nat
        BY <4>2 DEF Entry
      <4>4. Len(S) \leq ROWS
        BY <3>4, <4>1, <4>3, Short
      <4> QED
        BY <4>4 DEF S
    <3> QED
      BY <3>1, <3>5, <3>6 DEF T, Row, TOP, ROWS
  <2>3. /\ regs \in [Proc -> [Reg -> 0 .. WORD - 1]]
        /\ mem_stat \in [PhysicalPage -> [proc : Proc \cup {NOBODY}, index : 0 .. NUM_PAGES,
                                          next : PhysicalPage \cup {NONE}]]
        /\ ram \in [Address -> Bytes]
    BY DEF InOrder, Registers, Owners, Cleared
  <2> QED
    BY <2>1, <2>2, <2>3 DEF TypeOK
<1> QED
  BY <1>1, InOrderAlways, PTL

\* A process reaches every byte that alloc_mem has handed out to it, and nothing else:
\* below its break an address is never unmapped, above it never mapped.
THEOREM ValidAlwaysBelowBreak == Spec => []ValidBelowBreak
<1>1. InOrder => ValidBelowBreak
  <2> SUFFICES ASSUME InOrder, NEW p \in Proc, NEW addr \in Address
               PROVE  translate(addr, p) # NONE <=> PAGE_SIZE \leq addr /\ addr < bp[p]
    BY DEF ValidBelowBreak
  <2>1. PICK v \in 1 .. NUM_PAGES : HasPages(p, v)
    BY DEF InOrder, Breaks
  <2>2. PAGE_SIZE \in Nat \ {0} /\ addr \in Nat /\ v \in Nat
    BY Sizing DEF Address
  <2> DEFINE n == addr \div PAGE_SIZE
  <2>3. n \in Nat /\ PAGE_SIZE * n \leq addr /\ addr < PAGE_SIZE * (n + 1)
    BY <2>2, Divided
  <2>4. page_table[p] \in Seq(Row)
    BY DEF InOrder, Tables
  <2>5. translate(addr, p) # NONE <=> Page(page_table[p], n) # NONE
    BY <2>2, <2>4, Translated
  <2> HIDE DEF n
  <2>6. translate(addr, p) # NONE <=> 1 \leq n /\ n < v
    BY <2>1, <2>3, <2>5 DEF HasPages
  <2>7. 1 \leq n <=> PAGE_SIZE \leq addr
    <3>1. 1 \leq n => PAGE_SIZE * 1 \leq PAGE_SIZE * n
      BY <2>2, <2>3, TimesMonotone
    <3>2. n = 0 => addr < PAGE_SIZE
      BY <2>2, <2>3
    <3>3. PAGE_SIZE * 1 = PAGE_SIZE /\ PAGE_SIZE * n \in Nat
      BY <2>2, <2>3
    <3> QED
      BY <2>2, <2>3, <3>1, <3>2, <3>3
  <2>8. n < v <=> addr < v * PAGE_SIZE
    <3>1. n + 1 \leq v => PAGE_SIZE * (n + 1) \leq PAGE_SIZE * v
      BY <2>2, <2>3, TimesMonotone
    <3>2. v \leq n => PAGE_SIZE * v \leq PAGE_SIZE * n
      BY <2>2, <2>3, TimesMonotone
    <3>3. /\ PAGE_SIZE * v = v * PAGE_SIZE /\ v * PAGE_SIZE \in Nat
          /\ PAGE_SIZE * n \in Nat /\ PAGE_SIZE * (n + 1) \in Nat
      BY <2>2, <2>3
    <3>4. CASE n < v
      BY <2>2, <2>3, <3>1, <3>3, <3>4
    <3>5. CASE v \leq n
      BY <2>2, <2>3, <3>2, <3>3, <3>5
    <3> QED
      BY <2>2, <2>3, <3>4, <3>5
  <2> QED
    BY <2>1, <2>6, <2>7, <2>8 DEF HasPages
<1> QED
  BY <1>1, InOrderAlways, PTL

\* translate at the beginning of a page.
LEMMA PageStart ==
  ASSUME InOrder, NEW p \in Proc, NEW n \in Nat, NEW i \in PhysicalPage
  PROVE  translate(n * PAGE_SIZE, p) = i * PAGE_SIZE <=> Page(page_table[p], n) = i
<1>1. PAGE_SIZE \in Nat \ {0} /\ 0 \in 0 .. PAGE_SIZE - 1 /\ i \in Nat
  BY Sizing DEF PhysicalPage
<1>2. /\ n * PAGE_SIZE + 0 \in Nat
      /\ (n * PAGE_SIZE + 0) \div PAGE_SIZE = n /\ (n * PAGE_SIZE + 0) % PAGE_SIZE = 0
  BY <1>1, Paged
<1>3. n * PAGE_SIZE + 0 = n * PAGE_SIZE /\ i * PAGE_SIZE + 0 = i * PAGE_SIZE
  BY <1>1
<1>4. page_table[p] \in Seq(Row)
  BY DEF InOrder, Tables
<1> DEFINE g == Page(page_table[p], n)
<1>5. /\ g = NONE => translate(n * PAGE_SIZE, p) = NONE
      /\ g # NONE => translate(n * PAGE_SIZE, p) = g * PAGE_SIZE + 0
  BY <1>2, <1>3, <1>4, Translated
<1>6. g \in PhysicalPage \cup {NONE}
  BY <1>4, PageTyped
<1> HIDE DEF g
<1>7. CASE g = NONE
  <2>1. i * PAGE_SIZE \in Nat /\ NONE \notin Nat
    BY <1>1 DEF NONE
  <2> QED
    BY <1>5, <1>7, <2>1, NobodyIsNoProc DEF g
<1>8. CASE g # NONE
  <2>1. g \in Nat
    BY <1>6, <1>8 DEF PhysicalPage
  <2>2. (g * PAGE_SIZE + 0) \div PAGE_SIZE = g /\ (i * PAGE_SIZE + 0) \div PAGE_SIZE = i
    BY <1>1, <2>1, Paged
  <2>3. translate(n * PAGE_SIZE, p) = g * PAGE_SIZE + 0
    BY <1>5, <1>8
  <2>4. CASE g = i
    BY <1>3, <2>3, <2>4 DEF g
  <2>5. CASE g # i
    <3>1. g * PAGE_SIZE + 0 # i * PAGE_SIZE + 0
      BY <2>2, <2>5, Zenon
    <3> QED
      BY <1>3, <2>3, <2>5, <3>1 DEF g
  <2> QED
    BY <2>4, <2>5
<1> QED
  BY <1>7, <1>8

\* mem_stat and the page tables never disagree on who has a page: no page is mapped
\* twice, none is taken from the free ones without a mapping.
THEOREM OwnersAlwaysAgree == Spec => []OwnersAgree
<1>1. InOrder => OwnersAgree
  <2> SUFFICES ASSUME InOrder, NEW i \in PhysicalPage, NEW p \in Proc
               PROVE  Cardinality({n \in PhysicalPage :
                                     translate(n * PAGE_SIZE, p) = i * PAGE_SIZE})
                        = IF mem_stat[i].proc = p THEN 1 ELSE 0
    BY DEF OwnersAgree
  <2> DEFINE mapped == {n \in PhysicalPage : translate(n * PAGE_SIZE, p) = i * PAGE_SIZE}
  <2>1. \A n \in PhysicalPage : n \in Nat
    BY DEF PhysicalPage
  <2>2. \A n \in PhysicalPage : n \in mapped <=> Page(page_table[p], n) = i
    BY <2>1, PageStart
  <2>3. mapped \subseteq PhysicalPage
    OBVIOUS
  <2> HIDE DEF mapped
  <2>4. CASE mem_stat[i].proc = p
    <3>1. PICK m \in Nat : Page(page_table[p], m) = i
      BY <2>4 DEF InOrder, Owners
    <3>2. PICK v \in 1 .. NUM_PAGES : HasPages(p, v)
      BY DEF InOrder, Breaks
    <3>3. m < v
      BY <3>1, <3>2, NobodyIsNoProc DEF HasPages
    <3>4. m \in PhysicalPage
      BY <3>3, Sizing DEF PhysicalPage
    <3>5. \A n \in PhysicalPage : Page(page_table[p], n) = i => n = m
      BY <2>1, <3>1, NobodyIsNoProc DEF InOrder, Owners
    <3>6. mapped = {m}
      BY <2>2, <2>3, <3>1, <3>4, <3>5
    <3>7. Cardinality(mapped) = 1
      BY <3>6, FS_Singleton
    <3> QED
      BY <2>4, <3>7 DEF mapped
  <2>5. CASE mem_stat[i].proc # p
    <3>1. \A n \in PhysicalPage : Page(page_table[p], n) # i
      BY <2>1, <2>5, NobodyIsNoProc DEF InOrder, Owners
    <3>2. mapped = {}
      BY <2>2, <2>3, <3>1
    <3>3. Cardinality(mapped) = 0
      BY <3>2, FS_EmptySet
    <3> QED
      BY <2>5, <3>3 DEF mapped
  <2> QED
    BY <2>4, <2>5
<1> QED
  BY <1>1, InOrderAlways, PTL

\* The chain of the pages of an allocation is the order of its addresses.
THEOREM ChainsAlwaysFollow == Spec => []ChainsFollowAddresses
<1>1. InOrder => ChainsFollowAddresses
  <2> SUFFICES ASSUME InOrder, NEW i \in PhysicalPage, NEW j \in PhysicalPage,
                      mem_stat[i].proc # NOBODY, mem_stat[i].next = j
               PROVE  /\ mem_stat[j].proc = mem_stat[i].proc
                      /\ mem_stat[j].index = mem_stat[i].index + 1
                      /\ \A n \in PhysicalPage :
                           translate(n * PAGE_SIZE, mem_stat[i].proc) = i * PAGE_SIZE =>
                             translate((n + 1) * PAGE_SIZE, mem_stat[i].proc) = j * PAGE_SIZE
    BY DEF ChainsFollowAddresses
  <2>1. PICK q \in Proc : q = mem_stat[i].proc
    BY DEF InOrder, Owners
  <2>2. /\ mem_stat[j].proc = q
        /\ mem_stat[j].index = mem_stat[i].index + 1
        /\ \A m \in Nat : Page(page_table[q], m) = i => Page(page_table[q], m + 1) = j
    BY <2>1 DEF InOrder, Chains
  <2>3. ASSUME NEW n \in PhysicalPage, translate(n * PAGE_SIZE, q) = i * PAGE_SIZE
        PROVE  translate((n + 1) * PAGE_SIZE, q) = j * PAGE_SIZE
    <3>1. n \in Nat /\ n + 1 \in Nat
      BY DEF PhysicalPage
    <3>2. Page(page_table[q], n) = i
      BY <2>3, <3>1, PageStart
    <3>3. Page(page_table[q], n + 1) = j
      BY <2>2, <3>1, <3>2
    <3> QED
      BY <3>1, <3>3, PageStart
  <2> QED
    BY <2>1, <2>2, <2>3
<1> QED
  BY <1>1, InOrderAlways, PTL

-----------------------------------------------------------------------------
(* The address spaces *)

\* Where the byte of an address is, if it is anywhere.
Place(q, a) == Page(page_table[q], a \div PAGE_SIZE) * PAGE_SIZE + (a % PAGE_SIZE)

Valid(q, a) == Page(page_table[q], a \div PAGE_SIZE) # NONE

Look == \A q \in Proc, a \in Address :
          Seen(q, a) = IF Valid(q, a) THEN ram[Place(q, a)] ELSE NONE

LEMMA SeenInPlace == InOrder => Look
<1> SUFFICES ASSUME InOrder, NEW q \in Proc, NEW a \in Address
             PROVE  Seen(q, a) = IF Valid(q, a) THEN ram[Place(q, a)] ELSE NONE
  BY DEF Look
<1>1. page_table[q] \in Seq(Row) /\ a \in Nat
  BY Sizing DEF InOrder, Tables, Address
<1>2. CASE Valid(q, a)
  <2>1. translate(a, q) = Place(q, a) /\ translate(a, q) # NONE
    BY <1>1, <1>2, Translated DEF Valid, Place
  <2> QED
    BY <1>2, <2>1 DEF Seen
<1>3. CASE ~ Valid(q, a)
  <2>1. translate(a, q) = NONE
    BY <1>1, <1>3, Translated DEF Valid
  <2> QED
    BY <1>3, <2>1 DEF Seen
<1> QED
  BY <1>2, <1>3

\* A place holds a byte, which is no mark of what is missing.
LEMMA PlaceTyped ==
  ASSUME InOrder, NEW q \in Proc, NEW a \in Nat, Valid(q, a)
  PROVE  /\ Page(page_table[q], a \div PAGE_SIZE) \in PhysicalPage
         /\ mem_stat[Page(page_table[q], a \div PAGE_SIZE)].proc = q
         /\ Place(q, a) \in Address /\ a \in Address
         /\ ram[Place(q, a)] \in Bytes /\ NONE \notin Bytes
<1>1. page_table[q] \in Seq(Row)
  BY DEF InOrder, Tables
<1>2. Page(page_table[q], a \div PAGE_SIZE) \in PhysicalPage
  BY <1>1, PageTyped DEF Valid
<1>3. a \div PAGE_SIZE \in Nat /\ a % PAGE_SIZE \in 0 .. PAGE_SIZE - 1
  BY SplitAddress
<1>4. mem_stat[Page(page_table[q], a \div PAGE_SIZE)].proc = q
  BY <1>3 DEF Valid, InOrder, Owners
<1>5. Place(q, a) \in Address
  BY <1>2, <1>3, InMemory DEF Place
<1>6. ram[Place(q, a)] \in Bytes
  BY <1>5 DEF InOrder, Cleared
<1>7. NONE \notin Bytes
  BY MemAssumption DEF NONE
<1>8. a \in Address
  <2>1. PICK v \in 1 .. NUM_PAGES : HasPages(q, v)
    BY DEF InOrder, Breaks
  <2>2. a \div PAGE_SIZE < v
    BY <1>3, <2>1 DEF HasPages, Valid
  <2>3. a \div PAGE_SIZE \in PhysicalPage
    BY <1>3, <2>2, Sizing DEF PhysicalPage
  <2>4. (a \div PAGE_SIZE) * PAGE_SIZE + (a % PAGE_SIZE) \in Address
    BY <1>3, <2>3, InMemory
  <2> QED
    BY <2>4, SplitAddress
<1> QED
  BY <1>2, <1>4, <1>5, <1>6, <1>7, <1>8

\* No two bytes of the address spaces are in one place.
LEMMA PlacesApart ==
  ASSUME InOrder, NEW p \in Proc, NEW q \in Proc, NEW a \in Nat, NEW b \in Nat,
         Valid(p, a), Valid(q, b), Place(p, a) = Place(q, b)
  PROVE  p = q /\ a = b
<1> DEFINE i == Page(page_table[p], a \div PAGE_SIZE)
           j == Page(page_table[q], b \div PAGE_SIZE)
           x == a % PAGE_SIZE
           y == b % PAGE_SIZE
<1>1. /\ i \in PhysicalPage /\ j \in PhysicalPage
      /\ mem_stat[i].proc = p /\ mem_stat[j].proc = q
  BY PlaceTyped
<1>2. /\ a \div PAGE_SIZE \in Nat /\ x \in 0 .. PAGE_SIZE - 1
      /\ b \div PAGE_SIZE \in Nat /\ y \in 0 .. PAGE_SIZE - 1
      /\ a = (a \div PAGE_SIZE) * PAGE_SIZE + x /\ b = (b \div PAGE_SIZE) * PAGE_SIZE + y
  BY SplitAddress
<1>3. i * PAGE_SIZE + x = j * PAGE_SIZE + y
  BY DEF Place
<1>4. i # NONE /\ j # NONE
  BY DEF Valid
<1>5. i = j => a \div PAGE_SIZE = b \div PAGE_SIZE \/ p # q
  <2> SUFFICES ASSUME i = j, p = q PROVE a \div PAGE_SIZE = b \div PAGE_SIZE
    OBVIOUS
  <2> QED
    BY <1>2, <1>4 DEF InOrder, Owners
<1> HIDE DEF i, j, x, y
<1>6. i = j /\ x = y
  <2>1. i \in Nat /\ j \in Nat
    BY <1>1 DEF PhysicalPage
  <2>2. /\ (i * PAGE_SIZE + x) \div PAGE_SIZE = i /\ (i * PAGE_SIZE + x) % PAGE_SIZE = x
        /\ (j * PAGE_SIZE + y) \div PAGE_SIZE = j /\ (j * PAGE_SIZE + y) % PAGE_SIZE = y
    BY <1>2, <2>1, Paged
  <2> QED
    BY <1>3, <2>2, Zenon
<1>7. p = q
  BY <1>1, <1>6
<1> QED
  BY <1>2, <1>5, <1>6, <1>7, Zenon

\* An allocation adds zeroes to the space of its process.
LEMMA SpaceGrows ==
  ASSUME InOrder, Look, Look', NEW p \in Proc, NEW v, NEW pages, Takes(p, v, pages), ram' = ram
  PROVE  /\ \A a \in Address : IF Seen(p, a) = NONE THEN Seen(p, a)' \in {NONE, 0}
                               ELSE Seen(p, a)' = Seen(p, a)
         /\ \A q \in Proc \ {p} : \A a \in Address : Seen(q, a)' = Seen(q, a)
<1>1. \A q \in Proc : \A a \in Address :
        /\ Seen(q, a) = IF Page(page_table[q], a \div PAGE_SIZE) # NONE
                        THEN ram[Page(page_table[q], a \div PAGE_SIZE) * PAGE_SIZE + (a % PAGE_SIZE)]
                        ELSE NONE
        /\ Seen(q, a)' = IF Page(page_table'[q], a \div PAGE_SIZE) # NONE
                         THEN ram[Page(page_table'[q], a \div PAGE_SIZE) * PAGE_SIZE + (a % PAGE_SIZE)]
                         ELSE NONE
  BY DEF Look, Valid, Place
<1>2. \A a \in Address : a \in Nat
  BY Sizing DEF Address
<1>3. ASSUME NEW q \in Proc, NEW a \in Address,
             ~ (q = p /\ a \div PAGE_SIZE \in v .. v + Len(pages) - 1)
      PROVE  Seen(q, a)' = Seen(q, a)
  <2>1. a \div PAGE_SIZE \in Nat
    BY <1>2, SplitAddress
  <2>2. Page(page_table'[q], a \div PAGE_SIZE) = Page(page_table[q], a \div PAGE_SIZE)
    BY <1>3, <2>1, PagesAfter
  <2> QED
    BY <1>1, <2>2
<1>4. ASSUME NEW a \in Address, a \div PAGE_SIZE \in v .. v + Len(pages) - 1
      PROVE  Seen(p, a) = NONE /\ Seen(p, a)' = 0
  <2> DEFINE m == a \div PAGE_SIZE
             o == a % PAGE_SIZE
  <2>1. m \in Nat /\ o \in 0 .. PAGE_SIZE - 1
    BY <1>2, SplitAddress
  <2>2. v \in Nat /\ Len(pages) \in Nat /\ HasPages(p, v)
        /\ \A k \in 1 .. Len(pages) : pages[k] \in FreePages
    BY DEF Takes
  <2>3. Page(page_table'[p], m) = pages[m - v + 1]
    BY <1>4, <2>1, PagesAfter
  <2>4. Page(page_table[p], m) = NONE
    BY <1>4, <2>1, <2>2 DEF HasPages
  <2> HIDE DEF m, o
  <2>5. m - v + 1 \in 1 .. Len(pages)
    BY <1>4, <2>1, <2>2 DEF m
  <2>6. PICK i \in FreePages : i = pages[m - v + 1]
    BY <2>2, <2>5
  <2>7. i # NONE /\ ram[i * PAGE_SIZE + o] = 0
    BY <2>1, NobodyIsNoProc DEF FreePages, InOrder, Cleared
  <2>8. Seen(p, a) = NONE
    BY <1>1, <2>4 DEF m
  <2>9. Seen(p, a)' = 0
    BY <1>1, <2>3, <2>6, <2>7 DEF m, o
  <2> QED
    BY <2>8, <2>9
<1>5. \A a \in Address : IF Seen(p, a) = NONE THEN Seen(p, a)' \in {NONE, 0}
                         ELSE Seen(p, a)' = Seen(p, a)
  <2> TAKE a \in Address
  <2>1. CASE a \div PAGE_SIZE \in v .. v + Len(pages) - 1
    BY <1>4, <2>1
  <2>2. CASE a \div PAGE_SIZE \notin v .. v + Len(pages) - 1
    BY <1>3, <2>2
  <2> QED
    BY <2>1, <2>2
<1> QED
  BY <1>3, <1>5

\* A store is seen at its address, and nowhere else.
LEMMA SpaceStores ==
  ASSUME InOrder, Look, Look', NEW p \in Proc, NEW addr \in Nat, NEW data \in Bytes,
         Valid(p, addr), ram' = [ram EXCEPT ![Place(p, addr)] = data],
         page_table' = page_table
  PROVE  /\ addr \in Address /\ Seen(p, addr) # NONE /\ Seen(p, addr)' = data
         /\ \A q \in Proc : \A b \in Address :
              q # p \/ b # addr => Seen(q, b)' = Seen(q, b)
<1>1. \A q \in Proc : \A a \in Address :
        /\ Seen(q, a) = IF Valid(q, a) THEN ram[Place(q, a)] ELSE NONE
        /\ Seen(q, a)' = IF Valid(q, a) THEN ram'[Place(q, a)] ELSE NONE
  BY DEF Look, Valid, Place
<1>2. /\ Place(p, addr) \in Address /\ addr \in Address
      /\ ram[Place(p, addr)] \in Bytes /\ NONE \notin Bytes
      /\ ram \in [Address -> Bytes]
  BY PlaceTyped DEF InOrder, Cleared
<1>3. Seen(p, addr) # NONE /\ Seen(p, addr)' = data
  BY <1>1, <1>2
<1>4. ASSUME NEW q \in Proc, NEW b \in Address, q # p \/ b # addr
      PROVE  Seen(q, b)' = Seen(q, b)
  <2>1. CASE ~ Valid(q, b)
    BY <1>1, <2>1
  <2>2. CASE Valid(q, b)
    <3>1. b \in Nat
      BY Sizing DEF Address
    <3>2. Place(p, addr) # Place(q, b)
      BY <1>4, <2>2, <3>1, PlacesApart
    <3>3. Place(q, b) \in Address
      BY <2>2, <3>1, PlaceTyped
    <3>4. ram'[Place(q, b)] = ram[Place(q, b)]
      BY <1>2, <3>2, <3>3
    <3> QED
      BY <1>1, <2>2, <3>4
  <2> QED
    BY <2>1, <2>2
<1> QED
  BY <1>2, <1>3, <1>4

\* What makes a step of the address spaces.
LEMMA SpaceStep ==
  ASSUME NEW p \in Proc,
         \A q \in Proc \ {p} : \A a \in Address : Seen(q, a)' = Seen(q, a),
         \/ \A a \in Address : IF Seen(p, a) = NONE THEN Seen(p, a)' \in {NONE, 0}
                               ELSE Seen(p, a)' = Seen(p, a)
         \/ \E a \in Address :
              /\ Seen(p, a) # NONE /\ Seen(p, a)' \in Bytes
              /\ \A b \in Address \ {a} : Seen(p, b)' = Seen(p, b)
  PROVE  Spaces!Next
<1>1. \A q \in Proc : \A a \in Address :
        Space[q][a] = Seen(q, a) /\ Space'[q][a] = Seen(q, a)'
  BY DEF Space
<1>2. \A q \in Proc \ {p} : Space'[q] = Space[q]
  BY DEF Space
<1>3. CASE \A a \in Address : IF Seen(p, a) = NONE THEN Seen(p, a)' \in {NONE, 0}
                              ELSE Seen(p, a)' = Seen(p, a)
  <2>1. Spaces!Grows(Space[p], Space'[p])
    BY <1>1, <1>3 DEF Spaces!Grows
  <2> QED
    BY <1>2, <2>1 DEF Spaces!Next
<1>4. CASE \E a \in Address :
             /\ Seen(p, a) # NONE /\ Seen(p, a)' \in Bytes
             /\ \A b \in Address \ {a} : Seen(p, b)' = Seen(p, b)
  <2>1. Spaces!Stores(Space[p], Space'[p])
    BY <1>1, <1>4 DEF Spaces!Stores
  <2> QED
    BY <1>2, <2>1 DEF Spaces!Next
<1> QED
  BY <1>3, <1>4

LEMMA SpacesInit == Init => Spaces!Init
<1> SUFFICES ASSUME Init PROVE Spaces!Init
  OBVIOUS
<1>1. Look /\ InOrder
  BY InOrderInit, SeenInPlace
<1>2. ASSUME NEW q \in Proc, NEW a \in Address PROVE Seen(q, a) = NONE
  <2>1. page_table[q] = << >>
    BY DEF Init
  <2>2. \A index : row(<< >>, index) = 0
    BY DEF row
  <2>3. ~ Valid(q, a)
    BY <2>1, <2>2 DEF Valid, Page, get_trans_table
  <2> QED
    BY <1>1, <2>3 DEF Look
<1> QED
  BY <1>2 DEF Spaces!Init, Space

LEMMA SpacesStep ==
  ASSUME InOrder, Look, Look', [Next]_vars
  PROVE  [Spaces!Next]_Space
<1>1. ASSUME UNCHANGED <<page_table, ram>> PROVE UNCHANGED Space
  <2>1. ASSUME NEW q \in Proc, NEW a \in Address PROVE Seen(q, a)' = Seen(q, a)
    BY <1>1 DEF Look, Valid, Place
  <2> QED
    BY <2>1 DEF Space
<1>2. ASSUME NEW p \in Proc, NEW size \in Sizes, NEW r \in Reg, alloc(p, size, r)
      PROVE  Spaces!Next \/ UNCHANGED Space
  <2>1. CASE UNCHANGED vars
    BY <1>1, <2>1 DEF vars
  <2>2. CASE (\E v, pages : Takes(p, v, pages)) /\ ram' = ram
    <3>1. PICK v, pages : Takes(p, v, pages)
      BY <2>2
    <3>2. /\ \A a \in Address : IF Seen(p, a) = NONE THEN Seen(p, a)' \in {NONE, 0}
                                ELSE Seen(p, a)' = Seen(p, a)
          /\ \A q \in Proc \ {p} : \A a \in Address : Seen(q, a)' = Seen(q, a)
      BY <2>2, <3>1, SpaceGrows
    <3> QED
      BY <3>2, SpaceStep
  <2> QED
    BY <1>2, <2>1, <2>2, AllocTakes
<1>3. ASSUME NEW p \in Proc, NEW b \in Bytes, NEW d \in Reg, NEW o \in Offsets, write(p, b, d, o)
      PROVE  Spaces!Next \/ UNCHANGED Space
  <2>1. PICK addr \in Nat : addr = (regs[p][d] + o) % WORD
    BY Operand DEF InOrder
  <2>2. /\ ram' = IF translate(addr, p) = NONE THEN ram
                  ELSE [ram EXCEPT ![translate(addr, p)] = b]
        /\ page_table' = page_table
    BY <1>3, <2>1 DEF write
  <2>3. page_table[p] \in Seq(Row)
    BY DEF InOrder, Tables
  <2>4. CASE ~ Valid(p, addr)
    <3>1. translate(addr, p) = NONE
      BY <2>1, <2>3, <2>4, Translated DEF Valid
    <3> QED
      BY <1>1, <2>2, <3>1
  <2>5. CASE Valid(p, addr)
    <3>1. translate(addr, p) # NONE /\ translate(addr, p) = Place(p, addr)
      BY <2>1, <2>3, <2>5, Translated DEF Valid, Place
    <3>2. ram' = [ram EXCEPT ![Place(p, addr)] = b]
      BY <2>2, <3>1
    <3>3. /\ addr \in Address /\ Seen(p, addr) # NONE /\ Seen(p, addr)' = b
          /\ \A q \in Proc : \A a \in Address :
               q # p \/ a # addr => Seen(q, a)' = Seen(q, a)
      BY <2>2, <2>5, <3>2, SpaceStores, Zenon
    <3>4. \E a \in Address :
            /\ Seen(p, a) # NONE /\ Seen(p, a)' \in Bytes
            /\ \A c \in Address \ {a} : Seen(p, c)' = Seen(p, c)
      <4>1. /\ addr \in Address /\ Seen(p, addr) # NONE /\ Seen(p, addr)' \in Bytes
            /\ \A c \in Address \ {addr} : Seen(p, c)' = Seen(p, c)
        BY <3>3
      <4> QED
        BY <4>1, Zenon
    <3>5. \A q \in Proc \ {p} : \A a \in Address : Seen(q, a)' = Seen(q, a)
      BY <3>3
    <3> QED
      BY <3>4, <3>5, SpaceStep
  <2> QED
    BY <2>4, <2>5
<1>4. ASSUME NEW p \in Proc, NEW r \in Reg, free_data(p, r) PROVE UNCHANGED Space
  BY <1>1, <1>4 DEF free_data, vars
<1>5. ASSUME NEW p \in Proc, NEW s \in Reg, NEW d \in Reg, NEW o \in Offsets, read(p, s, o, d)
      PROVE  UNCHANGED Space
  BY <1>1, <1>5 DEF read
<1>6. CASE UNCHANGED vars
  BY <1>1, <1>6 DEF vars
<1> QED
  BY <1>2, <1>3, <1>4, <1>5, <1>6 DEF Next

\* Through the tables of mem.c every process has an address space of its own: what it
\* stored is there until it stores again, no other process sees or changes it, and what
\* alloc_mem hands out is zero.
THEOREM SpacesImplemented == Spec => SpacesRefined
<1>1. InOrder /\ [Next]_vars /\ InOrder' => [Spaces!Next]_Space
  <2>1. Look => (InOrder /\ [Next]_vars /\ Look' => [Spaces!Next]_Space)
    BY SpacesStep
  <2>2. (InOrder => Look)'
    BY SeenInPlace, PTL
  <2> QED
    BY <2>1, <2>2, SeenInPlace
<1> QED
  BY <1>1, SpacesInit, InOrderAlways, PTL DEF Spec, SpacesRefined, Spaces!Spec
=============================================================================
