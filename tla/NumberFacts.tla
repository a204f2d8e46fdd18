----------------------------- MODULE NumberFacts -----------------------------
(***************************************************************************)
(* Facts about numbers and sequences: the least-number principle, which    *)
(* the proofs about the queues of src/src/queue.c, the lists of            *)
(* mm-memphy.c and the files of loader.c use in the place of an induction, *)
(* the pigeonhole principle, what dividing an address by the size of a     *)
(* page gives, and what the loop of dequeue finds and leaves.              *)
(***************************************************************************)
EXTENDS Integers, Sequences, FiniteSetTheorems, WellFoundedInduction, TLAPS

\* Every set of numbers that is not empty has a least element.
LEMMA LeastNumber ==
  ASSUME NEW T \in SUBSET Nat, T # {}
  PROVE  \E n \in T : \A m \in T : n \leq m
<1>1. IsWellFoundedOn(OpToRel(<, Nat), Nat)
  BY NatLessThanWellFounded, Zenon
<1>2. \E x \in T : \A y \in T : ~ (<<y, x>> \in OpToRel(<, Nat))
  BY <1>1, WFMin, Zenon
<1>3. \A y, x \in Nat : y < x => <<y, x>> \in OpToRel(<, Nat)
  BY DEF OpToRel
<1>4. \E n \in T : \A m \in T : ~ (m < n)
  BY <1>2, <1>3
<1>5. \A n, m \in T : ~ (m < n) => n \leq m
  OBVIOUS
<1> QED
  BY <1>4, <1>5

\* Different numbers of 1 .. n, of which one is missing, are fewer than n.
LEMMA OneMissing ==
  ASSUME NEW n \in Nat, NEW p \in 1 .. n, NEW len \in Nat,
         NEW q \in [1 .. len -> (1 .. n) \ {p}],
         \A j, k \in 1 .. len : q[j] = q[k] => j = k
  PROVE  len < n
<1> DEFINE Others == (1 .. n) \ {p}
<1>1. q \in Injection(1 .. len, Others)
  BY DEF Injection, IsInjective
<1>2. IsFiniteSet(1 .. n) /\ Cardinality(1 .. n) = n
  BY FS_Interval
<1>3. IsFiniteSet(Others) /\ Cardinality(Others) = n - 1
  BY <1>2, FS_RemoveElement
<1>4. Cardinality(1 .. len) \leq Cardinality(Others)
  BY <1>1, <1>3, FS_Injection
<1>5. Cardinality(1 .. len) = len
  BY FS_Interval
<1> QED
  BY <1>3, <1>4, <1>5

-----------------------------------------------------------------------------
(* Quotients *)

\* Division by d: quotient and remainder.
LEMMA Divided ==
  ASSUME NEW x \in Nat, NEW d \in Nat \ {0}
  PROVE  /\ x \div d \in Nat
         /\ d * (x \div d) \leq x
         /\ x < d * (x \div d + 1)
<1> DEFINE q == x \div d
           r == x % d
<1>1. q \in Nat /\ r \in 0 .. d - 1 /\ x = d * q + r
  OBVIOUS
<1>2. d * q \in Nat
  BY <1>1
<1>3. d * (q + 1) = d * q + d
  BY <1>1
<1> QED
  BY <1>1, <1>2, <1>3

LEMMA Remainder ==
  ASSUME NEW x \in Nat, NEW d \in Nat \ {0}
  PROVE  x % d \in 0 .. d - 1 /\ x = d * (x \div d) + (x % d)
<1> DEFINE q == x \div d
           r == x % d
<1>1. q \in Nat /\ r \in 0 .. d - 1 /\ x = d * q + r
  OBVIOUS
<1> QED
  BY <1>1

LEMMA TimesMonotone ==
  ASSUME NEW d \in Nat, NEW a \in Int, NEW b \in Int, a \leq b
  PROVE  d * a \leq d * b
<1>1. d * (b - a) \in Nat
  BY b - a \in Nat
<1>2. d * b = d * a + d * (b - a)
  OBVIOUS
<1>3. d * a \in Int /\ d * b \in Int
  OBVIOUS
<1> QED
  BY <1>1, <1>2, <1>3

\* The quotient is the only number whose product fits.
LEMMA QuotientUnique ==
  ASSUME NEW x \in Nat, NEW d \in Nat \ {0}, NEW n \in Int, d * n \leq x, x < d * (n + 1)
  PROVE  x \div d = n
<1> DEFINE q == x \div d
<1>1. q \in Nat /\ d * q \leq x /\ x < d * (q + 1)
  BY Divided
<1> HIDE DEF q
<1>2. \A k \in Int : d * k \in Int
  OBVIOUS
<1>3. CASE q < n
  <2>1. d * (q + 1) \leq d * n
    BY <1>1, <1>3, TimesMonotone
  <2> QED
    BY <1>1, <1>2, <2>1
<1>4. CASE n < q
  <2>1. d * (n + 1) \leq d * q
    BY <1>1, <1>4, TimesMonotone
  <2> QED
    BY <1>1, <1>2, <2>1
<1> QED
  BY <1>1, <1>3, <1>4 DEF q

\* Whole pages in front of a number are counted one by one.
LEMMA QuotientPlus ==
  ASSUME NEW x \in Nat, NEW d \in Nat \ {0}, NEW n \in Nat
  PROVE  (x + d * n) \div d = x \div d + n
<1> DEFINE q == x \div d
<1>1. q \in Nat /\ d * q \leq x /\ x < d * (q + 1)
  BY Divided
<1> HIDE DEF q
<1>2. /\ d * n \in Nat /\ d * q \in Nat
      /\ d * (q + n) = d * q + d * n
      /\ d * (q + n + 1) = d * q + d * n + d
      /\ d * (q + 1) = d * q + d
  BY <1>1
<1>3. d * (q + n) \leq x + d * n /\ x + d * n < d * (q + n + 1)
  BY <1>1, <1>2
<1>4. x + d * n \in Nat /\ q + n \in Int
  BY <1>1, <1>2
<1>5. (x + d * n) \div d = q + n
  BY <1>3, <1>4, QuotientUnique
<1> QED
  BY <1>5 DEF q

LEMMA QuotientMonotone ==
  ASSUME NEW x \in Nat, NEW y \in Nat, NEW d \in Nat \ {0}, x \leq y
  PROVE  x \div d \leq y \div d
<1> DEFINE q == x \div d
           r == y \div d
<1>1. q \in Nat /\ r \in Nat /\ d * q \leq x /\ y < d * (r + 1)
  BY Divided
<1> HIDE DEF q, r
<1>2. CASE r < q
  <2>1. d * (r + 1) \leq d * q
    BY <1>1, <1>2, TimesMonotone
  <2>2. d * q \in Int /\ d * (r + 1) \in Int
    BY <1>1
  <2> QED
    BY <1>1, <2>1, <2>2
<1> QED
  BY <1>1, <1>2 DEF q, r

-----------------------------------------------------------------------------
(* Powers of two *)

\* Powers under a name: the provers compute 2^i for a literal i only.
Pow(i) == 2^i

\* The powers of two a word needs: each is twice the one before.
LEMMA Powers ==
  /\ \A i \in 0 .. 16 : Pow(i) \in Nat \ {0}
  /\ \A i \in 0 .. 15 : Pow(i + 1) = 2 * Pow(i)
  /\ Pow(0) = 1
<1>1. /\ Pow(1) = 2 * Pow(0) /\ Pow(2) = 2 * Pow(1) /\ Pow(3) = 2 * Pow(2)
      /\ Pow(4) = 2 * Pow(3) /\ Pow(5) = 2 * Pow(4) /\ Pow(6) = 2 * Pow(5)
      /\ Pow(7) = 2 * Pow(6) /\ Pow(8) = 2 * Pow(7) /\ Pow(9) = 2 * Pow(8)
      /\ Pow(10) = 2 * Pow(9) /\ Pow(11) = 2 * Pow(10) /\ Pow(12) = 2 * Pow(11)
      /\ Pow(13) = 2 * Pow(12) /\ Pow(14) = 2 * Pow(13) /\ Pow(15) = 2 * Pow(14)
      /\ Pow(16) = 2 * Pow(15)
  BY DEF Pow
<1>2. \A i \in 0 .. 15 :
        \/ i = 0 \/ i = 1 \/ i = 2 \/ i = 3 \/ i = 4 \/ i = 5 \/ i = 6 \/ i = 7 \/ i = 8
        \/ i = 9 \/ i = 10 \/ i = 11 \/ i = 12 \/ i = 13 \/ i = 14 \/ i = 15
  OBVIOUS
<1>3. \A i \in 0 .. 15 : Pow(i + 1) = 2 * Pow(i)
  BY <1>1, <1>2
<1>4. Pow(0) = 1
  BY DEF Pow
<1>5. \A i \in 0 .. 16 : Pow(i) \in Nat \ {0}
  <2> DEFINE T == {i \in 0 .. 16 : Pow(i) \notin Nat \ {0}}
  <2>1. SUFFICES ASSUME T # {} PROVE FALSE
    OBVIOUS
  <2>2. PICK n \in T : \A k \in T : n \leq k
    <3>1. T \in SUBSET Nat
      OBVIOUS
    <3> HIDE DEF T
    <3> QED
      BY <2>1, <3>1, LeastNumber
  <2>3. n # 0
    BY <1>4
  <2>4. n - 1 \in 0 .. 15 /\ (n - 1) + 1 = n /\ ~ (n \leq n - 1)
    BY <2>3
  <2>5. Pow(n - 1) \in Nat \ {0}
    BY <2>2, <2>4
  <2>6. Pow(n) = 2 * Pow(n - 1)
    BY <1>3, <2>4
  <2> QED
    BY <2>5, <2>6
<1> QED
  BY <1>3, <1>4, <1>5

\* A power whose exponent is a sum.
LEMMA PowerSum ==
  ASSUME NEW a \in 0 .. 10, NEW b \in 0 .. 5
  PROVE  Pow(a + b) = Pow(a) * Pow(b)
<1>1. /\ Pow(0) = 1 /\ Pow(1) = 2 /\ Pow(2) = 4 /\ Pow(3) = 8 /\ Pow(4) = 16 /\ Pow(5) = 32
  BY DEF Pow
<1>2. /\ Pow(a) \in Nat
      /\ Pow(a + 1) = 2 * Pow(a)
      /\ Pow(a + 1 + 1) = 2 * Pow(a + 1)
      /\ Pow(a + 2 + 1) = 2 * Pow(a + 2)
      /\ Pow(a + 3 + 1) = 2 * Pow(a + 3)
      /\ Pow(a + 4 + 1) = 2 * Pow(a + 4)
  <2>1. /\ a \in 0 .. 15 /\ a + 1 \in 0 .. 15 /\ a + 2 \in 0 .. 15 /\ a + 3 \in 0 .. 15
        /\ a + 4 \in 0 .. 15 /\ a \in 0 .. 16
    OBVIOUS
  <2> QED
    BY <2>1, Powers
<1>3. /\ a + 1 + 1 = a + 2 /\ a + 2 + 1 = a + 3 /\ a + 3 + 1 = a + 4 /\ a + 4 + 1 = a + 5
      /\ a + 0 = a
  OBVIOUS
<1>4. /\ Pow(a + 1) = 2 * Pow(a) /\ Pow(a + 2) = 4 * Pow(a) /\ Pow(a + 3) = 8 * Pow(a)
      /\ Pow(a + 4) = 16 * Pow(a) /\ Pow(a + 5) = 32 * Pow(a)
  BY <1>2, <1>3
<1>5. b = 0 \/ b = 1 \/ b = 2 \/ b = 3 \/ b = 4 \/ b = 5
  OBVIOUS
<1> QED
  BY <1>1, <1>2, <1>3, <1>4, <1>5

-----------------------------------------------------------------------------
(* Counting *)

\* In a finite set of numbers one has k - 1 others before it, for every k up to the
\* size of the set.
LEMMA NthSmallest ==
  ASSUME NEW S \in SUBSET Nat, IsFiniteSet(S), NEW k \in 1 .. Cardinality(S)
  PROVE  \E i \in S : Cardinality({j \in S : j < i}) = k - 1
<1> DEFINE Below(i) == {j \in S : j < i}
           T == {n \in 1 .. Cardinality(S) : ~ \E i \in S : Cardinality(Below(i)) = n - 1}
<1>1. SUFFICES ASSUME T # {} PROVE FALSE
  OBVIOUS
<1>2. Cardinality(S) \in Nat
  BY FS_CardinalityType
<1>3. PICK n \in T : \A m \in T : n \leq m
  <2>1. T \in SUBSET Nat
    BY <1>2
  <2> HIDE DEF T
  <2> QED
    BY <1>1, <2>1, LeastNumber
<1>4. n \in 1 .. Cardinality(S) /\ ~ \E i \in S : Cardinality(Below(i)) = n - 1
  OBVIOUS
<1>5. CASE n = 1
  <2>1. S # {}
    BY <1>2, <1>4, FS_EmptySet
  <2>2. PICK i \in S : \A m \in S : i \leq m
    BY <2>1, LeastNumber
  <2>3. Below(i) = {}
    <3>1. \A j \in S : j \in Nat /\ i \in Nat /\ ~ (j < i)
      BY <2>2
    <3> QED
      BY <3>1
  <2> HIDE DEF Below, T
  <2>4. Cardinality(Below(i)) = n - 1
    BY <1>5, <2>3, FS_EmptySet
  <2> QED
    BY <1>4, <2>4
<1>6. CASE n # 1
  <2>1. n - 1 \in 1 .. Cardinality(S) /\ ~ (n \leq n - 1)
    BY <1>2, <1>4, <1>6
  <2>2. n - 1 \notin T
    <3> HIDE DEF T
    <3> QED
      BY <1>3, <2>1
  <2>3. PICK h \in S : Cardinality(Below(h)) = n - 2
    BY <1>4, <2>1, <2>2
  <2> DEFINE Upto == Below(h) \cup {h}
             Rest == S \ Upto
  <2>4. IsFiniteSet(Below(h)) /\ h \notin Below(h)
    BY FS_Subset
  <2>5. Cardinality(Upto) = n - 1
    <3>1. Cardinality(Upto) = Cardinality(Below(h)) + 1
      BY <2>4, FS_AddElement, Zenon
    <3> QED
      BY <1>4, <2>3, <3>1
  <2>6. Rest # {}
    <3>1. Upto \subseteq S
      OBVIOUS
    <3>2. Cardinality(Upto) # Cardinality(S)
      BY <1>2, <1>4, <2>5
    <3> QED
      BY <3>1, <3>2
  <2>7. PICK i \in Rest : \A m \in Rest : i \leq m
    <3>1. Rest \in SUBSET Nat
      OBVIOUS
    <3> HIDE DEF Rest
    <3> QED
      BY <2>6, <3>1, LeastNumber
  <2>8. i \in S /\ h < i
    OBVIOUS
  <2>9. Below(i) = Upto
    <3>1. \A j \in S : j < i => j \in Upto
      BY <2>7
    <3>2. \A j \in Upto : j \in S /\ j < i
      BY <2>8
    <3> QED
      BY <3>1, <3>2
  <2> QED
    BY <1>4, <2>5, <2>8, <2>9
<1> QED
  BY <1>5, <1>6

-----------------------------------------------------------------------------
(* Loops *)

\* The computations of N steps G over a set S, with the result after each step.
Computations(N, S, s0, G) ==
  {f \in [0 .. N -> S] : f[0] = s0 /\ \A i \in 1 .. N : f[i] = G[i][f[i - 1]]}

\* A family of N steps over S; opaque where Iterated is used.
IsSteps(G, N, S) == G \in [1 .. N -> [S -> S]]

\* Every such computation has results: induction over its length, by the least failure.
LEMMA Iterated ==
  ASSUME NEW N \in Nat, NEW S, NEW s0 \in S, NEW G, IsSteps(G, N, S)
  PROVE  \E f : f \in Computations(N, S, s0, G)
<1> DEFINE Result(n, f) == f[0] = s0 /\ \A i \in 1 .. n : f[i] = G[i][f[i - 1]]
           T == {n \in 0 .. N : ~ \E f \in [0 .. n -> S] : Result(n, f)}
<1>0. G \in [1 .. N -> [S -> S]]
  BY DEF IsSteps
<1>1. SUFFICES ASSUME T # {} PROVE FALSE
  <2> SUFFICES ASSUME T = {} PROVE \E f : f \in Computations(N, S, s0, G)
    OBVIOUS
  <2>1. N \in 0 .. N /\ N \notin T
    OBVIOUS
  <2>2. PICK f \in [0 .. N -> S] : Result(N, f)
    BY <2>1
  <2>3. f \in Computations(N, S, s0, G)
    BY <2>2 DEF Computations
  <2> QED
    BY <2>3
<1>2. PICK n \in T : \A k \in T : n \leq k
  <2>1. T \in SUBSET Nat
    OBVIOUS
  <2> HIDE DEF T
  <2> QED
    BY <1>1, <2>1, LeastNumber
<1>3. n \in 0 .. N /\ ~ \E f \in [0 .. n -> S] : Result(n, f)
  OBVIOUS
<1>4. CASE n = 0
  <2> DEFINE f == [i \in 0 .. 0 |-> s0]
  <2>1. f \in [0 .. 0 -> S] /\ Result(0, f)
    OBVIOUS
  <2> QED
    BY <1>3, <1>4, <2>1
<1>5. CASE n > 0
  <2>1. n - 1 \in 0 .. N /\ n - 1 \notin T
    <3>1. n - 1 \in 0 .. N /\ ~ (n \leq n - 1)
      BY <1>3, <1>5
    <3> HIDE DEF T
    <3> QED
      BY <1>2, <3>1
  <2>2. PICK f \in [0 .. n - 1 -> S] : Result(n - 1, f)
    BY <2>1
  <2> DEFINE g == [i \in 0 .. n |-> IF i = n THEN G[n][f[n - 1]] ELSE f[i]]
  <2>3. n \in 1 .. N /\ n - 1 \in 0 .. n - 1 /\ f[n - 1] \in S
    BY <1>3, <1>5
  <2>4. G[n] \in [S -> S]
    BY <1>0, <2>3
  <2>5. G[n][f[n - 1]] \in S
    BY <2>3, <2>4
  <2>6. g \in [0 .. n -> S]
    BY <1>3, <2>5
  <2>7. g[n] = G[n][f[n - 1]] /\ \A i \in 0 .. n - 1 : g[i] = f[i]
    BY <1>3
  <2> HIDE DEF g
  <2>8. g[0] = s0
    BY <1>3, <1>5, <2>2, <2>7
  <2>9. ASSUME NEW i \in 1 .. n PROVE g[i] = G[i][g[i - 1]]
    <3>1. i - 1 \in 0 .. n - 1
      OBVIOUS
    <3>2. CASE i = n
      BY <2>7, <3>1, <3>2
    <3>3. CASE i # n
      <4>1. i \in 1 .. n - 1 /\ i \in 0 .. n - 1
        BY <1>3, <3>3
      <4> QED
        BY <2>2, <2>7, <3>1, <4>1
    <3> QED
      BY <3>2, <3>3
  <2> QED
    BY <1>3, <2>6, <2>8, <2>9
<1> QED
  BY <1>3, <1>4, <1>5

-----------------------------------------------------------------------------
(* Sequences *)

\* i is the first of the entries of greatest value among the first n: what the loop
\* of dequeue (queue.c:28) has found when it has looked at them, v being the priority.
FirstOfGreatest(v, q, n, i) ==
  i \in 1 .. n /\ \A j \in 1 .. n : /\ v[q[j]] \leq v[q[i]]
                                    /\ j < i => v[q[j]] < v[q[i]]

\* The search always finds a first of the greatest: otherwise take the fewest entries
\* among which it does not, and look at the last of them.
LEMMA GreatestExists ==
  ASSUME NEW S, NEW v \in [S -> Nat], NEW q \in Seq(S), NEW n \in 1 .. Len(q)
  PROVE  \E i \in 1 .. n : FirstOfGreatest(v, q, n, i)
<1> DEFINE T == {m \in 1 .. Len(q) : ~ \E i \in 1 .. m : FirstOfGreatest(v, q, m, i)}
<1>0. \A j \in 1 .. Len(q) : v[q[j]] \in Nat
  OBVIOUS
<1>1. SUFFICES ASSUME T # {} PROVE FALSE
  OBVIOUS
<1>2. PICK m \in T : \A k \in T : m \leq k
  <2> T \in SUBSET Nat
    OBVIOUS
  <2> HIDE DEF T
  <2> QED BY <1>1, LeastNumber
<1>3. CASE m = 1
  BY <1>0, <1>3, FirstOfGreatest(v, q, 1, 1) DEF FirstOfGreatest
<1>4. CASE m > 1
  <2>1. PICK i \in 1 .. m - 1 : FirstOfGreatest(v, q, m - 1, i)
    <3>1. m - 1 \in 1 .. Len(q) /\ ~ (m \leq m - 1)
      BY <1>4
    <3>2. m - 1 \notin T
      BY <1>2, <3>1
    <3> QED
      BY <3>1, <3>2
  <2>2. CASE v[q[m]] \leq v[q[i]]
    <3>1. /\ i \in 1 .. m /\ i < m
          /\ \A j \in 1 .. m - 1 : /\ v[q[j]] \leq v[q[i]]
                                   /\ j < i => v[q[j]] < v[q[i]]
      BY <2>1 DEF FirstOfGreatest
    <3>2. \A j \in 1 .. m : j = m \/ j \in 1 .. m - 1
      OBVIOUS
    <3>3. ~ (m < i)
      BY <3>1
    <3>4. FirstOfGreatest(v, q, m, i)
      BY <2>2, <3>1, <3>2, <3>3 DEF FirstOfGreatest
    <3> QED BY <3>1, <3>4
  <2>3. CASE ~ (v[q[m]] \leq v[q[i]])
    <3>1. \A j \in 1 .. m - 1 : v[q[j]] \leq v[q[i]]
      BY <2>1 DEF FirstOfGreatest
    <3>2. v[q[m]] \in Nat /\ \A j \in 1 .. m : v[q[j]] \in Nat
      BY <1>0
    <3>3. \A j \in 1 .. m - 1 : v[q[j]] < v[q[m]]
      BY <2>3, <3>1, <3>2
    <3>4. \A j \in 1 .. m : j = m \/ (j \in 1 .. m - 1 /\ j < m)
      OBVIOUS
    <3>5. m \in 1 .. m
      OBVIOUS
    <3>6. \A j \in 1 .. m : v[q[j]] \leq v[q[m]]
      BY <3>2, <3>3, <3>4
    <3>7. FirstOfGreatest(v, q, m, m)
      BY <3>3, <3>4, <3>5, <3>6 DEF FirstOfGreatest
    <3> QED BY <3>7
  <2> QED BY <2>2, <2>3
<1> QED
  BY <1>3, <1>4

\* u is t behind s.
IsConcat(u, s, t) ==
  /\ Len(s) \in Nat /\ Len(t) \in Nat
  /\ Len(u) = Len(s) + Len(t)
  /\ \A j \in 1 .. Len(s) : u[j] = s[j]
  /\ \A j \in 1 .. Len(t) : u[Len(s) + j] = t[j]

LEMMA Concatenated ==
  ASSUME NEW S, NEW s, s \in Seq(S), NEW t, t \in Seq(S)
  PROVE  s \o t \in Seq(S) /\ IsConcat(s \o t, s, t)
<1>1. /\ s \o t \in Seq(S) /\ Len(s) \in Nat /\ Len(t) \in Nat
      /\ Len(s \o t) = Len(s) + Len(t)
  OBVIOUS
<1>2. \A j \in 1 .. Len(s) : (s \o t)[j] = s[j]
  OBVIOUS
<1>3. ASSUME NEW j \in 1 .. Len(t) PROVE (s \o t)[Len(s) + j] = t[j]
  <2>1. Len(s) + j \in 1 .. Len(s) + Len(t) /\ ~ (Len(s) + j \leq Len(s)) /\ Len(s) + j - Len(s) = j
    BY <1>1
  <2> QED
    BY <1>1, <2>1
<1> QED
  BY <1>1, <1>2, <1>3 DEF IsConcat

\* t is q with entry b taken out and the gap closed.
Without(q, b, t, S) ==
  /\ t \in Seq(S) /\ Len(t) = Len(q) - 1
  /\ \A k \in 1 .. Len(q) - 1 : t[k] = q[IF k < b THEN k ELSE k + 1]

\* The part in front of an entry and the part behind it make the sequence without it.
LEMMA TakenOut ==
  ASSUME NEW S, NEW q \in Seq(S), NEW b \in 1 .. Len(q)
  PROVE  Without(q, b, SubSeq(q, 1, b - 1) \o SubSeq(q, b + 1, Len(q)), S)
<1> DEFINE front == SubSeq(q, 1, b - 1)
           back  == SubSeq(q, b + 1, Len(q))
<1>1. q \in Seq(S) /\ Len(q) \in Nat
  OBVIOUS
<1>2. b \in 1 .. Len(q)
  OBVIOUS
<1>3. /\ front \in Seq(S) /\ Len(front) = b - 1
      /\ \A k \in 1 .. b - 1 : front[k] = q[k]
  BY <1>1, <1>2
<1>4. /\ back \in Seq(S) /\ Len(back) = Len(q) - b
      /\ \A k \in 1 .. Len(q) - b : back[k] = q[b + k]
  BY <1>1, <1>2
<1> HIDE DEF front, back
<1>5. front \o back \in Seq(S) /\ IsConcat(front \o back, front, back)
  BY <1>3, <1>4, Concatenated
<1>6. Len(front \o back) = Len(q) - 1
  BY <1>1, <1>2, <1>3, <1>4, <1>5 DEF IsConcat
<1>7. \A k \in 1 .. Len(q) - 1 : (front \o back)[k] = q[IF k < b THEN k ELSE k + 1]
  <2> SUFFICES ASSUME NEW k \in 1 .. Len(q) - 1
               PROVE  (front \o back)[k] = q[IF k < b THEN k ELSE k + 1]
    OBVIOUS
  <2>1. CASE k < b
    <3>1. k \in 1 .. b - 1
      BY <1>1, <1>2, <2>1
    <3> QED
      BY <1>3, <1>5, <2>1, <3>1 DEF IsConcat
  <2>2. CASE ~ (k < b)
    <3>1. k - Len(front) \in 1 .. Len(q) - b /\ Len(front) + (k - Len(front)) = k
          /\ b + (k - Len(front)) = k + 1
      BY <1>1, <1>2, <1>3, <2>2
    <3>2. back[k - Len(front)] = q[k + 1]
      BY <1>4, <3>1
    <3>3. (front \o back)[k] = back[k - Len(front)]
      BY <1>4, <1>5, <3>1 DEF IsConcat
    <3> QED
      BY <2>2, <3>2, <3>3
  <2> QED
    BY <2>1, <2>2
<1>8. Without(q, b, front \o back, S)
  BY <1>5, <1>6, <1>7 DEF Without
<1> QED
  BY <1>8 DEF front, back
=============================================================================
