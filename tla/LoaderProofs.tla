----------------------------- MODULE LoaderProofs ----------------------------
(***************************************************************************)
(* What Loader.tla promises, for every configuration and all programs.     *)
(* Written decides where each line of a file stands; from that follows     *)
(* where every fscanf and fgets of read_config (os.c) and load (loader.c)  *)
(* leaves the file.  Table and Text, the two inductive invariants, say     *)
(* that a turn of either loop begins where the next line does, and that    *)
(* behind the last line nothing is read and the locals keep what they had. *)
(***************************************************************************)
EXTENDS Loader, NumberFacts, FiniteSetTheorems

-----------------------------------------------------------------------------
(* Joined sequences, and what a written file looks like *)

\* F[i] is what the first i sequences of seqs make when they are joined.
Joins(F, seqs, n, S) ==
  /\ F \in [1 .. n -> Seq(S)] /\ \A i \in 1 .. n : seqs[i] \in Seq(S)
  /\ F[1] = seqs[1]
  /\ \A i \in 2 .. n : F[i] = F[i - 1] \o seqs[i]

\* The defining equations of FlattenSeq, and its type.
LEMMA Flattened ==
  ASSUME NEW S, NEW n \in Nat \ {0}, NEW seqs, seqs \in Seq(Seq(S)), Len(seqs) = n
  PROVE  \E F : Joins(F, seqs, n, S) /\ Seqs!FlattenSeq(seqs) = F[n]
<1> DEFINE T == Seq(S)
           G == [i \in 1 .. n |-> [t \in T |-> IF i = 1 THEN seqs[1] ELSE t \o seqs[i]]]
           Body(g) == [i \in 1 .. Len(seqs) |-> IF i = 1 THEN seqs[i] ELSE g[i - 1] \o seqs[i]]
           flatten == CHOOSE g : g = Body(g)
<1>1. \A i \in 1 .. n : seqs[i] \in T
  OBVIOUS
<1>2. IsSteps(G, n, T)
  <2> SUFFICES ASSUME NEW i \in 1 .. n, NEW t \in T
               PROVE  (IF i = 1 THEN seqs[1] ELSE t \o seqs[i]) \in T
    BY DEF IsSteps
  <2>1. seqs[i] \in T /\ seqs[1] \in T
    BY <1>1
  <2> QED
    BY <2>1
<1>3. PICK f \in [0 .. n -> T] : f[0] = << >> /\ \A i \in 1 .. n : f[i] = G[i][f[i - 1]]
  <2>1. PICK sets, first, step : sets = T /\ first = << >> /\ step = G
    OBVIOUS
  <2>2. first \in sets /\ IsSteps(step, n, sets)
    BY <1>2, <2>1
  <2>3. PICK f : f \in Computations(n, sets, first, step)
    BY <2>2, Iterated
  <2> QED
    BY <2>1, <2>3 DEF Computations
<1> DEFINE F == [i \in 1 .. n |-> f[i]]
<1>4. F \in [1 .. n -> T]
  OBVIOUS
<1>5. F[1] = seqs[1] /\ \A i \in 2 .. n : F[i] = F[i - 1] \o seqs[i]
  <2>1. 1 \in 1 .. n /\ f[0] \in T
    OBVIOUS
  <2>2. F[1] = seqs[1]
    <3>1. \A i \in 1 .. n : i = 1 => i - 1 = 0
      OBVIOUS
    <3>2. f[1] = G[1][f[0]]
      BY <1>3, <2>1, <3>1
    <3> QED
      BY <2>1, <3>2
  <2>3. ASSUME NEW i \in 2 .. n PROVE F[i] = F[i - 1] \o seqs[i]
    <3>1. i \in 1 .. n /\ i - 1 \in 1 .. n /\ i # 1 /\ i - 1 \in 0 .. n
      OBVIOUS
    <3>2. f[i - 1] \in T
      BY <3>1
    <3>3. f[i] = f[i - 1] \o seqs[i]
      BY <1>3, <3>1, <3>2
    <3> QED
      BY <3>1, <3>3
  <2> QED
    BY <2>2, <2>3
<1> HIDE DEF F, G
<1>6. F = Body(F)
  <2>1. \A i \in 1 .. n : i # 1 => i \in 2 .. n
    OBVIOUS
  <2>2. \A i \in 1 .. n : F[i] = IF i = 1 THEN seqs[i] ELSE F[i - 1] \o seqs[i]
    BY <1>5, <2>1
  <2> QED
    BY <1>4, <2>2
<1>7. flatten = Body(flatten)
  <2> HIDE DEF Body
  <2> QED
    BY <1>6
<1>8. Seqs!FlattenSeq(seqs) = flatten[n]
  BY DEF Seqs!FlattenSeq
<1> HIDE DEF flatten
<1> DEFINE W == {i \in 1 .. n : flatten[i] # F[i]}
<1>9. W = {}
  <2>1. SUFFICES ASSUME W # {} PROVE FALSE
    OBVIOUS
  <2>2. PICK m \in W : \A k \in W : m \leq k
    <3>1. W \in SUBSET Nat
      OBVIOUS
    <3> HIDE DEF W
    <3> QED
      BY <2>1, <3>1, LeastNumber
  <2>3. m \in 1 .. n /\ flatten[m] # F[m]
    OBVIOUS
  <2>4. m # 1
    BY <1>5, <1>7, <2>3
  <2>5. m - 1 \in 1 .. n /\ m \in 2 .. n /\ ~ (m \leq m - 1)
    BY <2>3, <2>4
  <2>6. flatten[m - 1] = F[m - 1]
    BY <2>2, <2>5
  <2>7. flatten[m] = flatten[m - 1] \o seqs[m]
    BY <1>7, <2>3, <2>4
  <2> QED
    BY <1>5, <2>3, <2>5, <2>6, <2>7
<1>10. Seqs!FlattenSeq(seqs) = F[n]
  <2>1. n \in 1 .. n
    OBVIOUS
  <2> QED
    BY <1>8, <1>9, <2>1
<1>11. Joins(F, seqs, n, S)
  BY <1>1, <1>4, <1>5 DEF Joins
<1> QED
  BY <1>10, <1>11

Content == Token \cup {Nl}

\* The newlines behind line k.
Gap(lines, newlines, k) == IF newlines = 0 /\ k < Len(lines) THEN 1 ELSE newlines

\* Line k begins at b[k] of the tokens f: it is there, and the newlines behind it.
Laid(f, lines, newlines, b) ==
  LET n == Len(lines)
  IN  /\ b \in [1 .. n + 1 -> 1 .. Len(f) + 1]
      /\ b[1] = 1 /\ b[n + 1] = Len(f) + 1
      /\ \A k \in 1 .. n :
           /\ b[k + 1] = b[k] + Len(lines[k]) + Gap(lines, newlines, k)
           /\ \A j \in 1 .. Len(lines[k]) : f[b[k] + j - 1] = lines[k][j]
           /\ \A i \in b[k] + Len(lines[k]) .. b[k + 1] - 1 : f[i] = Nl

\* A newline is no token of a line: no word is "\n".
LEMMA NlNoToken == Nl \notin Token
BY LoaderAssumption DEF Nl, Token

\* Of joined sequences each begins behind the others, and what is joined first stays
\* in front.
Lengthens(F, seqs, n) ==
  /\ F[1] = seqs[1]
  /\ \A i \in 1 .. n : Len(F[i]) \in Nat /\ Len(seqs[i]) \in Nat
  /\ \A i \in 2 .. n : Len(F[i]) = Len(F[i - 1]) + Len(seqs[i])
  /\ \A i \in 2 .. n : \A j \in 1 .. Len(seqs[i]) : F[i][Len(F[i - 1]) + j] = seqs[i][j]
  /\ \A i \in 1 .. n : Len(F[i]) \leq Len(F[n])
                       /\ \A j \in 1 .. Len(F[i]) : F[n][j] = F[i][j]

\* So it is with what FlattenSeq joins.
LEMMA Joined ==
  ASSUME NEW S, NEW n \in Nat \ {0}, NEW seqs, NEW F, Joins(F, seqs, n, S)
  PROVE  Lengthens(F, seqs, n)
<1>0. ASSUME NEW i \in 1 .. n
      PROVE  F[i] \in Seq(S) /\ seqs[i] \in Seq(S) /\ Len(F[i]) \in Nat /\ Len(seqs[i]) \in Nat
  <2>1. F[i] \in Seq(S) /\ seqs[i] \in Seq(S)
    BY DEF Joins
  <2> QED
    BY <2>1
<1>1. ASSUME NEW i \in 2 .. n
      PROVE  /\ Len(F[i]) = Len(F[i - 1]) + Len(seqs[i])
             /\ \A j \in 1 .. Len(seqs[i]) : F[i][Len(F[i - 1]) + j] = seqs[i][j]
             /\ \A j \in 1 .. Len(F[i - 1]) : F[i][j] = F[i - 1][j]
  <2>1. i - 1 \in 1 .. n /\ i \in 1 .. n
    OBVIOUS
  <2>2. PICK s, t : s = F[i - 1] /\ t = seqs[i]
    OBVIOUS
  <2>3. F[i] = s \o t
    BY <2>2 DEF Joins
  <2>4. s \in Seq(S) /\ t \in Seq(S)
    BY <1>0, <2>1, <2>2
  <2>5. IsConcat(s \o t, s, t)
    BY <2>4, Concatenated
  <2> QED
    BY <2>2, <2>3, <2>5 DEF IsConcat
<1> DEFINE Front(i) == Len(F[i]) \leq Len(F[n]) /\ \A j \in 1 .. Len(F[i]) : F[n][j] = F[i][j]
           W == {d \in 0 .. n - 1 : ~ Front(n - d)}
<1>2. W = {}
  <2>1. SUFFICES ASSUME W # {} PROVE FALSE
    OBVIOUS
  <2>2. PICK d \in W : \A k \in W : d \leq k
    <3>1. W \in SUBSET Nat
      OBVIOUS
    <3> HIDE DEF W
    <3> QED
      BY <2>1, <3>1, LeastNumber
  <2>3. d \in 0 .. n - 1 /\ ~ Front(n - d)
    OBVIOUS
  <2>4. d # 0
    <3>1. n - 0 = n /\ n \in 1 .. n
      OBVIOUS
    <3>2. Len(F[n]) \in Nat
      BY <1>0, <3>1
    <3>3. Front(n - 0)
      BY <3>1, <3>2
    <3> HIDE DEF Front
    <3> QED
      BY <2>3, <3>3
  <2>5. d - 1 \in 0 .. n - 1 /\ ~ (d \leq d - 1) /\ n - d + 1 \in 2 .. n
        /\ n - (d - 1) = n - d + 1 /\ n - d \in 1 .. n
    BY <2>3, <2>4
  <2>6. Front(n - d + 1)
    <3> HIDE DEF Front
    <3> QED
      BY <2>2, <2>5
  <2> DEFINE i == n - d + 1
  <2>7. i \in 2 .. n /\ n - d = i - 1 /\ i - 1 \in 1 .. n
    BY <2>5
  <2> HIDE DEF i
  <2>8. n \in 1 .. n
    OBVIOUS
  <2>9. Len(F[i - 1]) \in Nat /\ Len(F[i]) \in Nat /\ Len(F[n]) \in Nat /\ Len(seqs[i]) \in Nat
    <3>1. i \in 1 .. n
      BY <2>7
    <3> QED
      BY <1>0, <2>7, <2>8, <3>1
  <2>10. Front(i)
    BY <2>6 DEF i
  <2>11. Len(F[i]) = Len(F[i - 1]) + Len(seqs[i])
         /\ \A j \in 1 .. Len(F[i - 1]) : F[i][j] = F[i - 1][j]
    BY <1>1, <2>7
  <2>12. Front(i - 1)
    <3> HIDE DEF W
    <3>1. PICK k, l, m : k = Len(F[i - 1]) /\ l = Len(F[i]) /\ m = Len(seqs[i])
      OBVIOUS
    <3>2. k \in Nat /\ m \in Nat /\ l = k + m
      BY <2>9, <2>11, <3>1
    <3>3. l \leq Len(F[n]) /\ \A j \in 1 .. l : F[n][j] = F[i][j]
      BY <2>10, <3>1
    <3>4. k \leq Len(F[n])
      BY <2>9, <3>2, <3>3
    <3>5. \A j \in 1 .. k : j \in 1 .. l
      BY <3>2
    <3>6. \A j \in 1 .. k : F[n][j] = F[i - 1][j]
      BY <2>11, <3>1, <3>3, <3>5
    <3> QED
      BY <3>1, <3>4, <3>6
  <2> HIDE DEF Front
  <2> QED
    BY <2>3, <2>7, <2>12
<1>3. ASSUME NEW i \in 1 .. n PROVE Front(i)
  <2>1. n - i \in 0 .. n - 1 /\ n - (n - i) = i
    OBVIOUS
  <2> HIDE DEF Front
  <2> QED
    BY <1>2, <2>1
<1>4. F[1] = seqs[1]
  BY DEF Joins
<1> QED
  BY <1>0, <1>1, <1>3, <1>4 DEF Lengthens

AreLines(lines) == lines \in Seq(Seq(Token)) /\ lines # << >>

\* Every written file is laid out so.
LEMMA Laying ==
  ASSUME NEW lines, AreLines(lines), NEW newlines \in Nat
  PROVE  /\ Written(lines, newlines) \in Seq(Content)
         /\ \E b : Laid(Written(lines, newlines), lines, newlines, b)
<1> DEFINE n == Len(lines)
           gap(k) == Gap(lines, newlines, k)
           rest(k) == [j \in 1 .. gap(k) |-> Nl]
           seqs == [k \in 1 .. n |-> lines[k] \o rest(k)]
<1>1. n \in Nat \ {0} /\ DOMAIN lines = 1 .. n /\ \A k \in 1 .. n : lines[k] \in Seq(Token)
  BY DEF AreLines
<1>2. ASSUME NEW k \in 1 .. n
      PROVE  /\ Len(lines[k]) \in Nat /\ gap(k) \in Nat
             /\ seqs[k] \in Seq(Content) /\ Len(seqs[k]) = Len(lines[k]) + gap(k)
             /\ \A j \in 1 .. Len(lines[k]) : seqs[k][j] = lines[k][j]
             /\ \A j \in Len(lines[k]) + 1 .. Len(seqs[k]) : seqs[k][j] = Nl
  <2>1. PICK line, g, r : line = lines[k] /\ g = gap(k) /\ r = rest(k)
    OBVIOUS
  <2>2. line \in Seq(Token) /\ Len(line) \in Nat /\ \A j \in 1 .. Len(line) : line[j] \in Token
    <3>1. line \in Seq(Token)
      BY <1>1, <2>1
    <3> QED
      BY <3>1
  <2>3. line \in Seq(Content)
    <3>1. Token \subseteq Content
      BY DEF Content
    <3> QED
      BY <2>2, <3>1
  <2>4. g \in Nat
    BY <2>1 DEF Gap
  <2>5. r \in Seq(Content) /\ Len(r) = g /\ \A j \in 1 .. g : r[j] = Nl
    <3>1. r = [j \in 1 .. g |-> Nl]
      BY <2>1
    <3>2. Nl \in Content
      BY DEF Content
    <3> QED
      BY <2>4, <3>1, <3>2
  <2>6. seqs[k] = line \o r
    BY <2>1
  <2>7. line \o r \in Seq(Content) /\ IsConcat(line \o r, line, r)
    BY <2>3, <2>5, Concatenated
  <2>8. ASSUME NEW j \in Len(line) + 1 .. Len(line) + g PROVE (line \o r)[j] = Nl
    <3>1. j - Len(line) \in 1 .. g /\ Len(line) + (j - Len(line)) = j
      BY <2>2, <2>4
    <3> QED
      BY <2>5, <2>7, <3>1 DEF IsConcat
  <2> HIDE DEF seqs, rest, gap
  <2> QED
    BY <2>1, <2>2, <2>4, <2>5, <2>6, <2>7, <2>8 DEF IsConcat
<1>3. seqs \in Seq(Seq(Content)) /\ Len(seqs) = n
  <2> HIDE DEF rest, gap
  <2>1. \A k \in 1 .. n : lines[k] \o rest(k) \in Seq(Content)
    BY <1>2
  <2> QED
    BY <1>1, <2>1
<1>4. Written(lines, newlines) = Seqs!FlattenSeq(seqs)
  BY <1>1 DEF Written, Gap
<1> HIDE DEF seqs, n
<1>5. PICK F : Joins(F, seqs, n, Content) /\ Seqs!FlattenSeq(seqs) = F[n]
  BY <1>1, <1>3, Flattened
<1>6. Lengthens(F, seqs, n)
  <2>1. n \in Nat \ {0}
    BY <1>1
  <2> QED
    BY <1>5, <2>1, Joined
<1>7. \A i \in 1 .. n : Len(F[i]) \in Nat /\ Len(seqs[i]) \in Nat
  BY <1>6 DEF Lengthens
<1>8. n \in 1 .. n /\ 1 \in 1 .. n
  BY <1>1
<1> DEFINE b == [k \in 1 .. n + 1 |-> IF k = 1 THEN 1 ELSE Len(F[k - 1]) + 1]
           f == F[n]
<1>9. b[1] = 1 /\ \A k \in 1 .. n : b[k + 1] = Len(F[k]) + 1
  <2>1. 1 \in 1 .. n + 1
    BY <1>1
  <2>2. ASSUME NEW k \in 1 .. n PROVE b[k + 1] = Len(F[k]) + 1
    <3>1. k + 1 \in 1 .. n + 1 /\ k + 1 # 1 /\ k + 1 - 1 = k
      BY <1>1
    <3> QED
      BY <3>1
  <2> QED
    BY <2>1, <2>2
<1>10. b \in [1 .. n + 1 -> 1 .. Len(f) + 1]
  <2>1. ASSUME NEW k \in 1 .. n + 1 PROVE b[k] \in 1 .. Len(f) + 1
    <3>1. CASE k = 1
      BY <1>7, <1>8, <1>9, <3>1
    <3>2. CASE k # 1
      <4>1. k - 1 \in 1 .. n /\ k - 1 + 1 = k
        BY <1>1, <3>2
      <4>2. b[k] = Len(F[k - 1]) + 1
        BY <1>9, <4>1
      <4>3. Len(F[k - 1]) \in Nat /\ Len(F[k - 1]) \leq Len(f) /\ Len(f) \in Nat
        BY <1>6, <1>7, <1>8, <4>1 DEF Lengthens
      <4> QED
        BY <4>2, <4>3
    <3> QED
      BY <3>1, <3>2
  <2> QED
    BY <2>1
<1>11. b[n + 1] = Len(f) + 1
  BY <1>8, <1>9
<1> HIDE DEF b
<1>12. ASSUME NEW k \in 1 .. n
       PROVE  /\ b[k] \in Nat \ {0}
              /\ b[k + 1] = b[k] + Len(seqs[k])
              /\ \A j \in 1 .. Len(seqs[k]) : f[b[k] + j - 1] = seqs[k][j]
  <2>1. Len(seqs[k]) \in Nat
    BY <1>2
  <2>2. CASE k = 1
    <3>0. \A j \in 1 .. Len(seqs[1]) : 1 + j - 1 = j
      OBVIOUS
    <3>1. F[1] = seqs[1] /\ b[1] = 1 /\ b[1 + 1] = Len(F[1]) + 1
      BY <1>6, <1>8, <1>9 DEF Lengthens
    <3>2. \A j \in 1 .. Len(seqs[1]) : F[n][j] = seqs[1][j]
      BY <1>6, <1>7, <1>8, <3>1 DEF Lengthens
    <3> QED
      BY <2>1, <2>2, <3>0, <3>1, <3>2
  <2>3. CASE k # 1
    <3>1. k \in 2 .. n /\ k - 1 \in 1 .. n /\ k - 1 + 1 = k
      BY <1>1, <2>3
    <3>2. b[k] = Len(F[k - 1]) + 1 /\ b[k + 1] = Len(F[k]) + 1 /\ Len(F[k - 1]) \in Nat
      BY <1>7, <1>9, <3>1
    <3>3. Len(F[k]) = Len(F[k - 1]) + Len(seqs[k])
      BY <1>6, <3>1 DEF Lengthens
    <3>4. ASSUME NEW j \in 1 .. Len(seqs[k]) PROVE f[b[k] + j - 1] = seqs[k][j]
      <4>1. b[k] + j - 1 = Len(F[k - 1]) + j /\ Len(F[k - 1]) + j \in 1 .. Len(F[k])
        <5>1. PICK l, m : l = Len(seqs[k]) /\ m = Len(F[k - 1])
          OBVIOUS
        <5>2. l \in Nat /\ m \in Nat /\ b[k] = m + 1 /\ Len(F[k]) = m + l /\ j \in 1 .. l
          BY <2>1, <3>2, <3>3, <5>1
        <5>3. m + 1 + j - 1 = m + j /\ m + j \in 1 .. m + l
          BY ONLY <5>2
        <5> QED
          BY <5>1, <5>2, <5>3
      <4>2. F[k][Len(F[k - 1]) + j] = seqs[k][j]
        BY <1>6, <3>1 DEF Lengthens
      <4>3. F[n][Len(F[k - 1]) + j] = F[k][Len(F[k - 1]) + j]
        BY <1>6, <4>1, <3>1 DEF Lengthens
      <4> QED
        BY <4>1, <4>2, <4>3
    <3>5. b[k] \in Nat \ {0} /\ b[k + 1] = b[k] + Len(seqs[k])
      <4>1. PICK l, m : l = Len(seqs[k]) /\ m = Len(F[k - 1])
        OBVIOUS
      <4>2. l \in Nat /\ m \in Nat /\ b[k] = m + 1 /\ b[k + 1] = m + l + 1
        BY <2>1, <3>2, <3>3, <4>1
      <4>3. m + 1 \in Nat \ {0} /\ m + l + 1 = m + 1 + l
        BY ONLY <4>2
      <4> QED
        BY <4>1, <4>2, <4>3
    <3> QED
      BY <3>4, <3>5
  <2> QED
    BY <2>2, <2>3
<1> HIDE DEF f
<1>13. ASSUME NEW k \in 1 .. n
       PROVE  /\ b[k + 1] = b[k] + Len(lines[k]) + gap(k)
              /\ \A j \in 1 .. Len(lines[k]) : f[b[k] + j - 1] = lines[k][j]
              /\ \A i \in b[k] + Len(lines[k]) .. b[k + 1] - 1 : f[i] = Nl
  <2>1. /\ Len(lines[k]) \in Nat /\ gap(k) \in Nat
        /\ Len(seqs[k]) = Len(lines[k]) + gap(k)
        /\ \A j \in 1 .. Len(lines[k]) : seqs[k][j] = lines[k][j]
        /\ \A j \in Len(lines[k]) + 1 .. Len(seqs[k]) : seqs[k][j] = Nl
    BY <1>2
  <2> HIDE DEF gap
  <2>2. /\ b[k] \in Nat \ {0} /\ b[k + 1] = b[k] + Len(seqs[k])
        /\ \A j \in 1 .. Len(seqs[k]) : f[b[k] + j - 1] = seqs[k][j]
    BY <1>12
  <2>3. b[k + 1] = b[k] + Len(lines[k]) + gap(k)
    BY <2>1, <2>2
  <2>4. ASSUME NEW j \in 1 .. Len(lines[k]) PROVE f[b[k] + j - 1] = lines[k][j]
    <3>1. j \in 1 .. Len(seqs[k])
      BY <2>1
    <3> QED
      BY <2>1, <2>2, <3>1
  <2>5. ASSUME NEW i \in b[k] + Len(lines[k]) .. b[k + 1] - 1 PROVE f[i] = Nl
    <3>1. i - b[k] + 1 \in Len(lines[k]) + 1 .. Len(seqs[k])
          /\ i - b[k] + 1 \in 1 .. Len(seqs[k]) /\ b[k] + (i - b[k] + 1) - 1 = i
      <4>1. PICK l, m, c, g : l = Len(lines[k]) /\ m = Len(seqs[k]) /\ c = b[k] /\ g = gap(k)
        OBVIOUS
      <4>2. l \in Nat /\ g \in Nat /\ m = l + g
        BY ONLY <2>1, <4>1
      <4>3. c \in Nat /\ b[k + 1] = c + m
        BY ONLY <2>2, <4>1
      <4>4. m \in Nat
        BY ONLY <4>2
      <4>5. i \in c + l .. c + m - 1
        BY <4>1, <4>3
      <4>6. i - c + 1 \in l + 1 .. m /\ i - c + 1 \in 1 .. m /\ c + (i - c + 1) - 1 = i
        BY ONLY <4>2, <4>3, <4>4, <4>5
      <4> QED
        BY <4>1, <4>6
    <3>2. f[b[k] + (i - b[k] + 1) - 1] = seqs[k][i - b[k] + 1]
      BY <2>2, <3>1
    <3>3. seqs[k][i - b[k] + 1] = Nl
      BY <2>1, <3>1
    <3> QED
      BY <3>1, <3>2, <3>3
  <2> QED
    BY <2>3, <2>4, <2>5
<1>14. Laid(f, lines, newlines, b)
  BY <1>9, <1>10, <1>11, <1>13 DEF Laid, n
<1>15. f = Written(lines, newlines) /\ f \in Seq(Content)
  BY <1>4, <1>5, <1>8 DEF f, Joins
<1> QED
  BY <1>14, <1>15

-----------------------------------------------------------------------------
(* Reading *)

FileOK == file \in Seq(Content)

\* What the open file is made of.
LEMMA FileTokens ==
  ASSUME FileOK
  PROVE  Len(file) \in Nat /\ \A p \in 1 .. Len(file) : file[p] \in Content
BY DEF FileOK

\* Words and newlines have a number too, which nobody reads.
LEMMA ContentNumber ==
  ASSUME NEW t \in Content
  PROVE  t.number \in Int
<1>1. CASE t \in Token
  BY <1>1 DEF Token
<1>2. CASE t = Nl
  BY <1>2 DEF Nl
<1> QED
  BY <1>1, <1>2 DEF Content

\* What white space from p on leaves: k is the first position behind it.
Skips(p, k) ==
  /\ k \in p .. Len(file) + 1
  /\ Eof(k) \/ file[k] # Nl
  /\ \A j \in p .. k - 1 : file[j] = Nl

\* Only one position is the first behind the white space ...
LEMMA SkipIs ==
  ASSUME FileOK, NEW p \in 1 .. Len(file) + 1, NEW k, Skips(p, k)
  PROVE  skip_space(p) = k
<1>1. Len(file) \in Nat
  BY FileTokens
<1>2. ASSUME NEW l, Skips(p, l) PROVE l = k
  <2>1. /\ k \in p .. Len(file) + 1 /\ l \in p .. Len(file) + 1
        /\ (k > Len(file) \/ file[k] # Nl) /\ (l > Len(file) \/ file[l] # Nl)
        /\ (\A j \in p .. k - 1 : file[j] = Nl) /\ (\A j \in p .. l - 1 : file[j] = Nl)
    BY <1>2 DEF Skips, Eof
  <2>2. ~ (l < k)
    <3>1. l < k => l \in p .. k - 1 /\ ~ (l > Len(file))
      BY <1>1, <2>1
    <3> QED
      BY <2>1, <3>1
  <2>3. ~ (k < l)
    <3>1. k < l => k \in p .. l - 1 /\ ~ (k > Len(file))
      BY <1>1, <2>1
    <3> QED
      BY <2>1, <3>1
  <2> QED
    BY <2>1, <2>2, <2>3
<1>3. skip_space(p) = CHOOSE l \in p .. Len(file) + 1 : Skips(p, l)
  <2>1. \A l \in p .. Len(file) + 1 :
          Skips(p, l) <=> (Eof(l) \/ file[l] # Nl) /\ \A j \in p .. l - 1 : file[j] = Nl
    BY DEF Skips
  <2> QED
    BY <2>1 DEF skip_space
<1>4. k \in p .. Len(file) + 1
  BY DEF Skips
<1> QED
  BY <1>2, <1>3, <1>4

\* ... and there is one, at the end of the file if not before.
LEMMA Skipped ==
  ASSUME FileOK, NEW p \in 1 .. Len(file) + 1
  PROVE  Skips(p, skip_space(p))
<1> DEFINE T == {k \in p .. Len(file) + 1 : Eof(k) \/ file[k] # Nl}
<1>1. Len(file) \in Nat
  BY FileTokens
<1>2. Len(file) + 1 \in T
  BY <1>1 DEF Eof
<1>3. T \in SUBSET Nat
  BY <1>1
<1>4. PICK k \in T : \A l \in T : k \leq l
  <2> HIDE DEF T
  <2> QED
    BY <1>2, <1>3, LeastNumber
<1>5. \A j \in p .. k - 1 : file[j] = Nl
  <2> SUFFICES ASSUME NEW j \in p .. k - 1 PROVE file[j] = Nl
    OBVIOUS
  <2>1. j \in p .. Len(file) + 1 /\ ~ (k \leq j)
    BY <1>1
  <2> QED
    BY <1>4, <2>1
<1>6. Skips(p, k)
  BY <1>5 DEF Skips
<1> QED
  BY <1>6, SkipIs

\* Where there is no white space nothing is skipped.
LEMMA SkipsNothing ==
  ASSUME FileOK, NEW p \in 1 .. Len(file) + 1, Eof(p) \/ file[p] # Nl
  PROVE  skip_space(p) = p
<1>1. Len(file) \in Nat
  BY FileTokens
<1>2. Skips(p, p)
  BY <1>1 DEF Skips
<1> QED
  BY <1>2, SkipIs

\* Skipping goes forward, stays in the file, and a second time does nothing.
LEMMA SkippedRange ==
  ASSUME FileOK, NEW p \in 1 .. Len(file) + 1
  PROVE  /\ skip_space(p) \in 1 .. Len(file) + 1 /\ p \leq skip_space(p)
         /\ skip_space(skip_space(p)) = skip_space(p)
<1>1. Len(file) \in Nat
  BY FileTokens
<1>2. PICK k : k = skip_space(p)
  OBVIOUS
<1>3. k \in p .. Len(file) + 1 /\ (Eof(k) \/ file[k] # Nl)
  BY <1>2, Skipped DEF Skips
<1>4. k \in 1 .. Len(file) + 1 /\ p \leq k
  BY <1>1, <1>3
<1>5. skip_space(k) = k
  BY <1>3, <1>4, SkipsNothing
<1> QED
  BY <1>2, <1>4, <1>5

\* The rest of the line from p on ends before k.
Ends(p, k) ==
  /\ k \in p .. Len(file) + 1
  /\ Eof(k) \/ file[k - 1] = Nl
  /\ k > p \/ Eof(p)
  /\ \A j \in p + 1 .. k - 1 : file[j - 1] # Nl

\* Only one position is the first behind the line ...
LEMMA EndIs ==
  ASSUME FileOK, NEW p \in 1 .. Len(file) + 1, NEW k, Ends(p, k)
  PROVE  end_of_line(p) = k
<1>1. Len(file) \in Nat
  BY FileTokens
<1>2. ASSUME NEW l, Ends(p, l) PROVE l = k
  <2>1. /\ k \in p .. Len(file) + 1 /\ l \in p .. Len(file) + 1
        /\ (k > Len(file) \/ file[k - 1] = Nl) /\ (l > Len(file) \/ file[l - 1] = Nl)
        /\ (k > p \/ p > Len(file)) /\ (l > p \/ p > Len(file))
        /\ (\A j \in p + 1 .. k - 1 : file[j - 1] # Nl) /\ (\A j \in p + 1 .. l - 1 : file[j - 1] # Nl)
    BY <1>2 DEF Ends, Eof
  <2>2. ~ (l < k)
    <3>1. l < k => l \in p + 1 .. k - 1 /\ ~ (l > Len(file))
      BY <1>1, <2>1
    <3> QED
      BY <2>1, <3>1
  <2>3. ~ (k < l)
    <3>1. k < l => k \in p + 1 .. l - 1 /\ ~ (k > Len(file))
      BY <1>1, <2>1
    <3> QED
      BY <2>1, <3>1
  <2> QED
    BY <2>1, <2>2, <2>3
<1>3. end_of_line(p) = CHOOSE l \in p .. Len(file) + 1 : Ends(p, l)
  <2>1. \A l \in p .. Len(file) + 1 :
          Ends(p, l) <=> (Eof(l) \/ file[l - 1] = Nl) /\ (l > p \/ Eof(p))
                         /\ \A j \in p + 1 .. l - 1 : file[j - 1] # Nl
    BY DEF Ends
  <2> QED
    BY <2>1 DEF end_of_line
<1>4. k \in p .. Len(file) + 1
  BY DEF Ends
<1> QED
  BY <1>2, <1>3, <1>4

\* ... and there is one.
LEMMA LineEnds ==
  ASSUME FileOK, NEW p \in 1 .. Len(file) + 1
  PROVE  Ends(p, end_of_line(p))
<1> DEFINE T == {k \in p .. Len(file) + 1 : /\ Eof(k) \/ file[k - 1] = Nl
                                            /\ k > p \/ Eof(p)}
<1>1. Len(file) \in Nat
  BY FileTokens
<1>2. Len(file) + 1 \in T
  BY <1>1 DEF Eof
<1>3. T \in SUBSET Nat
  BY <1>1
<1>4. PICK k \in T : \A l \in T : k \leq l
  <2> HIDE DEF T
  <2> QED
    BY <1>2, <1>3, LeastNumber
<1>5. \A j \in p + 1 .. k - 1 : file[j - 1] # Nl
  <2> SUFFICES ASSUME NEW j \in p + 1 .. k - 1 PROVE file[j - 1] # Nl
    OBVIOUS
  <2>1. j \in p .. Len(file) + 1 /\ ~ (k \leq j) /\ j > p
    BY <1>1
  <2> QED
    BY <1>4, <2>1
<1>6. Ends(p, k)
  BY <1>5 DEF Ends
<1> QED
  BY <1>6, EndIs

-----------------------------------------------------------------------------
(* fscanf with conversions to numbers *)

\* Where a conversion looks after one that has looked at q.
After(q) == skip_space(IF IsNumber(q) THEN q + 1 ELSE q)

\* The n conversions from p on look at at[1] .. at[n]; the file is left at at[n + 1].
Places(at, p, n) ==
  /\ at \in [1 .. n + 1 -> 1 .. Len(file) + 1]
  /\ at[1] = skip_space(p)
  /\ \A k \in 1 .. n : at[k + 1] = After(at[k])

\* A conversion stays in the file.
LEMMA AfterRange ==
  ASSUME FileOK, NEW q \in 1 .. Len(file) + 1
  PROVE  After(q) \in 1 .. Len(file) + 1
<1>1. Len(file) \in Nat
  BY FileTokens
<1>2. CASE IsNumber(q)
  <2>1. ~ (q > Len(file))
    BY <1>2 DEF IsNumber, Eof
  <2>2. q + 1 \in 1 .. Len(file) + 1
    BY <1>1, <2>1
  <2>3. skip_space(q + 1) \in 1 .. Len(file) + 1
    BY <2>2, SkippedRange
  <2> QED
    BY <1>2, <2>3 DEF After
<1>3. CASE ~ IsNumber(q)
  <2>1. skip_space(q) \in 1 .. Len(file) + 1
    BY SkippedRange
  <2> QED
    BY <1>3, <2>1 DEF After
<1> QED
  BY <1>2, <1>3

\* The conversions of an fscanf run one behind the other: the recursion of
\* fscanf_numbers has a solution, the positions at which they look.
LEMMA Conversions ==
  ASSUME FileOK, NEW p \in 1 .. Len(file) + 1, NEW n \in Nat
  PROVE  \E at : /\ Places(at, p, n)
                 /\ fscanf_numbers(p, n) =
                      [stored |-> [k \in {k \in 1 .. n : IsNumber(at[k])} |-> file[at[k]].number],
                       pos    |-> at[n + 1]]
<1> DEFINE S == 1 .. Len(file) + 1
           Body(g) == [k \in 1 .. n + 1 |->
             skip_space(IF k = 1 THEN p
                        ELSE IF IsNumber(g[k - 1]) THEN g[k - 1] + 1 ELSE g[k - 1])]
           at == CHOOSE g : g = Body(g)
           G == [k \in 1 .. n |-> [q \in S |-> After(q)]]
<1>1. skip_space(p) \in S
  BY SkippedRange
<1>2. IsSteps(G, n, S)
  BY AfterRange DEF IsSteps
<1>3. PICK f \in [0 .. n -> S] :
         f[0] = skip_space(p) /\ \A k \in 1 .. n : f[k] = G[k][f[k - 1]]
  <2>1. PICK sets, first, step : sets = S /\ first = skip_space(p) /\ step = G
    OBVIOUS
  <2>2. first \in sets /\ IsSteps(step, n, sets)
    BY <1>1, <1>2, <2>1
  <2>3. PICK f : f \in Computations(n, sets, first, step)
    BY <2>2, Iterated
  <2> QED
    BY <2>1, <2>3 DEF Computations
<1> DEFINE h == [k \in 1 .. n + 1 |-> f[k - 1]]
<1>4. h \in [1 .. n + 1 -> S] /\ h[1] = skip_space(p) /\ \A k \in 1 .. n : h[k + 1] = After(h[k])
  <2>1. \A k \in 1 .. n + 1 : k - 1 \in 0 .. n
    OBVIOUS
  <2>2. 1 \in 1 .. n + 1 /\ 1 - 1 = 0
    OBVIOUS
  <2>3. ASSUME NEW k \in 1 .. n PROVE h[k + 1] = After(h[k])
    <3>1. k + 1 \in 1 .. n + 1 /\ k + 1 - 1 = k /\ k \in 1 .. n + 1 /\ k - 1 \in 0 .. n
      OBVIOUS
    <3>2. f[k - 1] \in S
      BY <3>1
    <3>3. f[k] = After(f[k - 1])
      BY <1>3, <3>2
    <3> QED
      BY <3>1, <3>3
  <2>4. h \in [1 .. n + 1 -> S]
    BY <2>1
  <2>5. h[1] = f[0]
    BY <2>2
  <2> QED
    BY <1>3, <2>3, <2>4, <2>5
<1> HIDE DEF h, G
<1>5. h = Body(h)
  <2>1. ASSUME NEW k \in 1 .. n + 1
        PROVE  h[k] = skip_space(IF k = 1 THEN p
                                 ELSE IF IsNumber(h[k - 1]) THEN h[k - 1] + 1 ELSE h[k - 1])
    <3>1. CASE k = 1
      BY <1>4, <3>1
    <3>2. CASE k # 1
      <4>1. k - 1 \in 1 .. n /\ k - 1 + 1 = k
        BY <3>2
      <4>2. h[k] = After(h[k - 1])
        BY <1>4, <4>1
      <4> QED
        BY <3>2, <4>2 DEF After
    <3> QED
      BY <3>1, <3>2
  <2> QED
    BY <1>4, <2>1
<1>6. at = Body(at)
  <2> HIDE DEF Body
  <2> QED
    BY <1>5
<1>7. fscanf_numbers(p, n) =
        [stored |-> [k \in {k \in 1 .. n : IsNumber(at[k])} |-> file[at[k]].number],
         pos    |-> at[n + 1]]
  BY DEF fscanf_numbers
<1> HIDE DEF at
<1> DEFINE W == {k \in 1 .. n + 1 : at[k] # h[k]}
<1>8. W = {}
  <2>1. SUFFICES ASSUME W # {} PROVE FALSE
    OBVIOUS
  <2>2. PICK m \in W : \A k \in W : m \leq k
    <3>1. W \in SUBSET Nat
      OBVIOUS
    <3> HIDE DEF W
    <3> QED
      BY <2>1, <3>1, LeastNumber
  <2>3. m \in 1 .. n + 1 /\ at[m] # h[m]
    OBVIOUS
  <2>4. m # 1
    BY <1>5, <1>6, <2>3
  <2>5. m - 1 \in 1 .. n + 1 /\ ~ (m \leq m - 1)
    BY <2>3, <2>4
  <2>6. at[m - 1] = h[m - 1]
    BY <2>2, <2>5
  <2>7. at[m] = h[m]
    BY <1>5, <1>6, <2>3, <2>6
  <2> QED
    BY <2>3, <2>7
<1>9. \A k \in 1 .. n + 1 : at[k] = h[k]
  BY <1>8
<1>10. at = h
  <2>1. at = [k \in 1 .. n + 1 |-> at[k]] /\ h = [k \in 1 .. n + 1 |-> h[k]]
    BY <1>4, <1>6
  <2> QED
    BY <1>9, <2>1
<1>11. Places(at, p, n)
  BY <1>4, <1>10 DEF Places
<1> QED
  BY <1>7, <1>11

\* From p on there are the numbers ns, and behind them the file is at e, where no number
\* stands if there are fewer than n of them.
NumbersAt(p, ns, n, e) ==
  /\ Len(ns) \in 0 .. n
  /\ \A k \in 1 .. Len(ns) : /\ p + k - 1 \in 1 .. Len(file)
                             /\ file[p + k - 1] = Num(ns[k])
  /\ p + Len(ns) \in 1 .. Len(file) + 1 /\ e = skip_space(p + Len(ns))
  /\ Len(ns) < n => ~ IsNumber(e)

\* Then fscanf stores them, and stops at e.
LEMMA NumbersRead ==
  ASSUME FileOK, NEW p \in 1 .. Len(file) + 1, NEW n \in Nat, NEW S, NEW ns \in Seq(S), NEW e,
         NumbersAt(p, ns, n, e)
  PROVE  /\ fscanf_numbers(p, n).pos = e
         /\ DOMAIN fscanf_numbers(p, n).stored = 1 .. Len(ns)
         /\ \A k \in 1 .. Len(ns) : fscanf_numbers(p, n).stored[k] = ns[k]
<1> DEFINE m == Len(ns)
<1>0. Len(file) \in Nat
  BY FileTokens
<1>1. PICK at : /\ Places(at, p, n)
                /\ fscanf_numbers(p, n) =
                     [stored |-> [k \in {k \in 1 .. n : IsNumber(at[k])} |-> file[at[k]].number],
                      pos    |-> at[n + 1]]
  BY Conversions
<1>2. m \in 0 .. n
  BY DEF NumbersAt
<1> HIDE DEF m
<1>3. ASSUME NEW k \in 1 .. m
      PROVE  /\ p + k - 1 \in 1 .. Len(file) /\ file[p + k - 1] = Num(ns[k])
             /\ IsNumber(p + k - 1) /\ skip_space(p + k - 1) = p + k - 1
             /\ file[p + k - 1].number = ns[k]
  <2>1. p + k - 1 \in 1 .. Len(file) /\ file[p + k - 1] = Num(ns[k])
    BY DEF NumbersAt, m
  <2>2. file[p + k - 1].text = "" /\ file[p + k - 1] # Nl /\ file[p + k - 1].number = ns[k]
    <3>1. Num(ns[k]).text = "" /\ Num(ns[k]).number = ns[k]
      BY DEF Num
    <3>2. Nl.text # ""
      BY DEF Nl
    <3> QED
      BY <2>1, <3>1, <3>2
  <2>3. ~ Eof(p + k - 1) /\ p + k - 1 \in 1 .. Len(file) + 1
    BY <1>0, <2>1 DEF Eof
  <2>4. skip_space(p + k - 1) = p + k - 1
    BY <2>2, <2>3, SkipsNothing
  <2> QED
    BY <2>1, <2>2, <2>3, <2>4 DEF IsNumber
<1>4. e = skip_space(p + m) /\ p + m \in 1 .. Len(file) + 1 /\ (m < n => ~ IsNumber(e))
  BY DEF NumbersAt, m
<1>5. \A k \in 1 .. m + 1 : at[k] = skip_space(p + k - 1)
  <2> DEFINE W == {k \in 1 .. m + 1 : at[k] # skip_space(p + k - 1)}
  <2>1. SUFFICES ASSUME W # {} PROVE FALSE
    OBVIOUS
  <2>2. PICK k \in W : \A i \in W : k \leq i
    <3>1. W \in SUBSET Nat
      BY <1>2
    <3> HIDE DEF W
    <3> QED
      BY <2>1, <3>1, LeastNumber
  <2>3. k \in 1 .. m + 1 /\ at[k] # skip_space(p + k - 1)
    OBVIOUS
  <2>4. k # 1
    <3>1. at[1] = skip_space(p)
      BY <1>1 DEF Places
    <3>2. p + 1 - 1 = p
      OBVIOUS
    <3> QED
      BY <2>3, <3>1, <3>2
  <2>5. k - 1 \in 1 .. m /\ k - 1 \in 1 .. m + 1 /\ ~ (k \leq k - 1) /\ k - 1 + 1 = k
        /\ k - 1 \in 1 .. n /\ p + (k - 1) - 1 + 1 = p + k - 1
    BY <1>2, <2>3, <2>4
  <2>6. at[k - 1] = p + (k - 1) - 1
    <3>1. at[k - 1] = skip_space(p + (k - 1) - 1)
      BY <2>2, <2>5
    <3> QED
      BY <1>3, <2>5, <3>1
  <2>7. at[k] = After(at[k - 1])
    <3>1. at[k - 1 + 1] = After(at[k - 1])
      BY <1>1, <2>5 DEF Places
    <3> QED
      BY <2>5, <3>1
  <2>8. IsNumber(at[k - 1]) /\ at[k - 1] + 1 = p + k - 1
    BY <1>3, <2>5, <2>6
  <2> QED
    BY <2>3, <2>7, <2>8 DEF After
<1>6. \A k \in 1 .. m : at[k] = p + k - 1
  <2>1. \A k \in 1 .. m : k \in 1 .. m + 1
    BY <1>2
  <2> QED
    BY <1>3, <1>5, <2>1
<1>7. \A k \in m + 1 .. n + 1 : at[k] = e
  <2> DEFINE W == {k \in m + 1 .. n + 1 : at[k] # e}
  <2>1. SUFFICES ASSUME W # {} PROVE FALSE
    OBVIOUS
  <2>2. PICK k \in W : \A i \in W : k \leq i
    <3>1. W \in SUBSET Nat
      BY <1>2
    <3> HIDE DEF W
    <3> QED
      BY <2>1, <3>1, LeastNumber
  <2>3. k \in m + 1 .. n + 1 /\ at[k] # e
    OBVIOUS
  <2>4. k # m + 1
    <3>1. m + 1 \in 1 .. m + 1 /\ p + (m + 1) - 1 = p + m
      BY <1>2
    <3>2. at[m + 1] = skip_space(p + m)
      BY <1>5, <3>1
    <3> QED
      BY <1>4, <2>3, <3>2
  <2>5. k - 1 \in m + 1 .. n + 1 /\ ~ (k \leq k - 1) /\ k - 1 + 1 = k /\ k - 1 \in 1 .. n /\ m < n
    BY <1>2, <2>3, <2>4
  <2>6. at[k - 1] = e
    BY <2>2, <2>5
  <2>7. at[k] = After(e)
    <3>1. at[k - 1 + 1] = After(at[k - 1])
      BY <1>1, <2>5 DEF Places
    <3> QED
      BY <2>5, <2>6, <3>1
  <2>8. After(e) = skip_space(e)
    BY <1>4, <2>5 DEF After
  <2>9. skip_space(e) = e
    BY <1>4, SkippedRange
  <2> QED
    BY <2>3, <2>7, <2>8, <2>9
<1>8. {k \in 1 .. n : IsNumber(at[k])} = 1 .. m
  <2>1. \A k \in 1 .. m : k \in 1 .. n /\ IsNumber(at[k])
    <3>1. \A k \in 1 .. m : k \in 1 .. n
      BY <1>2
    <3> QED
      BY <1>3, <1>6, <3>1
  <2>2. ASSUME NEW k \in 1 .. n, k \notin 1 .. m PROVE ~ IsNumber(at[k])
    <3>1. k \in m + 1 .. n + 1 /\ m < n
      BY <1>2, <2>2
    <3> QED
      BY <1>4, <1>7, <3>1
  <2> QED
    BY <2>1, <2>2
<1>9. fscanf_numbers(p, n).pos = e
  <2>1. n + 1 \in m + 1 .. n + 1
    BY <1>2
  <2> QED
    BY <1>1, <1>7, <2>1
<1>10. fscanf_numbers(p, n).stored = [k \in 1 .. m |-> file[at[k]].number]
  BY <1>1, <1>8
<1>11. \A k \in 1 .. m : file[at[k]].number = ns[k]
  BY <1>3, <1>6
<1> QED
  BY <1>9, <1>10, <1>11 DEF m

\* Wherever it starts, it stays in the file and stores numbers.
LEMMA NumbersTyped ==
  ASSUME FileOK, NEW p \in 1 .. Len(file) + 1, NEW n \in Nat
  PROVE  /\ fscanf_numbers(p, n).pos \in 1 .. Len(file) + 1
         /\ DOMAIN fscanf_numbers(p, n).stored \subseteq 1 .. n
         /\ \A k \in DOMAIN fscanf_numbers(p, n).stored : fscanf_numbers(p, n).stored[k] \in Int
<1>0. Len(file) \in Nat
  BY FileTokens
<1>1. PICK at : /\ Places(at, p, n)
                /\ fscanf_numbers(p, n) =
                     [stored |-> [k \in {k \in 1 .. n : IsNumber(at[k])} |-> file[at[k]].number],
                      pos    |-> at[n + 1]]
  BY Conversions
<1>2. \A k \in 1 .. n + 1 : at[k] \in 1 .. Len(file) + 1
  BY <1>1 DEF Places
<1>3. n + 1 \in 1 .. n + 1 /\ \A k \in 1 .. n : k \in 1 .. n + 1
  OBVIOUS
<1>4. ASSUME NEW k \in 1 .. n, IsNumber(at[k]) PROVE file[at[k]].number \in Int
  <2>1. at[k] \in 1 .. Len(file)
    <3>1. PICK q : q = at[k]
      OBVIOUS
    <3>2. q \in 1 .. Len(file) + 1
      BY <1>2, <1>3, <3>1
    <3>3. ~ (q > Len(file))
      BY <1>4, <3>1 DEF IsNumber, Eof
    <3> QED
      BY <1>0, <3>1, <3>2, <3>3
  <2>2. file[at[k]] \in Content
    BY <2>1, FileTokens
  <2> QED
    BY <2>2, ContentNumber
<1> QED
  BY <1>1, <1>2, <1>3, <1>4

-----------------------------------------------------------------------------
(* The tokens of a program's file and of the configuration *)

\* The tokens of the numbers ns, and those of a line of a program.
AreNumbers(t, ns) ==
  /\ t \in Seq(Token) /\ Len(ns) \in Nat /\ Len(t) = Len(ns)
  /\ \A j \in 1 .. Len(ns) : t[j] = Num(ns[j])

AreSource(t, line) ==
  /\ t \in Seq(Token) /\ Len(line.numbers) \in Nat
  /\ Len(t) = Len(line.numbers) + 1
  /\ t[1] = Word(line.opcode)
  /\ \A j \in 1 .. Len(line.numbers) : t[j + 1] = Num(line.numbers[j])

\* Numbers makes tokens of numbers.
LEMMA NumbersAre ==
  ASSUME NEW ns \in Seq(Int)
  PROVE  AreNumbers(Numbers(ns), ns)
<1>1. Len(ns) \in Nat /\ DOMAIN ns = 1 .. Len(ns) /\ \A j \in 1 .. Len(ns) : ns[j] \in Int
  OBVIOUS
<1>2. \A x \in Int : Num(x) \in Token
  BY DEF Num, Token
<1>3. Numbers(ns) = [j \in 1 .. Len(ns) |-> Num(ns[j])]
  BY <1>1 DEF Numbers
<1>4. \A j \in 1 .. Len(ns) : Num(ns[j]) \in Token
  BY <1>1, <1>2
<1>5. Numbers(ns) \in Seq(Token) /\ Len(Numbers(ns)) = Len(ns)
  BY <1>1, <1>3, <1>4
<1> QED
  BY <1>1, <1>3, <1>5 DEF AreNumbers

ProgramLine == [opcode : Words, numbers : Seq(Int)]

\* A word is a token of a line.
LEMMA WordIsToken ==
  ASSUME NEW w \in Words
  PROVE  Word(w) \in Token
<1>0. 0 \in Int
  OBVIOUS
<1>1. w \in Words \cup {""}
  OBVIOUS
<1>2. Word(w) = [text |-> w, number |-> 0]
  BY DEF Word
<1> DEFINE T == Words \cup {""}
<1>3. w \in T
  BY <1>1
<1> HIDE DEF T
<1>4. [text |-> w, number |-> 0] \in [text : T, number : Int]
  BY <1>0, <1>3
<1> QED
  BY <1>2, <1>4 DEF T, Token

\* Source makes tokens of a line of a program.
LEMMA SourceIs ==
  ASSUME NEW line \in ProgramLine
  PROVE  AreSource(Source(line), line)
<1>1. line.numbers \in Seq(Int) /\ line.opcode \in Words
  BY DEF ProgramLine
<1> DEFINE s == <<Word(line.opcode)>>
           t == Numbers(line.numbers)
<1>2. AreNumbers(t, line.numbers)
  BY <1>1, NumbersAre
<1>3. s \in Seq(Token) /\ Len(s) = 1 /\ s[1] = Word(line.opcode)
  <2>1. Word(line.opcode) \in Token
    BY <1>1, WordIsToken
  <2> QED
    BY <2>1
<1>4. t \in Seq(Token)
  BY <1>2 DEF AreNumbers
<1>5. Source(line) = s \o t
  BY DEF Source
<1> HIDE DEF s, t
<1>6. s \o t \in Seq(Token) /\ IsConcat(s \o t, s, t)
  BY <1>3, <1>4, Concatenated
<1>7. \A j \in 1 .. Len(t) : (s \o t)[1 + j] = t[j]
  BY <1>3, <1>6 DEF IsConcat
<1>8. \A j \in Nat : 1 + j = j + 1
  OBVIOUS
<1>9. Len(s \o t) = Len(t) + 1 /\ (s \o t)[1] = Word(line.opcode) /\ Len(t) = Len(line.numbers)
      /\ Len(t) \in Nat
  <2>1. Len(s \o t) = 1 + Len(t) /\ Len(t) \in Nat
    BY <1>3, <1>6 DEF IsConcat
  <2>2. 1 \in 1 .. 1
    OBVIOUS
  <2>3. (s \o t)[1] = s[1]
    BY <1>3, <1>6, <2>2 DEF IsConcat
  <2> QED
    BY <1>2, <1>3, <2>1, <2>3 DEF AreNumbers
<1>10. ASSUME NEW j \in 1 .. Len(line.numbers) PROVE (s \o t)[j + 1] = Num(line.numbers[j])
  <2>1. j \in 1 .. Len(t) /\ j \in Nat
    BY <1>9
  <2>2. t[j] = Num(line.numbers[j])
    BY <1>2 DEF AreNumbers
  <2> QED
    BY <1>7, <1>8, <2>1, <2>2
<1> QED
  BY <1>5, <1>6, <1>9, <1>10 DEF AreSource

\* Line k of a program begins at at[k] of its file f, and behind the last one the file
\* ends: between the lines there are newlines and nothing else.
LaidLine(f, line, p, q) ==
  LET m == Len(line.numbers)
  IN  /\ m \in Nat /\ p \in Nat /\ q \in Nat
      /\ p + m + 1 <= q
      /\ f[p] = Word(line.opcode)
      /\ \A j \in 1 .. m : f[p + j] = Num(line.numbers[j])
      /\ \A i \in p + m + 1 .. q - 1 : f[i] = Nl

LaidProgram(f, program, at) ==
  LET n == Len(program.lines)
  IN  /\ f \in Seq(Content) /\ Len(f) \in Nat /\ n \in Nat
      /\ Len(f) >= 2 /\ f[1] = Num(program.priority)
      /\ at \in [1 .. n + 1 -> 3 .. Len(f) + 1]
      /\ at[n + 1] = Len(f) + 1
      /\ \A i \in 3 .. at[1] - 1 : f[i] = Nl
      /\ \A k \in 1 .. n :
           /\ LaidLine(f, program.lines[k], at[k], at[k + 1])
           /\ program.newlines > 0 \/ k < n =>
                at[k] + Len(program.lines[k].numbers) + 1 < at[k + 1]

\* The lines of a file behind its first.
Headed(lines, s, rest) ==
  /\ AreLines(lines) /\ Len(rest) \in Nat
  /\ Len(lines) = Len(rest) + 1
  /\ lines[1] = s
  /\ \A k \in 1 .. Len(rest) : lines[k + 1] = rest[k]

\* A first line in front of others.
LEMMA HeadedBy ==
  ASSUME NEW s, s \in Seq(Token), NEW rest, rest \in Seq(Seq(Token))
  PROVE  Headed(<<s>> \o rest, s, rest)
<1> DEFINE T == Seq(Token)
           h == <<s>>
<1>1. h \in Seq(T) /\ Len(h) = 1 /\ h[1] = s
  OBVIOUS
<1>2. rest \in Seq(T)
  OBVIOUS
<1> HIDE DEF h, T
<1>3. h \o rest \in Seq(T) /\ IsConcat(h \o rest, h, rest)
  BY <1>1, <1>2, Concatenated
<1>4. Len(rest) \in Nat /\ Len(h \o rest) = 1 + Len(rest)
  BY <1>1, <1>3 DEF IsConcat
<1>5. 1 \in 1 .. 1 /\ 1 + Len(rest) = Len(rest) + 1 /\ 1 + Len(rest) # 0
  BY <1>4
<1>6. (h \o rest)[1] = s
  BY <1>1, <1>3, <1>5 DEF IsConcat
<1>7. ASSUME NEW k \in 1 .. Len(rest) PROVE (h \o rest)[k + 1] = rest[k]
  <2>1. (h \o rest)[1 + k] = rest[k]
    BY <1>1, <1>3 DEF IsConcat
  <2>2. 1 + k = k + 1
    OBVIOUS
  <2> QED
    BY <2>1, <2>2
<1>8. AreLines(h \o rest)
  <2>1. h \o rest # << >>
    BY <1>3, <1>4, <1>5
  <2> QED
    BY <1>3, <2>1 DEF AreLines, T
<1> QED
  BY <1>4, <1>5, <1>6, <1>7, <1>8 DEF Headed, h

\* The file of every program is laid out so.
LEMMA ProgramLaid ==
  ASSUME NEW program \in Program
  PROVE  \E at : LaidProgram(ProgramFile(program), program, at)
<1> DEFINE n == Len(program.lines)
           header == Numbers(<<program.priority, program.size>>)
           rest == [k \in DOMAIN program.lines |-> Source(program.lines[k])]
           lines == <<header>> \o rest
           f == ProgramFile(program)
<1>1. /\ program.priority \in Nat /\ program.size \in Nat /\ program.newlines \in Nat
      /\ program.lines \in Seq(ProgramLine)
  BY DEF Program, ProgramLine
<1>2. n \in Nat /\ DOMAIN program.lines = 1 .. n /\ \A k \in 1 .. n : program.lines[k] \in ProgramLine
  BY <1>1
<1>3. AreNumbers(header, <<program.priority, program.size>>)
  <2>1. <<program.priority, program.size>> \in Seq(Int)
    BY <1>1
  <2> QED
    BY <2>1, NumbersAre
<1>4. header \in Seq(Token) /\ Len(header) = 2 /\ header[1] = Num(program.priority)
  <2> HIDE DEF header
  <2>1. Len(<<program.priority, program.size>>) = 2
        /\ <<program.priority, program.size>>[1] = program.priority /\ 1 \in 1 .. 2
    OBVIOUS
  <2> QED
    BY <1>3, <2>1 DEF AreNumbers
<1>5. \A k \in 1 .. n : AreSource(Source(program.lines[k]), program.lines[k])
  BY <1>2, SourceIs
<1>6. rest \in Seq(Seq(Token)) /\ Len(rest) = n
  <2>1. \A k \in 1 .. n : Source(program.lines[k]) \in Seq(Token)
    BY <1>5 DEF AreSource
  <2> QED
    BY <1>2, <2>1
<1>7. \A k \in 1 .. n : rest[k] = Source(program.lines[k])
  BY <1>2
<1> HIDE DEF rest, header, n
<1>8. Headed(lines, header, rest)
  BY <1>4, <1>6, HeadedBy
<1>9. f = Written(lines, program.newlines)
  BY DEF ProgramFile, rest, header
<1> HIDE DEF lines, f
<1>10. f \in Seq(Content) /\ \E b : Laid(f, lines, program.newlines, b)
  <2>1. AreLines(lines)
    BY <1>8 DEF Headed
  <2> QED
    BY <1>1, <1>9, <2>1, Laying
<1>11. PICK b : Laid(f, lines, program.newlines, b)
  BY <1>10
<1>12. Len(lines) = n + 1
  BY <1>6, <1>8 DEF Headed
<1>13. /\ b \in [1 .. n + 1 + 1 -> 1 .. Len(f) + 1]
       /\ b[1] = 1 /\ b[n + 1 + 1] = Len(f) + 1
       /\ \A k \in 1 .. n + 1 :
            /\ b[k + 1] = b[k] + Len(lines[k]) + Gap(lines, program.newlines, k)
            /\ \A j \in 1 .. Len(lines[k]) : f[b[k] + j - 1] = lines[k][j]
            /\ \A i \in b[k] + Len(lines[k]) .. b[k + 1] - 1 : f[i] = Nl
  BY <1>11, <1>12 DEF Laid
<1>14. Len(f) \in Nat
  BY <1>10
<1>15. lines[1] = header /\ \A k \in 1 .. n : lines[k + 1] = Source(program.lines[k])
  BY <1>6, <1>7, <1>8 DEF Headed
<1>16. \A k \in 1 .. n + 1 : Gap(lines, program.newlines, k) \in Nat
  BY <1>1 DEF Gap
<1>17. /\ b[2] \in Nat /\ 3 <= b[2]
       /\ f[1] = Num(program.priority) /\ \A i \in 3 .. b[2] - 1 : f[i] = Nl
  <2>1. 1 \in 1 .. n + 1 /\ 1 + 1 = 2 /\ 1 \in 1 .. 2 /\ 1 + 1 - 1 = 1 /\ 1 + 2 = 3
    BY <1>2 DEF n
  <2>2. PICK g : g = Gap(lines, program.newlines, 1)
    OBVIOUS
  <2>3. g \in Nat
    BY <1>16, <2>1, <2>2
  <2>4. b[2] = 1 + 2 + g
    BY <1>4, <1>13, <1>15, <2>1, <2>2
  <2>5. f[1] = Num(program.priority)
    <3>1. f[b[1] + 1 - 1] = lines[1][1]
      BY <1>4, <1>13, <1>15, <2>1
    <3> QED
      BY <1>4, <1>13, <1>15, <2>1, <3>1
  <2>6. \A i \in 3 .. b[2] - 1 : f[i] = Nl
    BY <1>4, <1>13, <1>15, <2>1
  <2> QED
    BY <2>3, <2>4, <2>5, <2>6
<1> DEFINE at == [k \in 1 .. n + 1 |-> b[k + 1]]
<1>18. ASSUME NEW k \in 1 .. n
       PROVE  /\ LaidLine(f, program.lines[k], at[k], at[k + 1])
              /\ program.newlines > 0 \/ k < n =>
                   at[k] + Len(program.lines[k].numbers) + 1 < at[k + 1]
  <2>1. k \in 1 .. n + 1 /\ k + 1 \in 1 .. n + 1 /\ k + 1 \in 1 .. n + 1 + 1
        /\ k + 1 + 1 \in 1 .. n + 1 + 1 /\ n \in Nat
    BY <1>2 DEF n
  <2>2. PICK m, p, q, g, line, t :
          /\ line = program.lines[k] /\ t = Source(line) /\ m = Len(line.numbers)
          /\ p = b[k + 1] /\ q = b[k + 1 + 1] /\ g = Gap(lines, program.newlines, k + 1)
    OBVIOUS
  <2>3. at[k] = p /\ at[k + 1] = q
    BY <2>1, <2>2
  <2>4. /\ t \in Seq(Token) /\ m \in Nat
        /\ Len(t) = m + 1
        /\ t[1] = Word(line.opcode)
        /\ \A j \in 1 .. m : t[j + 1] = Num(line.numbers[j])
    BY <1>5, <2>2 DEF AreSource
  <2>5. lines[k + 1] = t
    BY <1>15, <2>2
  <2>6. /\ q = p + (m + 1) + g
        /\ \A j \in 1 .. m + 1 : f[p + j - 1] = t[j]
        /\ \A i \in p + (m + 1) .. q - 1 : f[i] = Nl
    <3>1. /\ b[k + 1 + 1] = b[k + 1] + Len(lines[k + 1]) + Gap(lines, program.newlines, k + 1)
          /\ \A j \in 1 .. Len(lines[k + 1]) : f[b[k + 1] + j - 1] = lines[k + 1][j]
          /\ \A i \in b[k + 1] + Len(lines[k + 1]) .. b[k + 1 + 1] - 1 : f[i] = Nl
      BY <1>13, <2>1
    <3>2. Len(lines[k + 1]) = m + 1
      BY <2>4, <2>5
    <3> QED
      BY ONLY <2>2, <2>5, <3>1, <3>2
  <2>7. p \in Nat /\ q \in Nat /\ g \in Nat
    <3>1. g \in Nat
      BY <1>16, <2>1, <2>2
    <3>2. b[k + 1] \in 1 .. Len(f) + 1 /\ b[k + 1 + 1] \in 1 .. Len(f) + 1
      BY <1>13, <2>1
    <3>3. \A x \in 1 .. Len(f) + 1 : x \in Nat
      BY <1>14
    <3> QED
      BY <2>2, <3>1, <3>2, <3>3
  <2>8. f[p] = Word(line.opcode)
    <3>1. 1 \in 1 .. m + 1 /\ p + 1 - 1 = p
      BY <2>4, <2>7
    <3> QED
      BY <2>4, <2>6, <3>1
  <2>9. ASSUME NEW j \in 1 .. m PROVE f[p + j] = Num(line.numbers[j])
    <3>1. j + 1 \in 1 .. m + 1 /\ p + (j + 1) - 1 = p + j
      BY <2>4, <2>7
    <3> QED
      BY <2>4, <2>6, <3>1
  <2>10. p + m + 1 <= q /\ p + (m + 1) = p + m + 1
    BY <2>4, <2>6, <2>7
  <2>11. LaidLine(f, line, p, q)
    BY <2>2, <2>4, <2>6, <2>7, <2>8, <2>9, <2>10 DEF LaidLine
  <2>12. program.newlines > 0 \/ k < n => p + m + 1 < q
    <3>1. program.newlines > 0 \/ k < n => g > 0
      <4>1. k < n => k + 1 < n + 1
        BY <2>1
      <4> QED
        BY <1>1, <1>12, <2>2, <4>1 DEF Gap
    <3> QED
      BY <2>4, <2>6, <2>7, <3>1
  <2> QED
    BY <2>2, <2>3, <2>11, <2>12
<1>19. at[1] = b[2] /\ at[n + 1] = Len(f) + 1
  <2>1. 1 \in 1 .. n + 1 /\ n + 1 \in 1 .. n + 1 /\ 1 + 1 = 2
    BY <1>2 DEF n
  <2> QED
    BY <1>13, <2>1
<1>20. at \in [1 .. n + 1 -> 3 .. Len(f) + 1]
  <2>1. n \in Nat
    BY <1>2 DEF n
  <2>2. \A k \in 1 .. n + 1 : at[k] \in 1 .. Len(f) + 1
    <3>1. \A k \in 1 .. n + 1 : k + 1 \in 1 .. n + 1 + 1
      BY <2>1
    <3> QED
      BY <1>13, <3>1
  <2>3. ASSUME NEW k \in 1 .. n + 1 PROVE 3 <= at[k]
    <3> DEFINE W == {i \in 1 .. n + 1 : ~ (3 <= at[i])}
    <3>1. SUFFICES ASSUME W # {} PROVE FALSE
      OBVIOUS
    <3>2. PICK i \in W : \A j \in W : i \leq j
      <4>1. W \in SUBSET Nat
        OBVIOUS
      <4> HIDE DEF W
      <4> QED
        BY <3>1, <4>1, LeastNumber
    <3>3. i \in 1 .. n + 1 /\ ~ (3 <= at[i])
      OBVIOUS
    <3>4. i # 1
      BY <1>17, <1>19, <3>3
    <3>5. i - 1 \in 1 .. n /\ i - 1 \in 1 .. n + 1 /\ i - 1 + 1 = i /\ ~ (i \leq i - 1)
      BY <2>1, <3>3, <3>4
    <3>6. 3 <= at[i - 1]
      BY <3>2, <3>5
    <3>7. LaidLine(f, program.lines[i - 1], at[i - 1], at[i - 1 + 1])
      BY <1>18, <3>5
    <3> HIDE DEF at
    <3>8. PICK m, p, q : m = Len(program.lines[i - 1].numbers) /\ p = at[i - 1] /\ q = at[i]
      OBVIOUS
    <3>9. p \in Nat /\ q \in Nat /\ m \in Nat /\ p + m + 1 <= q
      <4>1. LaidLine(f, program.lines[i - 1], p, q)
        BY <3>5, <3>7, <3>8
      <4> QED
        BY <3>8, <4>1 DEF LaidLine
    <3>10. 3 <= p /\ ~ (3 <= q)
      BY ONLY <3>3, <3>6, <3>8
    <3> QED
      BY ONLY <3>9, <3>10
  <2> HIDE DEF at
  <2>4. \A k \in 1 .. n + 1 : at[k] \in 3 .. Len(f) + 1
    BY <1>14, <2>2, <2>3
  <2>5. at = [k \in 1 .. n + 1 |-> at[k]]
    BY DEF at
  <2> QED
    BY <2>4, <2>5
<1>21. Len(f) >= 2
  <2>1. 1 \in 1 .. n + 1
    BY <1>2 DEF n
  <2>2. at[1] \in 3 .. Len(f) + 1
    BY <1>20, <2>1
  <2> QED
    BY <1>14, <2>2
<1> HIDE DEF at
<1>22. LaidProgram(f, program, at)
  BY <1>2, <1>10, <1>14, <1>17, <1>18, <1>19, <1>20, <1>21 DEF LaidProgram, n
<1> QED
  BY <1>22 DEF f

\* The first line of the configuration.
LaidHeader(f, config) ==
  /\ f \in Seq(Content) /\ Len(f) \in Nat /\ Len(f) >= 3
  /\ f[1] = Num(2) /\ f[2] = Num(1) /\ f[3] = Num(config.num)

MemorySizes == <<2048, 4096, 0, 0, 0>>

\* Its memory line at s, and line k behind it at at[k].
LaidConfig(f, config, s, at) ==
  LET n == Len(config.lines)
  IN  /\ n \in Nat /\ s \in 4 .. Len(f) + 1
      /\ at \in [1 .. n + 1 -> 1 .. Len(f) + 1]
      /\ at[n + 1] = Len(f) + 1
      /\ \A i \in 4 .. s - 1 : f[i] = Nl
      /\ s + 5 <= at[1]
      /\ \A j \in 1 .. 5 : f[s + j - 1] = Num(MemorySizes[j])
      /\ \A i \in s + 5 .. at[1] - 1 : f[i] = Nl
      /\ \A k \in 1 .. n :
           /\ at[k] + Len(config.lines[k]) <= at[k + 1]
           /\ \A j \in 1 .. Len(config.lines[k]) : f[at[k] + j - 1] = config.lines[k][j]
           /\ \A i \in at[k] + Len(config.lines[k]) .. at[k + 1] - 1 : f[i] = Nl

\* The lines of the file behind the first one, and behind a memory line.
HeadedTwice(all, s, more, rest) ==
  /\ AreLines(all) /\ Len(rest) \in Nat /\ Len(more) \in Nat
  /\ Len(all) = Len(more) + Len(rest) + 1
  /\ all[1] = s
  /\ \A k \in 1 .. Len(more) : all[k + 1] = more[k]
  /\ \A k \in 1 .. Len(rest) : all[Len(more) + k + 1] = rest[k]

\* A first line and some more in front of others.
LEMMA HeadedTwiceBy ==
  ASSUME NEW s, s \in Seq(Token), NEW more, more \in Seq(Seq(Token)),
         NEW rest, rest \in Seq(Seq(Token))
  PROVE  HeadedTwice(<<s>> \o more \o rest, s, more, rest)
<1> DEFINE h == <<s>> \o more
<1>1. Headed(h, s, more)
  BY HeadedBy
<1> HIDE DEF h
<1>2. /\ h \in Seq(Seq(Token)) /\ Len(more) \in Nat
      /\ Len(h) = Len(more) + 1 /\ h[1] = s
      /\ \A k \in 1 .. Len(more) : h[k + 1] = more[k]
  BY <1>1 DEF Headed, AreLines
<1> DEFINE T == Seq(Token)
<1>3. h \in Seq(T) /\ rest \in Seq(T)
  BY <1>2
<1> HIDE DEF T
<1>4. h \o rest \in Seq(T) /\ IsConcat(h \o rest, h, rest)
  BY <1>3, Concatenated
<1>5. PICK a, b, c : a = Len(more) /\ b = Len(rest) /\ c = Len(h \o rest)
  OBVIOUS
<1>6. /\ a \in Nat /\ b \in Nat /\ c = a + 1 + b
      /\ \A j \in 1 .. a + 1 : (h \o rest)[j] = h[j]
      /\ \A j \in 1 .. b : (h \o rest)[a + 1 + j] = rest[j]
  BY <1>2, <1>4, <1>5 DEF IsConcat
<1>7. c = a + b + 1 /\ 1 \in 1 .. a + 1 /\ c # 0
  BY <1>6
<1>8. (h \o rest)[1] = s
  BY <1>2, <1>6, <1>7
<1>9. ASSUME NEW k \in 1 .. a PROVE (h \o rest)[k + 1] = more[k]
  <2>1. k + 1 \in 1 .. a + 1
    BY <1>6
  <2> QED
    BY <1>2, <1>5, <1>6, <2>1
<1>10. ASSUME NEW k \in 1 .. b PROVE (h \o rest)[a + k + 1] = rest[k]
  <2>1. a + 1 + k = a + k + 1
    BY <1>6
  <2> QED
    BY <1>6, <2>1
<1>11. AreLines(h \o rest)
  <2>1. h \o rest # << >>
    BY <1>4, <1>5, <1>7
  <2> QED
    BY <1>4, <2>1 DEF AreLines, T
<1>12. HeadedTwice(h \o rest, s, more, rest)
  BY <1>5, <1>6, <1>7, <1>8, <1>9, <1>10, <1>11 DEF HeadedTwice
<1> QED
  BY <1>12 DEF h

ConfigOK(config) ==
  config.num \in Nat /\ config.newlines \in Nat /\ config.lines \in Seq(Seq(Token))

\* The file of every configuration is laid out so, if it has its memory line.
LEMMA ConfigLaid ==
  ASSUME NEW config, ConfigOK(config)
  PROVE  /\ LaidHeader(ConfigFile(config), config)
         /\ config.memory => \E s, at : LaidConfig(ConfigFile(config), config, s, at)
<1> DEFINE first == Numbers(<<2, 1, config.num>>)
           sizes == Numbers(MemorySizes)
           more == IF config.memory THEN <<sizes>> ELSE << >>
           n == Len(config.lines)
           all == <<first>> \o more \o config.lines
           f == ConfigFile(config)
<1>1. config.num \in Nat /\ config.newlines \in Nat /\ config.lines \in Seq(Seq(Token)) /\ n \in Nat
  BY DEF ConfigOK
<1>2. first \in Seq(Token) /\ Len(first) = 3 /\ first[1] = Num(2) /\ first[2] = Num(1)
      /\ first[3] = Num(config.num)
  <2>1. <<2, 1, config.num>> \in Seq(Int) /\ Len(<<2, 1, config.num>>) = 3
    BY <1>1
  <2>2. <<2, 1, config.num>>[1] = 2 /\ <<2, 1, config.num>>[2] = 1
        /\ <<2, 1, config.num>>[3] = config.num /\ 1 \in 1 .. 3 /\ 2 \in 1 .. 3 /\ 3 \in 1 .. 3
    OBVIOUS
  <2>3. AreNumbers(first, <<2, 1, config.num>>)
    BY <2>1, NumbersAre
  <2> HIDE DEF first
  <2> QED
    BY <2>1, <2>2, <2>3 DEF AreNumbers
<1>3. sizes \in Seq(Token) /\ Len(sizes) = 5 /\ \A j \in 1 .. 5 : sizes[j] = Num(MemorySizes[j])
  <2>1. MemorySizes \in Seq(Int) /\ Len(MemorySizes) = 5
    BY DEF MemorySizes
  <2>2. AreNumbers(sizes, MemorySizes)
    BY <2>1, NumbersAre
  <2> QED
    BY <2>1, <2>2 DEF AreNumbers
<1> HIDE DEF sizes, first
<1>4. more \in Seq(Seq(Token))
  <2>1. <<sizes>> \in Seq(Seq(Token)) /\ << >> \in Seq(Seq(Token))
    BY <1>3
  <2> QED
    BY <2>1
<1>5. HeadedTwice(all, first, more, config.lines)
  <2> HIDE DEF more
  <2>1. config.lines \in Seq(Seq(Token))
    BY <1>1
  <2> QED
    BY <1>2, <1>4, <2>1, HeadedTwiceBy
<1>6. f = Written(all, config.newlines)
  BY DEF ConfigFile, first, sizes, MemorySizes
<1> HIDE DEF all, f
<1>7. f \in Seq(Content) /\ \E b : Laid(f, all, config.newlines, b)
  <2>1. AreLines(all)
    BY <1>5 DEF HeadedTwice
  <2> QED
    BY <1>1, <1>6, <2>1, Laying
<1>8. PICK b : Laid(f, all, config.newlines, b)
  BY <1>7
<1>9. PICK N : N = Len(all)
  OBVIOUS
<1>10. Len(f) \in Nat
  BY <1>7
<1>11. /\ b \in [1 .. N + 1 -> 1 .. Len(f) + 1]
       /\ b[1] = 1 /\ b[N + 1] = Len(f) + 1
       /\ \A k \in 1 .. N :
            /\ b[k + 1] = b[k] + Len(all[k]) + Gap(all, config.newlines, k)
            /\ \A j \in 1 .. Len(all[k]) : f[b[k] + j - 1] = all[k][j]
            /\ \A i \in b[k] + Len(all[k]) .. b[k + 1] - 1 : f[i] = Nl
  BY <1>8, <1>9 DEF Laid
<1>12. /\ Len(more) \in Nat /\ N = Len(more) + n + 1 /\ all[1] = first
       /\ \A k \in 1 .. Len(more) : all[k + 1] = more[k]
       /\ \A k \in 1 .. n : all[Len(more) + k + 1] = config.lines[k]
  BY <1>5, <1>9 DEF HeadedTwice
<1>13. \A k \in 1 .. N : Gap(all, config.newlines, k) \in Nat
  BY <1>1 DEF Gap
<1> HIDE DEF more
<1>14. N \in Nat /\ 1 \in 1 .. N
  <2>1. PICK c : c = Len(more)
    OBVIOUS
  <2> QED
    BY <1>1, <1>12, <2>1
<1>15. /\ b[2] \in Nat /\ 4 <= b[2] /\ b[2] \in 1 .. Len(f) + 1
       /\ f[1] = Num(2) /\ f[2] = Num(1) /\ f[3] = Num(config.num)
       /\ \A i \in 4 .. b[2] - 1 : f[i] = Nl
  <2>1. 1 + 1 = 2 /\ 1 + 3 = 4
    OBVIOUS
  <2>2. PICK g : g = Gap(all, config.newlines, 1)
    OBVIOUS
  <2>3. g \in Nat
    BY <1>13, <1>14, <2>2
  <2>4. b[2] = 1 + 3 + g
    BY <1>2, <1>11, <1>12, <1>14, <2>1, <2>2
  <2>5. \A j \in 1 .. 3 : f[1 + j - 1] = first[j]
    <3>1. \A j \in 1 .. Len(all[1]) : f[b[1] + j - 1] = all[1][j]
      BY <1>11, <1>14
    <3>2. b[1] = 1 /\ all[1] = first /\ Len(first) = 3
      BY <1>2, <1>11, <1>12
    <3> QED
      BY <3>1, <3>2
  <2>6. 1 \in 1 .. 3 /\ 2 \in 1 .. 3 /\ 3 \in 1 .. 3
    OBVIOUS
  <2>7. f[1] = first[1] /\ f[2] = first[2] /\ f[3] = first[3]
    <3>1. \A j \in 1 .. 3 : 1 + j - 1 = j
      OBVIOUS
    <3>2. \A j \in 1 .. 3 : f[j] = first[j]
      BY <2>5, <3>1
    <3> QED
      BY <2>6, <3>2
  <2>8. \A i \in 4 .. b[2] - 1 : f[i] = Nl
    <3>1. \A i \in b[1] + Len(all[1]) .. b[1 + 1] - 1 : f[i] = Nl
      BY <1>11, <1>14
    <3>2. b[1] + Len(all[1]) = 4 /\ b[1 + 1] = b[2]
      BY <1>2, <1>11, <1>12, <2>1
    <3> HIDE <1>11
    <3> QED
      BY <3>1, <3>2
  <2>9. 1 + 1 \in 1 .. N + 1
    BY <1>14
  <2>10. b[2] \in 1 .. Len(f) + 1
    BY <1>11, <2>1, <2>9
  <2> QED
    BY <1>2, <2>3, <2>4, <2>7, <2>8, <2>10
<1>16. LaidHeader(f, config)
  <2>1. Len(f) >= 3
    BY <1>10, <1>15
  <2> QED
    BY <1>7, <1>10, <1>15, <2>1 DEF LaidHeader
<1>17. ASSUME config.memory PROVE \E s, at : LaidConfig(f, config, s, at)
  <2>1. Len(more) = 1 /\ more[1] = sizes
    BY <1>17 DEF more
  <2>2. N = n + 2 /\ all[2] = sizes /\ \A k \in 1 .. n : all[k + 2] = config.lines[k]
    <3>1. 1 + n + 1 = n + 2 /\ 1 \in 1 .. 1 /\ 1 + 1 = 2 /\ \A k \in 1 .. n : 1 + k + 1 = k + 2
      BY <1>1
    <3> QED
      BY <1>12, <2>1, <3>1
  <2> DEFINE at == [k \in 1 .. n + 1 |-> b[k + 2]]
  <2>3. ASSUME NEW k \in 1 .. n + 1 PROVE k + 2 \in 1 .. N + 1 /\ at[k] = b[k + 2]
    BY <1>1, <2>2
  <2>4. at \in [1 .. n + 1 -> 1 .. Len(f) + 1]
    BY <1>11, <2>3
  <2>5. at[n + 1] = Len(f) + 1 /\ at[1] = b[3]
    <3>1. n + 1 \in 1 .. n + 1 /\ 1 \in 1 .. n + 1 /\ 1 + 2 = 3 /\ n + 1 + 2 = N + 1
      BY <1>1, <2>2
    <3> QED
      BY <1>11, <2>3, <3>1
  <2> HIDE DEF at
  <2>6. /\ b[2] + 5 <= at[1]
        /\ \A j \in 1 .. 5 : f[b[2] + j - 1] = Num(MemorySizes[j])
        /\ \A i \in b[2] + 5 .. at[1] - 1 : f[i] = Nl
    <3>1. 2 \in 1 .. N /\ 2 + 1 = 3
      BY <1>1, <2>2
    <3>2. PICK g : g = Gap(all, config.newlines, 2)
      OBVIOUS
    <3>3. g \in Nat
      BY <1>13, <3>1, <3>2
    <3>4. b[3] = b[2] + 5 + g
      BY <1>3, <1>11, <2>2, <3>1, <3>2
    <3>5. \A j \in 1 .. 5 : f[b[2] + j - 1] = sizes[j]
      BY <1>3, <1>11, <2>2, <3>1
    <3>6. \A i \in b[2] + 5 .. b[3] - 1 : f[i] = Nl
      BY <1>3, <1>11, <2>2, <3>1
    <3>7. b[2] + 5 <= b[3]
      BY <1>15, <3>3, <3>4
    <3>8. \A j \in 1 .. 5 : sizes[j] = Num(MemorySizes[j])
      BY <1>3
    <3> QED
      BY <2>5, <3>5, <3>6, <3>7, <3>8
  <2>7. ASSUME NEW k \in 1 .. n
        PROVE  /\ at[k] + Len(config.lines[k]) <= at[k + 1]
               /\ \A j \in 1 .. Len(config.lines[k]) : f[at[k] + j - 1] = config.lines[k][j]
               /\ \A i \in at[k] + Len(config.lines[k]) .. at[k + 1] - 1 : f[i] = Nl
    <3>1. k \in 1 .. n + 1 /\ k + 1 \in 1 .. n + 1 /\ k + 2 \in 1 .. N /\ k + 1 + 2 = k + 2 + 1
      BY <1>1, <2>2
    <3>2. PICK p, q, g, l, line : /\ p = at[k] /\ q = at[k + 1] /\ g = Gap(all, config.newlines, k + 2)
                                  /\ line = config.lines[k] /\ l = Len(line)
      OBVIOUS
    <3>3. p = b[k + 2] /\ q = b[k + 2 + 1]
      BY <2>3, <3>1, <3>2
    <3>4. all[k + 2] = line
      BY <2>2, <3>2
    <3>5. /\ q = p + l + g
          /\ \A j \in 1 .. l : f[p + j - 1] = line[j]
          /\ \A i \in p + l .. q - 1 : f[i] = Nl
      BY <1>11, <3>1, <3>2, <3>3, <3>4
    <3>6. g \in Nat /\ p \in Nat /\ l \in Nat
      <4>1. p \in 1 .. Len(f) + 1
        BY <2>4, <3>1, <3>2
      <4>2. line \in Seq(Token)
        BY <1>1, <3>2
      <4>3. p \in Nat
        BY <1>10, <4>1
      <4>4. l \in Nat
        BY <3>2, <4>2
      <4>5. g \in Nat
        BY <1>13, <3>1, <3>2
      <4> QED
        BY <4>3, <4>4, <4>5
    <3>7. p + l <= q
      BY <3>5, <3>6
    <3> QED
      BY <3>2, <3>5, <3>7
  <2>8. b[2] \in 4 .. Len(f) + 1
    BY <1>10, <1>15
  <2>9. LaidConfig(f, config, b[2], at)
    BY <1>1, <1>15, <2>4, <2>5, <2>6, <2>7, <2>8 DEF LaidConfig
  <2> QED
    BY <2>9
<1> QED
  BY <1>16, <1>17 DEF f

-----------------------------------------------------------------------------
(* One line of a program *)

\* The open file is program's.
Opened(program, at) ==
  /\ program \in Program
  /\ FileOK
  /\ LaidProgram(file, program, at)

\* The fields of a program.
LEMMA ProgramTyped ==
  ASSUME NEW program \in Program
  PROVE  /\ program.priority \in Nat /\ program.size \in Nat /\ program.newlines \in Nat
         /\ Len(program.lines) \in Nat /\ DOMAIN program.lines = 1 .. Len(program.lines)
         /\ \A k \in 1 .. Len(program.lines) :
              /\ program.lines[k].opcode \in Words
              /\ program.lines[k].numbers \in Seq(Int)
<1>1. /\ program.priority \in Nat /\ program.size \in Nat /\ program.newlines \in Nat
      /\ program.lines \in Seq(ProgramLine)
  BY DEF Program, ProgramLine
<1>2. \A k \in 1 .. Len(program.lines) : program.lines[k] \in ProgramLine
  BY <1>1
<1> QED
  BY <1>1, <1>2 DEF ProgramLine

\* Where a line begins there is no white space.
Begins(f, p) ==
  /\ p \in 3 .. Len(f) + 1
  /\ p > Len(f) \/ \E w \in Words : f[p] = Word(w) /\ Word(w) # Nl /\ Word(w).text # ""

\* What stands where a line of a program begins, or behind the last one.
LEMMA LaidBegins ==
  ASSUME NEW program \in Program, NEW f, NEW at, LaidProgram(f, program, at),
         NEW k \in 1 .. Len(program.lines) + 1
  PROVE  Begins(f, at[k])
<1> DEFINE n == Len(program.lines)
<1>1. n \in Nat /\ at[k] \in 3 .. Len(f) + 1 /\ at[n + 1] = Len(f) + 1 /\ Len(f) \in Nat
  BY DEF LaidProgram
<1>2. CASE k = n + 1
  <2>1. at[k] = Len(f) + 1 /\ Len(f) + 1 > Len(f)
    BY <1>1, <1>2
  <2> QED
    BY <1>1, <2>1 DEF Begins
<1>3. CASE k # n + 1
  <2>1. k \in 1 .. n
    BY <1>1, <1>3
  <2>2. LaidLine(f, program.lines[k], at[k], at[k + 1])
    BY <2>1 DEF LaidProgram
  <2>3. f[at[k]] = Word(program.lines[k].opcode)
    BY <2>2 DEF LaidLine
  <2>4. PICK w \in Words : f[at[k]] = Word(w)
    BY <2>1, <2>3, ProgramTyped
  <2>5. w # "" /\ w # "\n"
    BY LoaderAssumption
  <2>6. Word(w).text = w /\ Nl.text = "\n"
    BY DEF Word, Nl
  <2>7. Word(w) # Nl /\ Word(w).text # ""
    BY <2>5, <2>6
  <2> QED
    BY <1>1, <2>4, <2>7 DEF Begins
<1> QED
  BY <1>2, <1>3

\* No number stands where a line begins or the file ends.
LEMMA LineBegins ==
  ASSUME NEW program, NEW at, Opened(program, at), NEW k \in 1 .. Len(program.lines) + 1
  PROVE  /\ at[k] \in 3 .. Len(file) + 1
         /\ Eof(at[k]) \/ file[at[k]] # Nl
         /\ ~ IsNumber(at[k])
<1>1. PICK f : f = file
  OBVIOUS
<1>2. program \in Program /\ LaidProgram(f, program, at)
  BY <1>1 DEF Opened
<1>3. Begins(f, at[k])
  BY <1>2, LaidBegins
<1> QED
  BY <1>1, <1>3 DEF Begins, IsNumber, Eof

\* White space before a line.
LEMMA SkipsToLine ==
  ASSUME NEW program, NEW at, Opened(program, at), NEW k \in 1 .. Len(program.lines) + 1,
         NEW p \in 1 .. at[k], \A i \in p .. at[k] - 1 : file[i] = Nl
  PROVE  /\ Skips(p, at[k])
         /\ p \in 1 .. Len(file) + 1
         /\ skip_space(p) = at[k]
<1>1. Len(file) \in Nat /\ FileOK
  BY FileTokens DEF Opened
<1>2. at[k] \in 3 .. Len(file) + 1 /\ (Eof(at[k]) \/ file[at[k]] # Nl)
  BY LineBegins
<1>3. at[k] \in p .. Len(file) + 1 /\ p \in 1 .. Len(file) + 1
  BY <1>1, <1>2
<1>4. Skips(p, at[k])
  BY <1>2, <1>3 DEF Skips
<1> QED
  BY <1>1, <1>3, <1>4, SkipIs

\* Line k with its m numbers is at p, and the next one at q.
LinePlaced(program, k, p, q, m) ==
  /\ p \in 3 .. Len(file) /\ q \in 3 .. Len(file) + 1 /\ m \in Nat /\ p + m + 1 <= q
  /\ file[p] = Word(program.lines[k].opcode)
  /\ \A j \in 1 .. m : file[p + j] = Num(program.lines[k].numbers[j])
  /\ \A i \in p + m + 1 .. q - 1 : file[i] = Nl
  /\ k + 1 \in 1 .. Len(program.lines) + 1
  /\ program.newlines > 0 \/ k < Len(program.lines) => p + m + 1 < q
  /\ k = Len(program.lines) => q = Len(file) + 1

\* A line of the open program and the white space behind it.
LEMMA LinePlaces ==
  ASSUME NEW program, NEW at, Opened(program, at), NEW k \in 1 .. Len(program.lines)
  PROVE  LinePlaced(program, k, at[k], at[k + 1], Len(program.lines[k].numbers))
<1>0. PICK p, q, m : p = at[k] /\ q = at[k + 1] /\ m = Len(program.lines[k].numbers)
  OBVIOUS
<1>1. Len(file) \in Nat /\ Len(program.lines) \in Nat
  BY DEF Opened, LaidProgram
<1>2. k \in 1 .. Len(program.lines) + 1 /\ k + 1 \in 1 .. Len(program.lines) + 1
  BY <1>1
<1>3. p \in 3 .. Len(file) + 1 /\ q \in 3 .. Len(file) + 1
  BY <1>0, <1>2, LineBegins
<1>4. /\ LaidLine(file, program.lines[k], p, q)
      /\ program.newlines > 0 \/ k < Len(program.lines) => p + m + 1 < q
  BY <1>0 DEF Opened, LaidProgram
<1>5. /\ m \in Nat /\ p + m + 1 <= q
      /\ file[p] = Word(program.lines[k].opcode)
      /\ \A j \in 1 .. m : file[p + j] = Num(program.lines[k].numbers[j])
      /\ \A i \in p + m + 1 .. q - 1 : file[i] = Nl
  BY <1>0, <1>4 DEF LaidLine
<1>6. p \in 3 .. Len(file)
  BY <1>1, <1>3, <1>5
<1>7. k = Len(program.lines) => q = Len(file) + 1
  BY <1>0 DEF Opened, LaidProgram
<1>8. LinePlaced(program, k, p, q, m)
  BY <1>2, <1>3, <1>4, <1>5, <1>6, <1>7 DEF LinePlaced
<1> QED
  BY <1>0, <1>8

\* fscanf behind the word finds the numbers of the line, and stops at the next one.
LEMMA LineNumbers ==
  ASSUME NEW program, NEW at, Opened(program, at), NEW k \in 1 .. Len(program.lines),
         NEW n \in Nat, Len(program.lines[k].numbers) <= n
  PROVE  NumbersAt(at[k] + 1, program.lines[k].numbers, n, at[k + 1])
<1> DEFINE ns == program.lines[k].numbers
<1>1. PICK p, q, m : p = at[k] /\ q = at[k + 1] /\ m = Len(ns)
  OBVIOUS
<1>2. /\ p \in 3 .. Len(file) /\ q \in 3 .. Len(file) + 1 /\ m \in Nat /\ p + m + 1 <= q
      /\ \A j \in 1 .. m : file[p + j] = Num(ns[j])
      /\ \A i \in p + m + 1 .. q - 1 : file[i] = Nl
      /\ k + 1 \in 1 .. Len(program.lines) + 1
  <2>1. LinePlaced(program, k, p, q, m)
    BY <1>1, LinePlaces
  <2> QED
    BY <2>1 DEF LinePlaced
<1>3. Len(file) \in Nat
  BY FileTokens DEF Opened
<1>4. ASSUME NEW j \in 1 .. m
      PROVE  p + 1 + j - 1 \in 1 .. Len(file) /\ file[p + 1 + j - 1] = Num(ns[j])
  <2>1. p + 1 + j - 1 = p + j /\ p + j \in 1 .. Len(file)
    BY <1>2, <1>3
  <2> QED
    BY <1>2, <2>1
<1>5. p + 1 + m = p + m + 1 /\ p + m + 1 \in 1 .. q
  BY <1>2, <1>3
<1>6. skip_space(p + m + 1) = q /\ p + m + 1 \in 1 .. Len(file) + 1
  <2>1. PICK c, l : c = p + m + 1 /\ l = k + 1
    OBVIOUS
  <2>2. /\ l \in 1 .. Len(program.lines) + 1 /\ q = at[l] /\ c \in 1 .. at[l]
        /\ \A i \in c .. at[l] - 1 : file[i] = Nl
    BY <1>1, <1>2, <1>5, <2>1
  <2>3. skip_space(c) = at[l] /\ c \in 1 .. Len(file) + 1
    BY <2>2, SkipsToLine
  <2> QED
    BY <2>1, <2>2, <2>3
<1>7. ~ IsNumber(q)
  BY <1>1, <1>2, LineBegins
<1>8. m \in 0 .. n
  BY <1>1, <1>2
<1>9. /\ \A j \in 1 .. m : p + 1 + j - 1 \in 1 .. Len(file) /\ file[p + 1 + j - 1] = Num(ns[j])
      /\ p + 1 + m \in 1 .. Len(file) + 1 /\ q = skip_space(p + 1 + m)
  BY <1>4, <1>5, <1>6
<1> HIDE DEF ns
<1>10. NumbersAt(p + 1, ns, n, q)
  BY <1>1, <1>7, <1>8, <1>9 DEF NumbersAt
<1> QED
  BY <1>1, <1>10 DEF ns

\* Only the first four of the stored numbers count.
LEMMA SameInstruction ==
  ASSUME NEW op, NEW s, NEW t,
         \A k \in 1 .. 4 : /\ k \in DOMAIN s <=> k \in DOMAIN t
                           /\ k \in DOMAIN s => s[k] = t[k]
  PROVE  Instruction(op, s) = Instruction(op, t)
BY DEF Instruction

\* Behind the word at p fscanf stores ns and stops at q.
StoresNumbers(p, q, n, op, ns) ==
  /\ fscanf_numbers(p + 1, n).pos = q
  /\ Instruction(op, fscanf_numbers(p + 1, n).stored) = Instruction(op, ns)

\* For a line with no more numbers than n these are the numbers of the line.
LEMMA LineInstruction ==
  ASSUME NEW program, NEW at, Opened(program, at), NEW k \in 1 .. Len(program.lines),
         NEW op, NEW n \in Nat, Len(program.lines[k].numbers) <= n
  PROVE  StoresNumbers(at[k], at[k + 1], n, op, program.lines[k].numbers)
<1> DEFINE ns == program.lines[k].numbers
           r == fscanf_numbers(at[k] + 1, n)
<1>1. NumbersAt(at[k] + 1, ns, n, at[k + 1])
  BY LineNumbers
<1>2. ns \in Seq(Int)
  BY ProgramTyped DEF Opened
<1>3. at[k] + 1 \in 1 .. Len(file) + 1 /\ FileOK
  <2>1. PICK p : p = at[k]
    OBVIOUS
  <2>2. p \in 3 .. Len(file) /\ Len(file) \in Nat
    BY <2>1, LinePlaces, FileTokens DEF Opened, LinePlaced
  <2>3. p + 1 \in 1 .. Len(file) + 1
    BY <2>2
  <2> QED
    BY <2>1, <2>3 DEF Opened
<1>4. r.pos = at[k + 1] /\ DOMAIN r.stored = 1 .. Len(ns)
      /\ \A j \in 1 .. Len(ns) : r.stored[j] = ns[j]
  <2> HIDE DEF ns
  <2> QED
    BY <1>1, <1>2, <1>3, NumbersRead
<1>5. DOMAIN ns = 1 .. Len(ns)
  BY <1>2
<1> HIDE DEF ns, r
<1>6. Instruction(op, r.stored) = Instruction(op, ns)
  BY <1>4, <1>5, SameInstruction
<1> QED
  BY <1>4, <1>6 DEF ns, r, StoresNumbers

\* A system call takes its line to the end: the numbers, and the newline if there is one.
SyscallLine(program, k, p, q) ==
  /\ ~ Eof(p + 1) /\ p + 1 \in 1 .. Len(file) + 1
  /\ end_of_line(p + 1) \in 1 .. q
  /\ \A i \in end_of_line(p + 1) .. q - 1 : file[i] = Nl
  /\ Instruction("syscall", sscanf_numbers(SubSeq(file, p + 1, end_of_line(p + 1) - 1)))
       = Instruction("syscall", program.lines[k].numbers)

IsPart(t, s, a, b) ==
  /\ DOMAIN t = 1 .. b - a + 1
  /\ \A i \in 1 .. b - a + 1 : t[i] = s[a + i - 1]

\* What SubSeq cuts out.
LEMMA Part ==
  ASSUME NEW S, NEW s \in Seq(S), NEW a \in 1 .. Len(s), NEW b \in a .. Len(s)
  PROVE  IsPart(SubSeq(s, a, b), s, a, b)
<1>1. Len(s) \in Nat
  OBVIOUS
<1>2. Len(SubSeq(s, a, b)) = b - a + 1 /\ SubSeq(s, a, b) \in Seq(S)
  BY <1>1
<1>3. \A i \in 1 .. b - a + 1 : SubSeq(s, a, b)[i] = s[a + i - 1]
  BY <1>1
<1> QED
  BY <1>2, <1>3 DEF IsPart

\* A system call in order (LineInOrder) keeps to its line: fgets takes the numbers
\* and at most newlines, and sscanf finds the numbers (loader.c:87-94).
LEMMA SyscallRead ==
  ASSUME NEW program, NEW at, Opened(program, at), NEW k \in 1 .. Len(program.lines),
         \/ program.lines[k].numbers # << >>
         \/ program.newlines > 0
         \/ k < Len(program.lines)
  PROVE  SyscallLine(program, k, at[k], at[k + 1])
<1> DEFINE ns == program.lines[k].numbers
<1>0. ns \in Seq(Int)
  BY ProgramTyped DEF Opened
<1>1. PICK p, q, m : p = at[k] /\ q = at[k + 1] /\ m = Len(ns)
  OBVIOUS
<1>2. LinePlaced(program, k, p, q, m)
  BY <1>1, LinePlaces
<1>3. /\ p \in 3 .. Len(file) /\ q \in 3 .. Len(file) + 1 /\ m \in Nat /\ p + m + 1 <= q
      /\ \A j \in 1 .. m : file[p + j] = Num(ns[j])
      /\ \A i \in p + m + 1 .. q - 1 : file[i] = Nl
      /\ program.newlines > 0 \/ k < Len(program.lines) => p + m + 1 < q
      /\ k = Len(program.lines) => q = Len(file) + 1
  BY <1>2 DEF LinePlaced
<1>4. Len(file) \in Nat /\ file \in Seq(Content) /\ FileOK
  BY FileTokens DEF Opened, FileOK
<1>5. Len(program.lines) \in Nat
  BY ProgramTyped DEF Opened
<1>6. m > 0 \/ p + m + 1 < q
  <2>1. ns # << >> => m > 0
    BY <1>0, <1>1, <1>3
  <2> QED
    BY <1>3, <2>1
<1>7. p + m + 1 < q \/ q = Len(file) + 1
  <2>1. k < Len(program.lines) \/ k = Len(program.lines)
    BY <1>5
  <2> QED
    BY <1>3, <2>1
<1> DEFINE end == IF p + m + 1 < q THEN p + m + 2 ELSE Len(file) + 1
<1>8. /\ end \in p + 2 .. Len(file) + 1 /\ end <= q /\ end - 1 \in p + m .. p + m + 1
      /\ end <= p + m + 2 /\ end > p + m
  BY <1>3, <1>4, <1>6, <1>7
<1>9. ~ Eof(p + 1) /\ p + 1 \in 1 .. Len(file) + 1
  BY <1>3, <1>4, <1>8 DEF Eof
<1>10. \A j \in 1 .. m : file[p + j] # Nl /\ file[p + j].text = "" /\ file[p + j].number = ns[j]
  <2> SUFFICES ASSUME NEW j \in 1 .. m
               PROVE  file[p + j] # Nl /\ file[p + j].text = "" /\ file[p + j].number = ns[j]
    OBVIOUS
  <2>1. file[p + j] = Num(ns[j])
    BY <1>3
  <2>2. Num(ns[j]).text = "" /\ Num(ns[j]).number = ns[j]
    BY DEF Num
  <2>3. Nl.text # ""
    BY DEF Nl
  <2> QED
    BY <2>1, <2>2, <2>3
<1>11. Ends(p + 1, end)
  <2>1. end \in p + 1 .. Len(file) + 1 /\ end > p + 1
    BY <1>3, <1>4, <1>8
  <2>2. Eof(end) \/ file[end - 1] = Nl
    <3>1. CASE p + m + 1 < q
      <4>1. end - 1 = p + m + 1 /\ p + m + 1 \in p + m + 1 .. q - 1
        BY <1>3, <1>4, <3>1
      <4> QED
        BY <1>3, <4>1
    <3>2. CASE ~ (p + m + 1 < q)
      <4>1. end > Len(file)
        BY <1>4, <3>2
      <4> QED
        BY <4>1 DEF Eof
    <3> QED
      BY <3>1, <3>2
  <2>3. ASSUME NEW j \in p + 1 + 1 .. end - 1 PROVE file[j - 1] # Nl
    <3>1. j - 1 - p \in 1 .. m /\ p + (j - 1 - p) = j - 1
      BY <1>3, <1>4, <1>8
    <3> QED
      BY <1>10, <3>1
  <2> HIDE DEF end
  <2> QED
    BY <2>1, <2>2, <2>3 DEF Ends
<1>12. \A i \in end .. q - 1 : file[i] = Nl
  <2>1. \A i \in end .. q - 1 : i \in p + m + 1 .. q - 1
    BY <1>3, <1>4, <1>8
  <2> QED
    BY <1>3, <2>1
<1> HIDE DEF end, ns
<1>13. end_of_line(p + 1) = end
  BY <1>4, <1>9, <1>11, EndIs
<1> DEFINE t == SubSeq(file, p + 1, end - 1)
<1>14. IsPart(t, file, p + 1, end - 1)
  <2>1. p + 1 \in 1 .. Len(file) /\ end - 1 \in p + 1 .. Len(file)
    BY <1>3, <1>4, <1>8
  <2> HIDE DEF t
  <2> QED
    BY <1>4, <2>1, Part DEF t
<1>15. PICK l : l = end - 1 - (p + 1) + 1
  OBVIOUS
<1>16. l \in m .. m + 1 /\ l \in Nat /\ p + 1 + l = end
  BY <1>3, <1>4, <1>8, <1>15
<1>17. DOMAIN t = 1 .. l /\ \A i \in 1 .. l : t[i] = file[p + i]
  <2>1. \A i \in 1 .. l : p + 1 + i - 1 = p + i
    BY <1>3, <1>4
  <2> HIDE DEF t
  <2> QED
    BY <1>14, <1>15, <2>1 DEF IsPart
<1> HIDE DEF t
<1>18. l = m + 1 => file[p + l].text # ""
  <2>1. SUFFICES ASSUME l = m + 1 PROVE file[p + l].text # ""
    OBVIOUS
  <2>2. p + l = end - 1 /\ end = p + m + 2
    BY <1>3, <1>4, <1>16, <2>1
  <2>3. p + l \in p + m + 1 .. q - 1
    BY <1>3, <1>4, <1>8, <2>1, <2>2
  <2>4. file[p + l] = Nl
    BY <1>3, <2>3
  <2> QED
    BY <2>4 DEF Nl
<1>19. ASSUME NEW i \in 1 .. 4
       PROVE  (\A j \in 1 .. i : j \in DOMAIN t /\ t[j].text = "") <=> i \in 1 .. m
  <2>1. ASSUME i \in 1 .. m PROVE \A j \in 1 .. i : j \in DOMAIN t /\ t[j].text = ""
    <3> SUFFICES ASSUME NEW j \in 1 .. i PROVE j \in DOMAIN t /\ t[j].text = ""
      OBVIOUS
    <3>1. j \in 1 .. m /\ j \in 1 .. l
      BY <1>3, <1>16, <2>1
    <3> QED
      BY <1>10, <1>17, <3>1
  <2>2. ASSUME i \notin 1 .. m, \A j \in 1 .. i : j \in DOMAIN t /\ t[j].text = "" PROVE FALSE
    <3>0. m \in Nat /\ i \in 1 .. 4 /\ i \notin 1 .. m
      BY <1>3, <2>2
    <3>1. m + 1 \in 1 .. i
      BY ONLY <3>0
    <3>2. m + 1 \in 1 .. l /\ t[m + 1].text = ""
      BY <1>17, <2>2, <3>1
    <3>3. l = m + 1
      <4>1. m + 1 \in 1 .. l /\ l \in m .. m + 1
        BY <1>16, <3>2
      <4> QED
        BY ONLY <3>0, <4>1
    <3>4. t[m + 1] = file[p + l]
      BY <1>17, <3>2, <3>3
    <3> QED
      BY <1>18, <3>2, <3>3, <3>4
  <2> QED
    BY <2>1, <2>2
<1> DEFINE read == {i \in 1 .. 4 : \A j \in 1 .. i : j \in DOMAIN t /\ t[j].text = ""}
<1>20. sscanf_numbers(t) = [i \in read |-> t[i].number]
  BY DEF sscanf_numbers
<1>21. \A i \in 1 .. 4 : i \in read <=> i \in 1 .. m
  BY <1>19
<1> HIDE DEF read
<1>22. \A i \in 1 .. 4 : i \in read => t[i].number = ns[i]
  <2>1. \A i \in 1 .. m : i \in 1 .. l
    BY <1>3, <1>16
  <2> QED
    BY <1>10, <1>17, <1>21, <2>1
<1>23. DOMAIN ns = 1 .. m
  BY <1>0, <1>1
<1>24. Instruction("syscall", sscanf_numbers(t)) = Instruction("syscall", ns)
  BY <1>20, <1>21, <1>22, <1>23, SameInstruction
<1>25. end \in 1 .. q
  BY <1>3, <1>4, <1>8
<1>26. SyscallLine(program, k, p, q)
  BY <1>9, <1>12, <1>13, <1>24, <1>25 DEF SyscallLine, t, ns
<1> QED
  BY <1>1, <1>26

\* Where the file ends nothing is left to read.
LEMMA PastEnd ==
  ASSUME FileOK, NEW p, p = Len(file) + 1, NEW op, NEW n \in Nat
  PROVE  /\ skip_space(p) = p /\ end_of_line(p) = p /\ Eof(p)
         /\ fscanf_numbers(p, n).pos = p
         /\ Instruction(op, fscanf_numbers(p, n).stored) = Instruction(op, << >>)
<1>1. Len(file) \in Nat
  BY FileTokens
<1>2. p \in 1 .. Len(file) + 1 /\ Eof(p) /\ p + 0 = p /\ 0 \in 0 .. n
  BY <1>1 DEF Eof
<1>3. skip_space(p) = p
  BY <1>2, SkipsNothing
<1>4. Ends(p, p)
  BY <1>1, <1>2 DEF Ends
<1>5. end_of_line(p) = p
  BY <1>2, <1>4, EndIs
<1>6. PICK ns : ns = << >>
  OBVIOUS
<1>7. ns \in Seq(Int) /\ Len(ns) = 0 /\ DOMAIN ns = {}
  BY <1>6
<1>8. NumbersAt(p, ns, n, p)
  <2>1. Len(ns) \in 0 .. n /\ p + Len(ns) = p /\ 1 .. Len(ns) = {}
    BY <1>2, <1>7
  <2>2. ~ IsNumber(p)
    BY <1>2 DEF IsNumber
  <2> QED
    BY <1>2, <1>3, <2>1, <2>2 DEF NumbersAt
<1>9. fscanf_numbers(p, n).pos = p /\ DOMAIN fscanf_numbers(p, n).stored = 1 .. Len(ns)
  <2>1. PICK e, q : e = p /\ q = p
    OBVIOUS
  <2>2. q \in 1 .. Len(file) + 1 /\ NumbersAt(q, ns, n, e)
    BY <1>2, <1>8, <2>1
  <2>3. ns \in Seq(Int)
    BY <1>7
  <2>4. fscanf_numbers(q, n).pos = e /\ DOMAIN fscanf_numbers(q, n).stored = 1 .. Len(ns)
    BY <2>2, <2>3, NumbersRead
  <2> QED
    BY <2>1, <2>4
<1>10. Instruction(op, fscanf_numbers(p, n).stored) = Instruction(op, ns)
  BY <1>7, <1>9, SameInstruction
<1> QED
  BY <1>2, <1>3, <1>5, <1>6, <1>9, <1>10

-----------------------------------------------------------------------------
(* What the variables hold *)

IsSeq(s) == s \in Seq({s[k] : k \in DOMAIN s})

\* t is s with x behind it.
Appended(s, x, t) ==
  /\ IsSeq(t) /\ Len(s) \in Nat /\ Len(t) = Len(s) + 1
  /\ DOMAIN s = 1 .. Len(s) /\ DOMAIN t = 1 .. Len(s) + 1
  /\ \A k \in 1 .. Len(s) : t[k] = s[k]
  /\ t[Len(s) + 1] = x

\* The domain of a sequence.
LEMMA SeqLen ==
  ASSUME NEW s, IsSeq(s)
  PROVE  Len(s) \in Nat /\ DOMAIN s = 1 .. Len(s)
BY DEF IsSeq

\* Nothing read yet.
LEMMA EmptySeq == IsSeq(<< >>) /\ Len(<< >>) = 0
<1>1. << >> \in Seq({<< >>[k] : k \in DOMAIN << >>})
  OBVIOUS
<1> QED
  BY <1>1 DEF IsSeq

\* What Append does.
LEMMA AppendIs ==
  ASSUME NEW s, IsSeq(s), NEW x
  PROVE  Appended(s, x, Append(s, x))
<1> DEFINE S == {s[k] : k \in DOMAIN s}
           U == S \cup {x}
           t == Append(s, x)
<1>1. s \in Seq(S)
  BY DEF IsSeq
<1> HIDE DEF S
<1>2. s \in Seq(U) /\ x \in U
  BY <1>1
<1> HIDE DEF U
<1>3. /\ t \in Seq(U) /\ Len(s) \in Nat /\ Len(t) = Len(s) + 1
      /\ DOMAIN s = 1 .. Len(s) /\ DOMAIN t = 1 .. Len(s) + 1
  BY <1>2
<1>4. (\A k \in 1 .. Len(s) : t[k] = s[k]) /\ t[Len(s) + 1] = x
  BY <1>2, <1>3
<1>5. IsSeq(t)
  <2> HIDE DEF t
  <2> DEFINE V == {t[k] : k \in DOMAIN t}
  <2>1. \A k \in 1 .. Len(t) : t[k] \in V
    BY <1>3
  <2>2. t = [k \in 1 .. Len(t) |-> t[k]] /\ Len(t) \in Nat
    BY <1>3
  <2> HIDE DEF V
  <2>3. t \in Seq(V)
    BY <2>1, <2>2
  <2> QED
    BY <2>3 DEF IsSeq, V
<1> QED
  BY <1>3, <1>4, <1>5 DEF Appended

\* TypeOK, and what the variables of one stage have to do with each other.
Types ==
  /\ TypeOK
  /\ input \in Inputs /\ FileOK
  /\ IsSeq(ld_processes) /\ IsSeq(text) /\ IsSeq(loaded)
  /\ stage = "config" => file = ConfigFile(input.config) /\ loaded = << >>
  /\ num_processes = GARBAGE => stage = "config" /\ pos = 1 /\ ld_processes = << >>
  /\ num_processes # GARBAGE => num_processes = input.config.num
  /\ stage # "config" => Len(ld_processes) = num_processes
  /\ stage = "text" =>
       /\ Len(loaded) < num_processes
       /\ ld_processes[Len(loaded) + 1].path \in DOMAIN input.disk
       /\ file = ProgramFile(Current) /\ code_size = Current.size

\* What LoaderAssumption says of one input.
LEMMA InputOK ==
  ASSUME NEW i \in Inputs
  PROVE  /\ ConfigOK(i.config) /\ i.config.num \in Nat
         /\ \A name \in DOMAIN i.disk : i.disk[name] \in Program
BY LoaderAssumption DEF ConfigOK

\* Types holds at the start.
LEMMA TypesInit == Init => Types
<1> SUFFICES ASSUME Init PROVE Types
  OBVIOUS
<1>1. /\ input \in Inputs /\ stage = "config" /\ file = ConfigFile(input.config) /\ pos = 1
      /\ num_processes = GARBAGE /\ ld_processes = << >> /\ text = << >> /\ loaded = << >>
  BY DEF Init
<1>2. LaidHeader(ConfigFile(input.config), input.config)
  BY <1>1, InputOK, ConfigLaid
<1>3. FileOK /\ Len(file) \in Nat
  BY <1>1, <1>2 DEF LaidHeader, FileOK
<1>4. 1 \in 1 .. Len(file) + 1
  BY <1>3
<1>5. TypeOK
  BY <1>1, <1>4, EmptySeq DEF TypeOK, GARBAGE
<1> QED
  BY <1>1, <1>3, <1>5, EmptySeq DEF Types

\* The first three numbers of the configuration.
LEMMA HeaderRead ==
  ASSUME FileOK, NEW config, ConfigOK(config), LaidHeader(file, config)
  PROVE  /\ fscanf_numbers(1, 3).stored[3] = config.num
         /\ fscanf_numbers(1, 3).pos = skip_space(4)
<1>1. PICK ns : ns = <<2, 1, config.num>>
  OBVIOUS
<1>2. ns \in Seq(Int) /\ Len(ns) = 3 /\ ns[1] = 2 /\ ns[2] = 1 /\ ns[3] = config.num
  BY <1>1 DEF ConfigOK
<1>3. Len(file) \in Nat /\ Len(file) >= 3 /\ file[1] = Num(2) /\ file[2] = Num(1)
      /\ file[3] = Num(config.num)
  BY DEF LaidHeader
<1>4. PICK p, n, e : p = 1 /\ n = 3 /\ e = skip_space(4)
  OBVIOUS
<1>5. NumbersAt(p, ns, n, e)
  <2>1. Len(ns) \in 0 .. n /\ p + Len(ns) = 4 /\ 4 \in 1 .. Len(file) + 1 /\ ~ (Len(ns) < n)
    BY <1>2, <1>3, <1>4
  <2>2. ASSUME NEW k \in 1 .. Len(ns)
        PROVE  p + k - 1 \in 1 .. Len(file) /\ file[p + k - 1] = Num(ns[k])
    <3>1. p + k - 1 = k /\ k \in 1 .. 3 /\ k \in 1 .. Len(file)
      BY <1>2, <1>3, <1>4
    <3>2. k = 1 \/ k = 2 \/ k = 3
      BY <3>1
    <3>3. file[k] = Num(ns[k])
      BY <1>2, <1>3, <3>2
    <3> QED
      BY <3>1, <3>3
  <2> QED
    BY <1>4, <2>1, <2>2 DEF NumbersAt
<1>6. p \in 1 .. Len(file) + 1 /\ n \in Nat /\ 3 \in 1 .. Len(ns)
  BY <1>2, <1>3, <1>4
<1>7. fscanf_numbers(p, n).pos = e /\ fscanf_numbers(p, n).stored[3] = ns[3]
  BY <1>2, <1>5, <1>6, NumbersRead
<1> QED
  BY <1>2, <1>4, <1>7

\* read_header keeps Types.
LEMMA TypesHeader ==
  ASSUME Types, read_header
  PROVE  /\ Types' /\ file' = file /\ num_processes' = input.config.num
         /\ pos' = fscanf_numbers(skip_space(4), 5).pos
<1>1. /\ stage = "config" /\ num_processes = GARBAGE /\ pos = 1 /\ ld_processes = << >>
      /\ file = ConfigFile(input.config) /\ loaded = << >> /\ input \in Inputs /\ FileOK
      /\ IsSeq(text)
  BY DEF Types, read_header
<1>2. UNCHANGED <<input, stage, file, ld_processes, proc, text, loaded>>
  BY DEF read_header, loadVars
<1>3. ConfigOK(input.config) /\ input.config.num \in Nat
  BY <1>1, InputOK
<1>4. LaidHeader(file, input.config)
  BY <1>1, <1>3, ConfigLaid
<1>5. /\ fscanf_numbers(1, 3).stored[3] = input.config.num
      /\ fscanf_numbers(1, 3).pos = skip_space(4)
  BY <1>1, <1>3, <1>4, HeaderRead
<1>6. num_processes' = input.config.num /\ pos' = fscanf_numbers(skip_space(4), 5).pos
  BY <1>1, <1>5 DEF read_header, sizes_read
<1>7. Len(file) \in Nat /\ Len(file) >= 3
  BY <1>4 DEF LaidHeader
<1>8. skip_space(4) \in 1 .. Len(file) + 1
  <2>1. 4 \in 1 .. Len(file) + 1
    BY <1>7
  <2> QED
    BY <1>1, <2>1, SkippedRange
<1>9. fscanf_numbers(skip_space(4), 5).pos \in 1 .. Len(file) + 1
  BY <1>1, <1>8, NumbersTyped
<1>10. pos' \in 1 .. Len(file') + 1 /\ num_processes' \in Nat /\ num_processes' # GARBAGE
  BY <1>2, <1>3, <1>6, <1>9 DEF GARBAGE
<1>11. TypeOK'
  BY <1>1, <1>2, <1>3, <1>6, <1>10, EmptySeq DEF Types, TypeOK
<1>12. Types'
  BY <1>1, <1>2, <1>6, <1>10, <1>11, EmptySeq DEF Types, FileOK
<1> QED
  BY <1>2, <1>6, <1>12

\* A turn of read_config's loop leaves the file between two tokens.
LEMMA ProcessTyped ==
  ASSUME FileOK, pos \in 1 .. Len(file) + 1, read_process
  PROVE  /\ pos' \in 1 .. Len(file) + 1
         /\ \E row : ld_processes' = Append(ld_processes, row) /\ row.start \in Int /\ row.prio \in Int
<1> DEFINE start == skip_space(pos)
           name  == skip_space(start + 1)
           prio  == skip_space(name + 1)
           named == IsNumber(start) /\ ~ Eof(name)
           whole == named /\ IsNumber(prio)
           row == [start |-> IF IsNumber(start) THEN file[start].number ELSE GARBAGE,
                   path  |-> proc',
                   prio  |-> IF whole THEN file[prio].number ELSE GARBAGE]
<1>1. /\ ld_processes' = Append(ld_processes, row)
      /\ pos' = IF whole THEN skip_space(prio + 1)
                ELSE IF named THEN prio ELSE IF IsNumber(start) THEN name ELSE start
  BY DEF read_process
<1>2. Len(file) \in Nat
  BY FileTokens
<1>3. ASSUME NEW p, p \in 1 .. Len(file) + 1, ~ Eof(p)
      PROVE  skip_space(p + 1) \in 1 .. Len(file) + 1 /\ file[p].number \in Int
  <2>1. ~ (p > Len(file))
    BY <1>3 DEF Eof
  <2>2. p + 1 \in 1 .. Len(file) + 1 /\ p \in 1 .. Len(file)
    BY <1>2, <1>3, <2>1
  <2>3. file[p] \in Content
    BY <2>2, FileTokens
  <2> QED
    BY <2>2, <2>3, SkippedRange, ContentNumber
<1>4. start \in 1 .. Len(file) + 1
  BY SkippedRange
<1>5. IsNumber(start) => name \in 1 .. Len(file) + 1 /\ file[start].number \in Int
  BY <1>3, <1>4 DEF IsNumber
<1>6. named => prio \in 1 .. Len(file) + 1
  BY <1>3, <1>5
<1>7. whole => skip_space(prio + 1) \in 1 .. Len(file) + 1 /\ file[prio].number \in Int
  BY <1>3, <1>6 DEF IsNumber
<1> HIDE DEF start, name, prio
<1>8. pos' \in 1 .. Len(file) + 1
  BY <1>1, <1>4, <1>5, <1>6, <1>7
<1>9. GARBAGE \in Int
  BY DEF GARBAGE
<1>10. row.start \in Int /\ row.prio \in Int
  BY <1>5, <1>7, <1>9
<1> HIDE DEF row
<1> QED
  BY <1>1, <1>8, <1>10

\* read_process keeps Types.
LEMMA TypesProcess ==
  ASSUME Types, read_process
  PROVE  Types'
<1>1. /\ stage = "config" /\ num_processes # GARBAGE /\ Len(ld_processes) < num_processes
      /\ UNCHANGED <<input, stage, file, num_processes, text, loaded>>
  BY DEF read_process, loadVars
<1>2. /\ pos \in 1 .. Len(file) + 1 /\ FileOK /\ IsSeq(ld_processes) /\ num_processes \in Nat
      /\ \A i \in DOMAIN ld_processes : ld_processes[i].start \in Int /\ ld_processes[i].prio \in Int
      /\ loaded = << >> /\ IsSeq(text) /\ input \in Inputs /\ file = ConfigFile(input.config)
      /\ num_processes = input.config.num
  BY <1>1 DEF Types, TypeOK
<1>3. pos' \in 1 .. Len(file) + 1
  BY <1>2, ProcessTyped
<1>4. PICK row : ld_processes' = Append(ld_processes, row) /\ row.start \in Int /\ row.prio \in Int
  BY <1>2, ProcessTyped
<1>5. PICK old, new : old = ld_processes /\ new = ld_processes'
  OBVIOUS
<1>6. Appended(old, row, new)
  BY <1>2, <1>4, <1>5, AppendIs
<1>7. /\ IsSeq(new) /\ Len(old) \in Nat /\ Len(new) = Len(old) + 1
      /\ \A i \in DOMAIN new : new[i].start \in Int /\ new[i].prio \in Int
  <2>1. /\ IsSeq(new) /\ Len(old) \in Nat /\ Len(new) = Len(old) + 1
        /\ DOMAIN old = 1 .. Len(old) /\ DOMAIN new = 1 .. Len(old) + 1
        /\ \A k \in 1 .. Len(old) : new[k] = old[k]
        /\ new[Len(old) + 1] = row
    BY <1>6 DEF Appended
  <2>2. ASSUME NEW i \in DOMAIN new PROVE new[i].start \in Int /\ new[i].prio \in Int
    <3>1. i \in 1 .. Len(old) \/ i = Len(old) + 1
      BY <2>1
    <3> QED
      BY <1>2, <1>4, <1>5, <2>1, <3>1
  <2> QED
    BY <2>1, <2>2
<1>8. Len(new) <= num_processes
  <2>1. PICK l : l = Len(old)
    OBVIOUS
  <2>2. l \in Nat /\ l < num_processes /\ num_processes \in Nat /\ Len(new) = l + 1
    BY <1>1, <1>2, <1>5, <1>7, <2>1
  <2> QED
    BY <2>2
<1>9. IsSeq(loaded) /\ Len(loaded) = 0
  BY <1>2, EmptySeq
<1>10. Len(new) \in Nat
  BY <1>7
<1>11. TypeOK'
  <2>1. stage' = "config" /\ num_processes' \in Nat /\ Len(ld_processes') <= num_processes'
        /\ pos' \in 1 .. Len(file') + 1
    BY <1>1, <1>2, <1>3, <1>5, <1>8
  <2>2. \A i \in DOMAIN ld_processes' : ld_processes'[i].start \in Int /\ ld_processes'[i].prio \in Int
    BY <1>5, <1>7
  <2>3. \A k \in DOMAIN text' : text'[k].opcode \in Opcodes
    BY <1>1 DEF Types, TypeOK
  <2>4. Len(loaded') <= Len(ld_processes')
    BY <1>1, <1>5, <1>9, <1>10
  <2> QED
    BY <2>1, <2>2, <2>3, <2>4 DEF TypeOK
<1> QED
  BY <1>1, <1>2, <1>5, <1>7, <1>9, <1>11 DEF Types, FileOK

\* config_read keeps Types.
LEMMA TypesConfigRead ==
  ASSUME Types, config_read
  PROVE  Types'
<1>1. /\ stage = "config" /\ Len(ld_processes) = num_processes /\ stage' = "open"
      /\ UNCHANGED <<input, file, pos, num_processes, ld_processes, text, loaded, code_size>>
  BY DEF config_read, configVars, loadVars
<1>2. num_processes # GARBAGE
  <2>1. Len(ld_processes) \in Nat
    BY SeqLen DEF Types
  <2> QED
    BY <1>1, <2>1 DEF GARBAGE
<1>3. TypeOK'
  BY <1>1 DEF Types, TypeOK
<1> QED
  BY <1>1, <1>2, <1>3 DEF Types, FileOK

\* What open does when it finds the program: `program` is Current.
Opens(program) ==
  /\ stage = "open" /\ Len(loaded) # num_processes
  /\ ld_processes[Len(loaded) + 1].path \in DOMAIN input.disk /\ program = Current
  /\ program \in Program
  /\ stage' = "text" /\ file' = ProgramFile(program) /\ pos' = 3 /\ code_size' = program.size
  /\ text' = << >>

\* What it does in every case.
OpensNone ==
  /\ stage = "open"
  /\ \/ stage' = "done"
     \/ stage' = "exit" /\ ld_processes[Len(loaded) + 1].path \notin DOMAIN input.disk
                        /\ Len(loaded) # num_processes
  /\ UNCHANGED <<file, pos, opcode, buf, code_size, text>>

\* open does one of the two.
LEMMA OpenCases ==
  ASSUME Types, open
  PROVE  /\ OpensNone \/ \E program : Opens(program)
         /\ UNCHANGED <<input, num_processes, ld_processes, loaded, proc>>
<1>1. stage = "open" /\ UNCHANGED <<input, num_processes, ld_processes, loaded, proc>>
  BY DEF open, configVars
<1>2. CASE Len(loaded) = num_processes
  BY <1>1, <1>2 DEF open, OpensNone, loadVars
<1>3. CASE Len(loaded) # num_processes
  <2>1. CASE ld_processes[Len(loaded) + 1].path \notin DOMAIN input.disk
    BY <1>1, <1>3, <2>1 DEF open, OpensNone, loadVars
  <2>2. CASE ld_processes[Len(loaded) + 1].path \in DOMAIN input.disk
    <3>1. PICK path : path = ld_processes[Len(loaded) + 1].path
      OBVIOUS
    <3>2. input.disk[path] \in Program
      BY <2>2, <3>1, InputOK DEF Types
    <3>3. /\ stage' = "text" /\ file' = ProgramFile(input.disk[path]) /\ pos' = 3
          /\ code_size' = input.disk[path].size /\ text' = << >>
      BY <1>3, <2>2, <3>1 DEF open
    <3>4. Opens(input.disk[path])
      BY <1>1, <1>3, <2>2, <3>1, <3>2, <3>3 DEF Opens, Current
    <3> QED
      BY <1>1, <3>4
  <2> QED
    BY <2>1, <2>2
<1> QED
  BY <1>2, <1>3

\* open keeps Types.
LEMMA TypesOpen ==
  ASSUME Types, open
  PROVE  Types'
<1>1. UNCHANGED <<input, num_processes, ld_processes, loaded, proc>>
  BY OpenCases
<1>2. CASE OpensNone
  <2>1. /\ stage = "open" /\ stage' \in {"done", "exit"}
        /\ UNCHANGED <<file, pos, opcode, buf, code_size, text>>
    BY <1>2 DEF OpensNone
  <2>2. TypeOK'
    BY <1>1, <2>1 DEF Types, TypeOK
  <2> QED
    BY <1>1, <2>1, <2>2 DEF Types, FileOK
<1>3. ASSUME NEW program, Opens(program) PROVE Types'
  <2>1. /\ stage = "open" /\ Len(loaded) # num_processes
        /\ ld_processes[Len(loaded) + 1].path \in DOMAIN input.disk /\ program = Current
        /\ program \in Program
        /\ stage' = "text" /\ file' = ProgramFile(program) /\ pos' = 3
        /\ code_size' = program.size /\ text' = << >>
    BY <1>3 DEF Opens
  <2>2. PICK at : LaidProgram(ProgramFile(program), program, at)
    BY <2>1, ProgramLaid
  <2>3. FileOK' /\ Len(file') \in Nat /\ Len(file') >= 2
    BY <2>1, <2>2 DEF LaidProgram, FileOK
  <2>4. pos' \in 1 .. Len(file') + 1
    BY <2>1, <2>3
  <2>5. Current' = Current
    BY <1>1 DEF Current
  <2>6. Len(loaded) < num_processes
    <3>1. /\ Len(loaded) \in Nat /\ Len(loaded) <= Len(ld_processes)
          /\ Len(ld_processes) = num_processes /\ Len(ld_processes) \in Nat
      BY <2>1, SeqLen DEF Types, TypeOK
    <3> QED
      BY <2>1, <3>1
  <2>7. program.size \in Nat
    BY <2>1, ProgramTyped
  <2>8. TypeOK'
    BY <1>1, <2>1, <2>4, <2>7, EmptySeq DEF Types, TypeOK
  <2> HIDE DEF Current
  <2> QED
    BY <1>1, <2>1, <2>3, <2>5, <2>6, <2>8, EmptySeq DEF Types
<1> QED
  BY <1>2, <1>3, OpenCases

\* What load_instruction does to the text, and where it leaves the file.
Loads ==
  /\ pos' \in 1 .. Len(file) + 1
  /\ \/ stage' = "exit" /\ text' = text
     \/ /\ stage' = "text"
        /\ \E op \in Opcodes : \E stored : text' = Append(text, Instruction(op, stored))

\* fscanf "%s" stays in the file.
LEMMA WordTyped ==
  ASSUME FileOK, pos \in 1 .. Len(file) + 1
  PROVE  next_word.pos \in 1 .. Len(file) + 1
<1>1. PICK k : k = skip_space(pos)
  OBVIOUS
<1>2. k \in 1 .. Len(file) + 1 /\ Len(file) \in Nat
  BY <1>1, SkippedRange, FileTokens
<1>3. CASE Eof(k)
  BY <1>1, <1>2, <1>3 DEF next_word
<1>4. CASE ~ Eof(k)
  <2>1. k + 1 \in 1 .. Len(file) + 1
    <3>1. ~ (k > Len(file))
      BY <1>4 DEF Eof
    <3> QED
      BY <1>2, <3>1
  <2> QED
    BY <1>1, <1>4, <2>1 DEF next_word
<1> QED
  BY <1>3, <1>4

\* Every opcode has an arity.
LEMMA ArityTyped ==
  ASSUME NEW op \in Opcodes
  PROVE  arity(op) \in Nat
<1>1. CASE op = "calc"
  BY <1>1 DEF arity
<1>2. CASE op = "free"
  BY <1>2 DEF arity
<1>3. CASE op = "alloc"
  BY <1>3 DEF arity
<1>4. CASE op = "read"
  BY <1>4 DEF arity
<1>5. CASE op = "write"
  BY <1>5 DEF arity
<1>6. CASE op = "syscall"
  BY <1>6 DEF arity
<1> QED
  BY <1>1, <1>2, <1>3, <1>4, <1>5, <1>6 DEF Opcodes

\* load_instruction does so, whatever stands in the file.
LEMMA InstructionTyped ==
  ASSUME FileOK, pos \in 1 .. Len(file) + 1, load_instruction
  PROVE  Loads
<1>1. PICK p : p = next_word.pos
  OBVIOUS
<1>2. p \in 1 .. Len(file) + 1
  BY <1>1, WordTyped
<1>3. stage = "text"
  BY DEF load_instruction
<1>4. CASE opcode' \notin Opcodes /\ stage' = "exit" /\ pos' = next_word.pos /\ UNCHANGED <<buf, text>>
  BY <1>1, <1>2, <1>4 DEF Loads
<1>5. CASE opcode' = "syscall" /\ load_syscall(next_word.pos) /\ UNCHANGED stage
  <2>1. pos' = end_of_line(p) /\ \E stored : text' = Append(text, Instruction("syscall", stored))
    BY <1>1, <1>5 DEF load_syscall
  <2>2. Len(file) \in Nat
    BY FileTokens
  <2>3. end_of_line(p) \in p .. Len(file) + 1
    BY <1>2, LineEnds DEF Ends
  <2>4. end_of_line(p) \in 1 .. Len(file) + 1
    BY <1>2, <2>2, <2>3
  <2>5. "syscall" \in Opcodes
    BY DEF Opcodes
  <2> QED
    BY <1>3, <1>5, <2>1, <2>4, <2>5 DEF Loads
<1>6. CASE opcode' \in Opcodes \ {"syscall"} /\ load_numbers(opcode', next_word.pos) /\ UNCHANGED stage
  <2>1. PICK op : op = opcode'
    OBVIOUS
  <2>2. op \in Opcodes /\ load_numbers(op, p)
    BY <1>1, <1>6, <2>1
  <2>3. arity(op) \in Nat
    BY <2>2, ArityTyped
  <2>4. fscanf_numbers(p, arity(op)).pos \in 1 .. Len(file) + 1
    BY <1>2, <2>3, NumbersTyped
  <2>5. /\ pos' = p \/ pos' = fscanf_numbers(p, arity(op)).pos
        /\ \E stored : text' = Append(text, Instruction(op, stored))
    BY <2>2 DEF load_numbers
  <2> QED
    BY <1>2, <1>3, <1>6, <2>2, <2>4, <2>5 DEF Loads
<1> QED
  BY <1>4, <1>5, <1>6 DEF load_instruction

\* load_instruction keeps Types.
LEMMA TypesInstruction ==
  ASSUME Types, load_instruction
  PROVE  Types'
<1>1. /\ stage = "text" /\ Len(text) < code_size
      /\ UNCHANGED <<input, file, num_processes, ld_processes, proc, code_size, loaded>>
  BY DEF load_instruction, more_text, configVars
<1>2. FileOK /\ pos \in 1 .. Len(file) + 1
  BY DEF Types, TypeOK
<1>3. Loads
  BY <1>2, InstructionTyped
<1>4. pos' \in 1 .. Len(file') + 1
  BY <1>1, <1>3 DEF Loads
<1>5. Current' = Current
  BY <1>1 DEF Current
<1>6. Current.size \in Nat /\ code_size = Current.size
  <2>1. Current \in Program /\ code_size = Current.size
    BY <1>1, InputOK DEF Types, Current
  <2> QED
    BY <2>1, ProgramTyped
<1>7. CASE stage' = "exit" /\ text' = text
  <2>1. TypeOK'
    BY <1>1, <1>4, <1>7 DEF Types, TypeOK
  <2> QED
    BY <1>1, <1>7, <2>1 DEF Types, FileOK
<1>8. CASE /\ stage' = "text"
           /\ \E op \in Opcodes : \E stored : text' = Append(text, Instruction(op, stored))
  <2>a. PICK op \in Opcodes : \E stored : text' = Append(text, Instruction(op, stored))
    BY <1>8
  <2>1. PICK stored : text' = Append(text, Instruction(op, stored))
    BY <2>a
  <2>2. PICK old, new, x : old = text /\ new = text' /\ x = Instruction(op, stored)
    OBVIOUS
  <2>3. x.opcode = op
    BY <2>2 DEF Instruction
  <2>4. Appended(old, x, new)
    BY <2>1, <2>2, AppendIs DEF Types
  <2>5. /\ IsSeq(new) /\ Len(old) \in Nat /\ Len(new) = Len(old) + 1
        /\ DOMAIN old = 1 .. Len(old) /\ DOMAIN new = 1 .. Len(old) + 1
        /\ \A k \in 1 .. Len(old) : new[k] = old[k]
        /\ new[Len(old) + 1] = x
    BY <2>4 DEF Appended
  <2>6. \A k \in DOMAIN old : old[k].opcode \in Opcodes
    BY <2>2 DEF Types, TypeOK
  <2>7. ASSUME NEW k \in DOMAIN new PROVE new[k].opcode \in Opcodes
    <3>1. k \in 1 .. Len(old) \/ k = Len(old) + 1
      BY <2>5
    <3> QED
      BY <2>3, <2>5, <2>6, <3>1
  <2>8. Len(new) <= code_size
    <3>1. PICK l : l = Len(old)
      OBVIOUS
    <3>2. l \in Nat /\ l < code_size /\ code_size \in Nat /\ Len(new) = l + 1
      BY <1>1, <1>6, <2>2, <2>5, <3>1
    <3> QED
      BY <3>2
  <2>9. TypeOK'
    BY <1>1, <1>4, <1>8, <2>2, <2>7, <2>8 DEF Types, TypeOK
  <2> HIDE DEF Current
  <2> QED
    BY <1>1, <1>5, <1>8, <2>2, <2>5, <2>9 DEF Types, FileOK
<1> QED
  BY <1>3, <1>7, <1>8 DEF Loads

\* The process that return_proc puts behind the others.
NewProcess ==
  [pid  |-> Len(loaded) + 1, path |-> stored_path(ld_processes[Len(loaded) + 1].path),
   prio |-> ld_processes[Len(loaded) + 1].prio, priority |-> file[1].number, text |-> text]

\* return_proc keeps Types, and appends NewProcess.
LEMMA TypesReturn ==
  ASSUME Types, return_proc
  PROVE  Types' /\ Appended(loaded, NewProcess, loaded')
<1>1. /\ stage = "text" /\ stage' = "open"
      /\ loaded' = Append(loaded, NewProcess)
      /\ UNCHANGED <<input, file, pos, num_processes, ld_processes, proc, text, code_size>>
  BY DEF return_proc, NewProcess, configVars, loadVars
<1>2. PICK old, new, x : old = loaded /\ new = loaded' /\ x = NewProcess
  OBVIOUS
<1>3. Appended(old, x, new)
  BY <1>1, <1>2, AppendIs DEF Types
<1>4. IsSeq(new) /\ Len(old) \in Nat /\ Len(new) = Len(old) + 1
  BY <1>3 DEF Appended
<1>5. Len(new) <= Len(ld_processes)
  <2>1. PICK l, m : l = Len(old) /\ m = Len(ld_processes)
    OBVIOUS
  <2>2. l < num_processes /\ m = num_processes
    BY <1>1, <1>2, <2>1 DEF Types
  <2>3. m \in Nat
    BY <2>1, SeqLen DEF Types
  <2>4. l \in Nat /\ Len(new) = l + 1
    BY <1>4, <2>1
  <2> QED
    BY <2>1, <2>2, <2>3, <2>4
<1>6. TypeOK'
  BY <1>1, <1>2, <1>5 DEF Types, TypeOK
<1>7. Types'
  BY <1>1, <1>2, <1>4, <1>6 DEF Types, FileOK
<1> QED
  BY <1>2, <1>3, <1>7

\* So does a step that changes nothing.
LEMMA TypesStutter ==
  ASSUME Types, UNCHANGED vars
  PROVE  Types'
<1>1. UNCHANGED <<input, stage, file, pos, num_processes, ld_processes, text, code_size, loaded>>
  BY DEF vars, configVars, loadVars
<1>2. TypeOK'
  BY <1>1 DEF Types, TypeOK
<1>3. Current' = Current
  BY <1>1 DEF Current
<1> HIDE DEF Current
<1> QED
  BY <1>1, <1>2, <1>3 DEF Types, FileOK

\* Every step keeps Types.
LEMMA TypesNext == Types /\ [Next]_vars => Types'
<1> SUFFICES ASSUME Types, [Next]_vars PROVE Types'
  OBVIOUS
<1>1. CASE read_header
  BY <1>1, TypesHeader
<1>2. CASE read_process
  BY <1>2, TypesProcess
<1>3. CASE config_read
  BY <1>3, TypesConfigRead
<1>4. CASE open
  BY <1>4, TypesOpen
<1>5. CASE load_instruction
  BY <1>5, TypesInstruction
<1>6. CASE return_proc
  BY <1>6, TypesReturn
<1>7. CASE Ended \/ UNCHANGED vars
  <2>1. UNCHANGED vars
    BY <1>7 DEF Ended
  <2> QED
    BY <2>1, TypesStutter
<1> QED
  BY <1>1, <1>2, <1>3, <1>4, <1>5, <1>6, <1>7 DEF Next

\* Types is an invariant of the loader, whatever the files hold.
THEOREM TypesInvariant == Spec => []Types
BY TypesInit, TypesNext, PTL DEF Spec

\* Whatever configuration and programs hold, the loader reads no further than the end
\* of the open file, never stores more entries than read_config has allocated
\* (os.c:164-193) or more instructions than load has (loader.c:55-60), and never more
\* processes than the table has.
THEOREM TypesKept == Spec => []TypeOK
<1>1. Types => TypeOK
  BY DEF Types
<1> QED
  BY <1>1, TypesInvariant, PTL

-----------------------------------------------------------------------------
(* The table of the configuration *)

\* The open file is a configuration in order.
OpenedConfig(config, s, at) ==
  /\ FileOK /\ ConfigOK(config)
  /\ \A i \in DOMAIN config.lines : IsProcessLine(config.lines[i])
  /\ LaidConfig(file, config, s, at)

\* A process line with its three tokens is at p, and the next one at q.
ProcessPlaced(line, p, q) ==
  /\ p \in 1 .. Len(file) /\ q \in 1 .. Len(file) + 1 /\ p + 3 <= q
  /\ file[p] = line[1] /\ file[p + 1] = line[2] /\ file[p + 2] = line[3]
  /\ line[1].text = "" /\ line[2].text # "" /\ line[3].text = ""
  /\ line[1] # Nl /\ line[2] # Nl /\ line[3] # Nl
  /\ \A i \in p + 3 .. q - 1 : file[i] = Nl

\* A process line of the open configuration and the white space behind it.
LEMMA ProcessPlaces ==
  ASSUME NEW config, NEW s, NEW at, OpenedConfig(config, s, at), NEW k \in 1 .. Len(config.lines)
  PROVE  ProcessPlaced(config.lines[k], at[k], at[k + 1])
<1>1. PICK line, p, q, n : /\ line = config.lines[k] /\ p = at[k] /\ q = at[k + 1]
                           /\ n = Len(config.lines)
  OBVIOUS
<1>2. n \in Nat /\ DOMAIN config.lines = 1 .. n /\ line \in Seq(Token)
  BY <1>1 DEF OpenedConfig, ConfigOK
<1>3. /\ at \in [1 .. n + 1 -> 1 .. Len(file) + 1]
      /\ p + Len(line) <= q
      /\ \A j \in 1 .. Len(line) : file[p + j - 1] = line[j]
      /\ \A i \in p + Len(line) .. q - 1 : file[i] = Nl
  BY <1>1 DEF OpenedConfig, LaidConfig
<1>4. Len(line) = 3 /\ line[1].text = "" /\ line[2].text # "" /\ line[3].text = ""
  BY <1>1, <1>2 DEF OpenedConfig, IsProcessLine
<1>5. Len(file) \in Nat
  BY FileTokens DEF OpenedConfig
<1>6. p \in 1 .. Len(file) + 1 /\ q \in 1 .. Len(file) + 1
  <2>1. k \in 1 .. n + 1 /\ k + 1 \in 1 .. n + 1
    BY <1>1, <1>2
  <2> QED
    BY <1>1, <1>3, <2>1
<1>7. p + 3 <= q /\ p \in 1 .. Len(file)
  <2>1. PICK l : l = Len(file)
    OBVIOUS
  <2>2. l \in Nat /\ p \in 1 .. l + 1 /\ q \in 1 .. l + 1 /\ p + 3 <= q
    BY <1>3, <1>4, <1>5, <1>6, <2>1
  <2>3. p \in 1 .. l
    BY ONLY <2>2
  <2> QED
    BY <2>1, <2>2, <2>3
<1>8. file[p] = line[1] /\ file[p + 1] = line[2] /\ file[p + 2] = line[3]
  <2>1. \A j \in 1 .. 3 : file[p + j - 1] = line[j]
    BY <1>3, <1>4
  <2>2. p + 1 - 1 = p /\ p + 2 - 1 = p + 1 /\ p + 3 - 1 = p + 2
    BY <1>7, <1>5
  <2>3. file[p + 1 - 1] = line[1] /\ file[p + 2 - 1] = line[2] /\ file[p + 3 - 1] = line[3]
    BY <2>1
  <2> QED
    BY <2>2, <2>3
<1>9. line[1] # Nl /\ line[2] # Nl /\ line[3] # Nl
  <2>1. line[1] \in Token /\ line[2] \in Token /\ line[3] \in Token
    <3>1. \A j \in 1 .. Len(line) : line[j] \in Token
      BY <1>2
    <3>2. \A j \in 1 .. 3 : line[j] \in Token
      BY <1>4, <3>1
    <3> QED
      BY <3>2
  <2> QED
    BY <2>1, NlNoToken
<1>10. \A i \in p + 3 .. q - 1 : file[i] = Nl
  BY <1>3, <1>4
<1>11. ProcessPlaced(line, p, q)
  BY <1>4, <1>6, <1>7, <1>8, <1>9, <1>10 DEF ProcessPlaced
<1> QED
  BY <1>1, <1>11

\* Where it begins there is no white space.
LEMMA ProcessBegins ==
  ASSUME NEW config, NEW s, NEW at, OpenedConfig(config, s, at), NEW k \in 1 .. Len(config.lines) + 1
  PROVE  at[k] \in 1 .. Len(file) + 1 /\ (Eof(at[k]) \/ file[at[k]] # Nl)
<1>1. PICK n : n = Len(config.lines)
  OBVIOUS
<1>2. /\ n \in Nat /\ at \in [1 .. n + 1 -> 1 .. Len(file) + 1] /\ at[n + 1] = Len(file) + 1
      /\ Len(file) \in Nat
  BY <1>1, FileTokens DEF OpenedConfig, LaidConfig
<1>3. at[k] \in 1 .. Len(file) + 1
  BY <1>1, <1>2
<1>4. CASE k = n + 1
  <2>1. at[k] > Len(file)
    BY <1>2, <1>4
  <2> QED
    BY <1>3, <2>1 DEF Eof
<1>5. CASE k # n + 1
  <2>1. k \in 1 .. n
    BY <1>1, <1>2, <1>5
  <2>2. ProcessPlaced(config.lines[k], at[k], at[k + 1])
    BY <1>1, <2>1, ProcessPlaces
  <2> QED
    BY <1>3, <2>2 DEF ProcessPlaced
<1> QED
  BY <1>4, <1>5

\* What a turn of the loop makes of a line of the configuration.
Row(line) == [start |-> line[1].number, path |-> line[2].text, prio |-> line[3].number]

\* A turn of the loop at a process line reads this line and stops at the next
\* (os.c:189).
LEMMA ProcessRead ==
  ASSUME NEW config, NEW s, NEW at, OpenedConfig(config, s, at), NEW k \in 1 .. Len(config.lines),
         pos \in 1 .. Len(file) + 1, Skips(pos, at[k]), read_process
  PROVE  /\ ld_processes' = Append(ld_processes, Row(config.lines[k]))
         /\ proc' = config.lines[k][2].text
         /\ Skips(pos', at[k + 1])
<1> DEFINE start == skip_space(pos)
           name  == skip_space(start + 1)
           prio  == skip_space(name + 1)
           named == IsNumber(start) /\ ~ Eof(name)
           whole == named /\ IsNumber(prio)
<1>1. PICK line, p, q : line = config.lines[k] /\ p = at[k] /\ q = at[k + 1]
  OBVIOUS
<1>2. ProcessPlaced(line, p, q)
  BY <1>1, ProcessPlaces
<1>3. /\ p \in 1 .. Len(file) /\ q \in 1 .. Len(file) + 1 /\ p + 3 <= q
      /\ file[p] = line[1] /\ file[p + 1] = line[2] /\ file[p + 2] = line[3]
      /\ line[1].text = "" /\ line[2].text # "" /\ line[3].text = ""
      /\ line[1] # Nl /\ line[2] # Nl /\ line[3] # Nl
      /\ \A i \in p + 3 .. q - 1 : file[i] = Nl
  BY <1>2 DEF ProcessPlaced
<1>4. Len(file) \in Nat /\ FileOK
  BY FileTokens DEF OpenedConfig
<1>5. /\ p + 1 \in 1 .. Len(file) /\ p + 2 \in 1 .. Len(file) /\ p + 3 \in 1 .. Len(file) + 1
      /\ p + 1 \in 1 .. Len(file) + 1 /\ p + 2 \in 1 .. Len(file) + 1
      /\ p + 1 + 1 = p + 2 /\ p + 2 + 1 = p + 3
      /\ ~ (p > Len(file)) /\ ~ (p + 1 > Len(file)) /\ ~ (p + 2 > Len(file))
      /\ q \in p + 3 .. Len(file) + 1 /\ q \in q .. Len(file) + 1 /\ q \in Int
  <2>1. PICK l : l = Len(file)
    OBVIOUS
  <2>2. l \in Nat /\ p \in 1 .. l /\ q \in 1 .. l + 1 /\ p + 3 <= q
    BY <1>3, <1>4, <2>1
  <2>3. /\ p + 1 \in 1 .. l /\ p + 2 \in 1 .. l /\ p + 3 \in 1 .. l + 1
        /\ p + 1 \in 1 .. l + 1 /\ p + 2 \in 1 .. l + 1
        /\ p + 1 + 1 = p + 2 /\ p + 2 + 1 = p + 3
        /\ ~ (p > l) /\ ~ (p + 1 > l) /\ ~ (p + 2 > l)
        /\ q \in p + 3 .. l + 1 /\ q \in q .. l + 1 /\ q \in Int
    BY ONLY <2>2
  <2> QED
    BY <2>1, <2>3
<1>6. ~ Eof(p) /\ ~ Eof(p + 1) /\ ~ Eof(p + 2)
  BY <1>5 DEF Eof
<1>7. start = p
  BY <1>1, <1>4, SkipIs
<1>8. name = p + 1
  BY <1>3, <1>4, <1>5, <1>7, SkipsNothing
<1>9. prio = p + 2
  BY <1>3, <1>4, <1>5, <1>8, SkipsNothing
<1>10. skip_space(prio + 1) = q /\ Skips(q, q)
  <2>1. k + 1 \in 1 .. Len(config.lines) + 1
    <3>1. Len(config.lines) \in Nat
      BY DEF OpenedConfig, LaidConfig
    <3> QED
      BY <3>1
  <2>2. Eof(q) \/ file[q] # Nl
    BY <1>1, <2>1, ProcessBegins
  <2>3. \A i \in q .. q - 1 : FALSE
    <3>1. q \in Int
      BY <1>5
    <3> QED
      BY ONLY <3>1
  <2>4. Skips(p + 3, q) /\ Skips(q, q)
    BY <1>3, <1>5, <2>2, <2>3 DEF Skips
  <2> QED
    BY <1>4, <1>5, <1>9, <2>4, SkipIs
<1>11. named /\ whole
  BY <1>3, <1>6, <1>7, <1>8, <1>9 DEF IsNumber
<1>12. /\ proc' = name_read(named, name)
       /\ ld_processes' = Append(ld_processes,
              [start |-> IF IsNumber(start) THEN file[start].number ELSE GARBAGE,
               path  |-> proc',
               prio  |-> IF whole THEN file[prio].number ELSE GARBAGE])
       /\ pos' = IF whole THEN skip_space(prio + 1)
                 ELSE IF named THEN prio ELSE IF IsNumber(start) THEN name ELSE start
  BY DEF read_process
<1>13. IsNumber(start)
  BY <1>11
<1> HIDE DEF start, name, prio, whole, named
<1>14. proc' = line[2].text
  BY <1>3, <1>8, <1>11, <1>12 DEF name_read
<1>15. ld_processes' = Append(ld_processes, Row(line))
  BY <1>3, <1>7, <1>9, <1>11, <1>12, <1>13, <1>14 DEF Row
<1>16. pos' = q
  BY <1>10, <1>11, <1>12
<1> QED
  BY <1>1, <1>10, <1>14, <1>15, <1>16

\* Where the configuration has ended, only the name of the turn before is left.
LEMMA NothingRead ==
  ASSUME FileOK, pos \in 1 .. Len(file) + 1, Skips(pos, Len(file) + 1), read_process
  PROVE  /\ ld_processes' = Append(ld_processes, [start |-> GARBAGE, path |-> proc, prio |-> GARBAGE])
         /\ proc' = proc
         /\ Skips(pos', Len(file) + 1)
<1> DEFINE start == skip_space(pos)
           name  == skip_space(start + 1)
           prio  == skip_space(name + 1)
           named == IsNumber(start) /\ ~ Eof(name)
           whole == named /\ IsNumber(prio)
<1>1. Len(file) \in Nat
  BY FileTokens
<1>2. start = Len(file) + 1
  BY SkipIs
<1>3. ~ IsNumber(start)
  <2>1. Len(file) + 1 > Len(file)
    BY <1>1
  <2>2. Eof(start)
    BY <1>2, <2>1 DEF Eof
  <2> QED
    BY <2>2 DEF IsNumber
<1>4. ~ named /\ ~ whole
  BY <1>3
<1>5. /\ proc' = name_read(named, name)
      /\ ld_processes' = Append(ld_processes,
              [start |-> IF IsNumber(start) THEN file[start].number ELSE GARBAGE,
               path  |-> proc',
               prio  |-> IF whole THEN file[prio].number ELSE GARBAGE])
      /\ pos' = IF whole THEN skip_space(prio + 1)
                ELSE IF named THEN prio ELSE IF IsNumber(start) THEN name ELSE start
  BY DEF read_process
<1> HIDE DEF start, name, prio, whole, named
<1>6. proc' = proc
  BY <1>4, <1>5 DEF name_read
<1>7. pos' = Len(file) + 1
  BY <1>2, <1>3, <1>4, <1>5
<1>8. Skips(Len(file) + 1, Len(file) + 1)
  BY <1>1 DEF Skips, Eof
<1> QED
  BY <1>3, <1>4, <1>5, <1>6, <1>7, <1>8

\* Behind the header and the memory line the first process line begins.
LEMMA SizesRead ==
  ASSUME NEW config, NEW s, NEW at, OpenedConfig(config, s, at)
  PROVE  fscanf_numbers(skip_space(4), 5).pos = at[1] /\ Skips(at[1], at[1])
<1>1. /\ Len(config.lines) \in Nat /\ s \in 4 .. Len(file) + 1
      /\ \A i \in 4 .. s - 1 : file[i] = Nl
      /\ s + 5 <= at[1]
      /\ \A j \in 1 .. 5 : file[s + j - 1] = Num(MemorySizes[j])
      /\ \A i \in s + 5 .. at[1] - 1 : file[i] = Nl
  BY DEF OpenedConfig, LaidConfig
<1>2. Len(file) \in Nat /\ FileOK
  BY FileTokens DEF OpenedConfig
<1>3. PICK q : q = at[1]
  OBVIOUS
<1>4. q \in 1 .. Len(file) + 1 /\ (Eof(q) \/ file[q] # Nl)
  <2>1. 1 \in 1 .. Len(config.lines) + 1
    BY <1>1
  <2> QED
    BY <1>3, <2>1, ProcessBegins
<1>5. s + 5 <= q /\ q <= Len(file) + 1 /\ s \in Nat
  BY <1>1, <1>2, <1>3, <1>4
<1>6. skip_space(4) = s
  <2>1. file[s] # Nl
    <3>1. 1 \in 1 .. 5 /\ s + 1 - 1 = s
      BY <1>5
    <3>2. file[s] = Num(MemorySizes[1])
      BY <1>1, <3>1
    <3>3. Num(MemorySizes[1]).text = "" /\ Nl.text # ""
      BY DEF Num, Nl
    <3> QED
      BY <3>2, <3>3
  <2>2. Skips(4, s)
    BY <1>1, <2>1 DEF Skips
  <2>3. 4 \in 1 .. Len(file) + 1
    BY <1>1, <1>2
  <2> QED
    BY <1>2, <2>2, <2>3, SkipIs
<1>7. Skips(q, q)
  BY <1>2, <1>4 DEF Skips
<1>8. skip_space(s + 5) = q /\ s + 5 \in 1 .. Len(file) + 1
  <2>1. q \in s + 5 .. Len(file) + 1 /\ s + 5 \in 1 .. Len(file) + 1
    BY <1>2, <1>4, <1>5
  <2>2. Skips(s + 5, q)
    BY <1>1, <1>3, <1>4, <2>1 DEF Skips
  <2> QED
    BY <1>2, <2>1, <2>2, SkipIs
<1>9. PICK ns, n : ns = MemorySizes /\ n = 5
  OBVIOUS
<1>10. ns \in Seq(Int) /\ Len(ns) = 5
  BY <1>9 DEF MemorySizes
<1>11. NumbersAt(s, ns, n, q)
  <2>1. Len(ns) \in 0 .. n /\ ~ (Len(ns) < n)
    BY <1>9, <1>10
  <2>2. ASSUME NEW j \in 1 .. Len(ns)
        PROVE  s + j - 1 \in 1 .. Len(file) /\ file[s + j - 1] = Num(ns[j])
    <3>1. j \in 1 .. 5 /\ s + j - 1 \in 1 .. Len(file)
      <4>1. PICK l : l = Len(file)
        OBVIOUS
      <4>2. s \in 4 .. l + 1 /\ j \in 1 .. 5 /\ s + 5 <= q /\ q <= l + 1 /\ l \in Nat /\ q \in Int
        BY <1>1, <1>2, <1>4, <1>5, <1>10, <4>1
      <4>3. s + j - 1 \in 1 .. l
        BY ONLY <4>2
      <4> QED
        BY <4>1, <4>2, <4>3
    <3> QED
      BY <1>1, <1>9, <3>1
  <2>3. s + Len(ns) = s + 5
    BY <1>10
  <2> QED
    BY <1>8, <2>1, <2>2, <2>3 DEF NumbersAt
<1>12. s \in 1 .. Len(file) + 1 /\ n \in Nat
  BY <1>1, <1>9
<1>13. fscanf_numbers(s, n).pos = q
  BY <1>2, <1>10, <1>11, <1>12, NumbersRead
<1> QED
  BY <1>3, <1>6, <1>7, <1>9, <1>13

\* Where the process lines of a configuration begin.
ConfigLines(config) == CHOOSE at : \E s : LaidConfig(ConfigFile(config), config, s, at)

\* How many of n lines k turns have read, and the entry that turn i makes.
LineNo(k, n) == IF k < n THEN k ELSE n

RowAt(config, i) ==
  LET n == Len(config.lines)
  IN  IF i <= n THEN Row(config.lines[i])
      ELSE [start |-> GARBAGE, path |-> config.lines[n][2].text, prio |-> GARBAGE]

TableRows ==
  LET n == Len(input.config.lines)
  IN  \A i \in 1 .. Len(ld_processes) :
        i <= n \/ n > 0 => ld_processes[i] = RowAt(input.config, i)

TablePlace ==
  LET n == Len(input.config.lines)
  IN  stage = "config" /\ num_processes # GARBAGE =>
        Skips(pos, ConfigLines(input.config)[LineNo(Len(ld_processes), n) + 1])

TableName ==
  LET n == Len(input.config.lines)
  IN  stage = "config" /\ n > 0 /\ Len(ld_processes) > 0 =>
        proc = input.config.lines[LineNo(Len(ld_processes), n)][2].text

\* The file is read line by line, and `proc` is the name of the last one.
Table == ConfigInOrder => TableRows /\ TablePlace /\ TableName

\* While the loader reads a configuration in order, that is the open file.
LEMMA ConfigOpened ==
  ASSUME Types, stage = "config", ConfigInOrder
  PROVE  \E s : OpenedConfig(input.config, s, ConfigLines(input.config))
<1>1. FileOK /\ ConfigOK(input.config) /\ file = ConfigFile(input.config)
  BY InputOK DEF Types
<1>2. input.config.memory /\ \A i \in DOMAIN input.config.lines : IsProcessLine(input.config.lines[i])
  BY DEF ConfigInOrder
<1>3. PICK config : config = input.config
  OBVIOUS
<1>4. \E s, at : LaidConfig(ConfigFile(config), config, s, at)
  BY <1>1, <1>2, <1>3, ConfigLaid
<1>5. \E s : LaidConfig(ConfigFile(config), config, s, ConfigLines(config))
  BY <1>4 DEF ConfigLines
<1> QED
  BY <1>1, <1>2, <1>3, <1>5 DEF OpenedConfig

\* Table holds at the start.
LEMMA TableInit == Init => Table
<1> SUFFICES ASSUME Init PROVE Table
  OBVIOUS
<1>1. num_processes = GARBAGE /\ ld_processes = << >>
  BY DEF Init
<1> QED
  BY <1>1, EmptySeq DEF Table, TableRows, TablePlace, TableName

\* Outside of the configuration the table does not change.
LEMMA TableKept ==
  ASSUME Table, UNCHANGED <<input, ld_processes>>, stage' # "config"
  PROVE  Table'
<1>1. ConfigInOrder' => ConfigInOrder
  BY DEF ConfigInOrder
<1> QED
  BY <1>1 DEF Table, TableRows, TablePlace, TableName, RowAt

\* read_header leaves the file at the first process line.
LEMMA TableHeader ==
  ASSUME Types, Table, read_header
  PROVE  Table'
<1>1. SUFFICES ASSUME ConfigInOrder' PROVE Table'
  BY DEF Table
<1>2. /\ stage = "config" /\ ld_processes = << >>
      /\ UNCHANGED <<input, stage, file, ld_processes, proc>>
  BY DEF read_header, Types
<1>3. ConfigInOrder
  BY <1>1, <1>2 DEF ConfigInOrder
<1>4. PICK config, at : config = input.config /\ at = ConfigLines(config)
  OBVIOUS
<1>5. PICK s : OpenedConfig(config, s, at)
  BY <1>2, <1>3, <1>4, ConfigOpened
<1>6. fscanf_numbers(skip_space(4), 5).pos = at[1] /\ Skips(at[1], at[1])
  BY <1>5, SizesRead
<1>7. pos' = at[1]
  BY <1>6, TypesHeader
<1>8. PICK q : q = at[1]
  OBVIOUS
<1>9. Skips(pos, q)'
  BY <1>2, <1>6, <1>7, <1>8 DEF Skips, Eof
<1>10. LineNo(0, Len(config.lines)) + 1 = 1
  <2>1. Len(config.lines) \in Nat
    BY <1>5 DEF OpenedConfig, LaidConfig
  <2> QED
    BY <2>1 DEF LineNo
<1>11. Len(ld_processes') = 0
  BY <1>2, EmptySeq
<1>12. ConfigLines(input'.config) = at /\ input'.config = config
  BY <1>2, <1>4
<1>13. TablePlace'
  BY <1>8, <1>9, <1>10, <1>11, <1>12 DEF TablePlace
<1>14. TableRows' /\ TableName'
  BY <1>11 DEF TableRows, TableName
<1> QED
  BY <1>13, <1>14 DEF Table

\* Each turn of the loop reads the next line, or finds the end and adds the name of
\* the last one again.
LEMMA TableProcess ==
  ASSUME Types, Table, read_process
  PROVE  Table'
<1>1. SUFFICES ASSUME ConfigInOrder' PROVE Table'
  BY DEF Table
<1>2. /\ stage = "config" /\ num_processes # GARBAGE
      /\ UNCHANGED <<input, stage, file, num_processes>>
  BY DEF read_process
<1>3. ConfigInOrder
  BY <1>1, <1>2 DEF ConfigInOrder
<1>4. PICK config, at : config = input.config /\ at = ConfigLines(config)
  OBVIOUS
<1>5. PICK s : OpenedConfig(config, s, at)
  BY <1>2, <1>3, <1>4, ConfigOpened
<1>6. PICK n, k, old, new, lines :
        /\ n = Len(config.lines) /\ k = Len(ld_processes)
        /\ old = ld_processes /\ new = ld_processes' /\ lines = config.lines
  OBVIOUS
<1>7. n \in Nat /\ at[n + 1] = Len(file) + 1 /\ FileOK /\ pos \in 1 .. Len(file) + 1
  BY <1>5, <1>6 DEF OpenedConfig, LaidConfig, Types, TypeOK
<1>8. k \in Nat /\ IsSeq(old)
  BY <1>6, SeqLen DEF Types
<1>9. /\ \A i \in 1 .. k : i <= n \/ n > 0 => old[i] = RowAt(config, i)
      /\ Skips(pos, at[LineNo(k, n) + 1])
      /\ n > 0 /\ k > 0 => proc = lines[LineNo(k, n)][2].text
  BY <1>2, <1>3, <1>4, <1>6 DEF Table, TableRows, TablePlace, TableName
<1>10. /\ k + 1 <= n \/ n > 0 => new = Append(old, RowAt(config, k + 1))
       /\ n > 0 => proc' = lines[LineNo(k + 1, n)][2].text
       /\ Skips(pos', at[LineNo(k + 1, n) + 1])
       /\ \E row : new = Append(old, row)
  <2>1. CASE k < n
    <3>1. LineNo(k, n) + 1 = k + 1 /\ LineNo(k + 1, n) = k + 1 /\ k + 1 \in 1 .. n /\ k + 1 <= n
      BY <1>7, <1>8, <2>1 DEF LineNo
    <3>2. PICK l : l = k + 1
      OBVIOUS
    <3>3. l \in 1 .. Len(config.lines) /\ Skips(pos, at[l])
      BY <1>6, <1>9, <3>1, <3>2
    <3>4. /\ new = Append(old, Row(config.lines[l]))
          /\ proc' = config.lines[l][2].text
          /\ Skips(pos', at[l + 1])
      BY <1>5, <1>6, <1>7, <3>3, ProcessRead
    <3>5. RowAt(config, l) = Row(config.lines[l])
      BY <1>6, <3>1, <3>2 DEF RowAt
    <3> QED
      BY <1>6, <3>1, <3>2, <3>4, <3>5
  <2>2. CASE ~ (k < n)
    <3>1. LineNo(k, n) = n /\ LineNo(k + 1, n) = n /\ ~ (k + 1 <= n) /\ (n > 0 => k > 0)
      BY <1>7, <1>8, <2>2 DEF LineNo
    <3>2. Skips(pos, Len(file) + 1)
      BY <1>7, <1>9, <3>1
    <3>3. /\ new = Append(old, [start |-> GARBAGE, path |-> proc, prio |-> GARBAGE])
          /\ proc' = proc
          /\ Skips(pos', Len(file) + 1)
      BY <1>6, <1>7, <3>2, NothingRead
    <3>4. n > 0 => proc = lines[n][2].text
      BY <1>9, <3>1
    <3>5. n > 0 => RowAt(config, k + 1) = [start |-> GARBAGE, path |-> proc, prio |-> GARBAGE]
      BY <1>6, <3>1, <3>4 DEF RowAt
    <3> QED
      BY <1>7, <3>1, <3>3, <3>4, <3>5
  <2> QED
    BY <2>1, <2>2
<1>11. PICK row : new = Append(old, row) /\ (k + 1 <= n \/ n > 0 => row = RowAt(config, k + 1))
  BY <1>10
<1>12. Appended(old, row, new)
  BY <1>8, <1>11, AppendIs
<1>13. /\ Len(new) = k + 1
       /\ \A i \in 1 .. k + 1 : i <= n \/ n > 0 => new[i] = RowAt(config, i)
  <2>1. /\ Len(new) = k + 1 /\ \A i \in 1 .. k : new[i] = old[i]
        /\ new[k + 1] = row
    BY <1>6, <1>12 DEF Appended
  <2>2. ASSUME NEW i \in 1 .. k + 1, i <= n \/ n > 0 PROVE new[i] = RowAt(config, i)
    <3>1. i \in 1 .. k \/ i = k + 1
      BY <1>8
    <3> QED
      BY <1>9, <1>11, <2>1, <2>2, <3>1
  <2> QED
    BY <2>1, <2>2
<1>14. ConfigLines(input'.config) = at /\ input'.config = config
  BY <1>2, <1>4
<1>15. TableRows'
  BY <1>6, <1>13, <1>14 DEF TableRows
<1>16. TableName'
  BY <1>6, <1>10, <1>13, <1>14 DEF TableName
<1>17. TablePlace'
  <2>1. PICK q : q = at[LineNo(k + 1, n) + 1]
    OBVIOUS
  <2>2. Skips(pos, q)'
    BY <1>2, <1>10, <2>1 DEF Skips, Eof
  <2> QED
    BY <1>6, <1>13, <1>14, <2>1, <2>2 DEF TablePlace
<1> QED
  BY <1>15, <1>16, <1>17 DEF Table

\* A step that changes nothing keeps Table.
LEMMA TableStutter ==
  ASSUME Table, UNCHANGED vars
  PROVE  Table'
<1>1. UNCHANGED <<input, stage, file, pos, num_processes, ld_processes, proc>>
  BY DEF vars, configVars
<1>2. ConfigInOrder' => ConfigInOrder
  BY <1>1 DEF ConfigInOrder
<1> QED
  BY <1>1, <1>2 DEF Table, TableRows, TablePlace, TableName, RowAt, Skips, Eof

\* Every step keeps Table.
LEMMA TableNext == Types /\ Table /\ [Next]_vars => Table'
<1> SUFFICES ASSUME Types, Table, [Next]_vars PROVE Table'
  OBVIOUS
<1>1. CASE read_header
  BY <1>1, TableHeader
<1>2. CASE read_process
  BY <1>2, TableProcess
<1>3. CASE config_read
  BY <1>3, TableKept DEF config_read, configVars
<1>4. CASE open
  <2>1. UNCHANGED <<input, ld_processes>>
    BY <1>4, OpenCases
  <2>2. OpensNone \/ \E program : Opens(program)
    BY <1>4, OpenCases
  <2>3. stage' # "config"
    BY <2>2 DEF OpensNone, Opens
  <2> QED
    BY <2>1, <2>3, TableKept
<1>5. CASE load_instruction
  <2>1. UNCHANGED <<input, ld_processes>>
    BY <1>5 DEF load_instruction, configVars
  <2>2. FileOK /\ pos \in 1 .. Len(file) + 1
    BY DEF Types, TypeOK
  <2>3. stage' # "config"
    BY <1>5, <2>2, InstructionTyped DEF Loads
  <2> QED
    BY <2>1, <2>3, TableKept
<1>6. CASE return_proc
  BY <1>6, TableKept DEF return_proc, configVars
<1>7. CASE Ended \/ UNCHANGED vars
  <2>1. UNCHANGED vars
    BY <1>7 DEF Ended
  <2> QED
    BY <2>1, TableStutter
<1> QED
  BY <1>1, <1>2, <1>3, <1>4, <1>5, <1>6, <1>7 DEF Next

\* The table that read_config fills follows the lines of the file, turn by turn.
THEOREM TableInvariant == Spec => [](Types /\ Table)
BY TypesInit, TypesNext, TableInit, TableNext, PTL DEF Spec

\* Listed is the first lines.
LEMMA ListedIs ==
  ASSUME Types
  PROVE  /\ Len(input.config.lines) \in Nat /\ input.config.num \in Nat
         /\ DOMAIN input.config.lines = 1 .. Len(input.config.lines)
         /\ DOMAIN ld_processes = 1 .. Len(ld_processes) /\ Len(ld_processes) \in Nat
         /\ Len(ld_processes) > 0 => Len(ld_processes) <= input.config.num
<1>1. ConfigOK(input.config)
  BY InputOK DEF Types
<1>2. input.config.lines \in Seq(Seq(Token)) /\ input.config.num \in Nat
  BY <1>1 DEF ConfigOK
<1>3. Len(input.config.lines) \in Nat /\ DOMAIN input.config.lines = 1 .. Len(input.config.lines)
  BY <1>2
<1>4. DOMAIN ld_processes = 1 .. Len(ld_processes) /\ Len(ld_processes) \in Nat
  BY SeqLen DEF Types
<1>5. Len(ld_processes) > 0 => Len(ld_processes) <= input.config.num
  BY EmptySeq DEF Types, TypeOK
<1> QED
  BY <1>2, <1>3, <1>4, <1>5

\* Table says so of the lines that the header announces ...
LEMMA TableFollows == Types /\ Table => TableFollowsConfig
<1> SUFFICES ASSUME Types, Table, ConfigInOrder, NEW i \in DOMAIN ld_processes \cap Listed
             PROVE  LET line == input.config.lines[i]
                    IN  ld_processes[i] = [start |-> line[1].number, path |-> line[2].text,
                                           prio  |-> line[3].number]
  BY DEF TableFollowsConfig
<1>1. i \in 1 .. Len(ld_processes) /\ i <= Len(input.config.lines)
  BY ListedIs DEF Listed
<1>2. ld_processes[i] = RowAt(input.config, i)
  BY <1>1 DEF Table, TableRows
<1> QED
  BY <1>1, <1>2 DEF RowAt, Row

\* ... and of those that are missing.
LEMMA MissingRepeats == Types /\ Table => MissingLineRepeatsName
<1> SUFFICES ASSUME Types, Table, ConfigInOrder, Listed # {}, NEW i \in DOMAIN ld_processes \ Listed
             PROVE  ld_processes[i] = [start |-> GARBAGE, path |-> ld_processes[Cardinality(Listed)].path,
                                       prio  |-> GARBAGE]
  BY DEF MissingLineRepeatsName
<1>1. PICK n, num, l : n = Len(input.config.lines) /\ num = input.config.num /\ l = Len(ld_processes)
  OBVIOUS
<1>2. n \in Nat /\ num \in Nat /\ l \in Nat /\ i \in 1 .. l /\ DOMAIN input.config.lines = 1 .. n
  BY <1>1, ListedIs
<1>3. Listed = {j \in 1 .. n : j <= num}
  BY <1>1, <1>2 DEF Listed
<1>4. l <= num
  BY <1>1, <1>2, ListedIs
<1>5. n > 0
  BY <1>2, <1>3
<1>6. i > n
  BY <1>2, <1>3, <1>4
<1>7. Listed = 1 .. n
  BY <1>2, <1>3, <1>4, <1>6
<1>8. Cardinality(Listed) = n
  <2>1. Cardinality(1 .. n) = IF 1 > n THEN 0 ELSE n - 1 + 1
    BY <1>2, FS_Interval
  <2> QED
    BY <1>2, <1>5, <1>7, <2>1
<1>9. ld_processes[i] = RowAt(input.config, i)
  BY <1>1, <1>2, <1>5 DEF Table, TableRows
<1>10. ld_processes[n] = RowAt(input.config, n)
  <2>1. n \in 1 .. Len(ld_processes)
    BY <1>1, <1>2, <1>5, <1>6
  <2> QED
    BY <1>1, <1>5, <2>1 DEF Table, TableRows
<1>11. ld_processes[n].path = input.config.lines[n][2].text
  BY <1>1, <1>2, <1>10 DEF RowAt, Row
<1>12. ~ (i <= n)
  BY <1>2, <1>6
<1> QED
  BY <1>1, <1>8, <1>9, <1>11, <1>12 DEF RowAt

\* For every configuration in order, however many lines it has and however many newlines
\* follow each of them, a process gets the start time, the name and the priority of its
\* own line (os.c:183-194).
THEOREM ConfigBecomesTable == Spec => []TableFollowsConfig
BY TableInvariant, TableFollows, PTL

\* For every configuration in order, each line that the header announces and the file
\* does not have repeats the last name that was read, with start time and priority as
\* malloc left them (os.c:187-193).
THEOREM MissingLinesRepeat == Spec => []MissingLineRepeatsName
BY TableInvariant, MissingRepeats, PTL

-----------------------------------------------------------------------------
(* The text of a program *)

\* What a turn does that reads line k of the open program.
LoadsLine(program, k, at) ==
  LET line == program.lines[k]
  IN  /\ stage' = "text" /\ opcode' = line.opcode
      /\ text' = Append(text, Meant(line))
      /\ Skips(pos', at[k + 1])
      /\ opcode' = "syscall" => Instruction("syscall", sscanf_numbers(buf')) = Meant(line)

\* The word that is read at a line is its opcode.
LEMMA WordRead ==
  ASSUME NEW program, NEW at, Opened(program, at), NEW k \in 1 .. Len(program.lines),
         pos \in 1 .. Len(file) + 1, Skips(pos, at[k])
  PROVE  next_word.word = program.lines[k].opcode /\ next_word.pos = at[k] + 1
<1>1. PICK p, op : p = at[k] /\ op = program.lines[k].opcode
  OBVIOUS
<1>2. FileOK /\ Len(file) \in Nat
  BY FileTokens DEF Opened
<1>3. skip_space(pos) = p
  BY <1>1, <1>2, SkipIs
<1>4. LinePlaced(program, k, at[k], at[k + 1], Len(program.lines[k].numbers))
  BY LinePlaces
<1>5. p \in 3 .. Len(file) /\ file[p] = Word(op)
  BY <1>1, <1>4 DEF LinePlaced
<1>6. ~ Eof(p)
  <2>1. ~ (p > Len(file))
    BY <1>2, <1>5
  <2> QED
    BY <2>1 DEF Eof
<1>7. file[p].text = op
  BY <1>5 DEF Word
<1>8. next_word = [word |-> op, pos |-> p + 1]
  BY <1>3, <1>6, <1>7 DEF next_word
<1> QED
  BY <1>1, <1>8

\* A turn of the loop at a line in order does so (loader.c:61-98).
LEMMA LineLoaded ==
  ASSUME NEW program, NEW at, Opened(program, at), NEW k \in 1 .. Len(program.lines),
         pos \in 1 .. Len(file) + 1, Skips(pos, at[k]), LineInOrder(program, k), load_instruction
  PROVE  LoadsLine(program, k, at)
<1>1. PICK p, q, op, line :
        /\ p = at[k] /\ q = at[k + 1] /\ line = program.lines[k] /\ op = line.opcode
  OBVIOUS
<1>2. next_word.word = op /\ next_word.pos = p + 1
  BY <1>1, WordRead
<1>3. opcode' = op /\ op \in Opcodes /\ stage = "text"
  BY <1>1, <1>2 DEF load_instruction, LineInOrder
<1>4. FileOK /\ Len(program.lines) \in Nat /\ line.numbers \in Seq(Int)
  BY <1>1, ProgramTyped DEF Opened
<1>5. k \in 1 .. Len(program.lines) + 1 /\ k + 1 \in 1 .. Len(program.lines) + 1
  BY <1>4
<1>6. q \in 3 .. Len(file) + 1 /\ Len(file) \in Nat
  BY <1>1, <1>4, <1>5, LineBegins, FileTokens
<1>7. Skips(q, q)
  <2>1. q \in 1 .. q /\ \A i \in q .. q - 1 : file[i] = Nl
    BY <1>6
  <2> QED
    BY <1>1, <1>5, <2>1, SkipsToLine
<1>8. CASE op = "syscall"
  <2>1. load_syscall(p + 1) /\ stage' = stage
    BY <1>2, <1>3, <1>8 DEF load_instruction
  <2>2. SyscallLine(program, k, p, q)
    <3>1. line.numbers # << >> \/ program.newlines > 0 \/ k < Len(program.lines)
      BY <1>1, <1>8 DEF LineInOrder
    <3> QED
      BY <1>1, <3>1, SyscallRead
  <2>3. PICK e : e = end_of_line(p + 1)
    OBVIOUS
  <2>4. /\ ~ Eof(p + 1) /\ e \in 1 .. q /\ \A i \in e .. q - 1 : file[i] = Nl
        /\ Instruction("syscall", sscanf_numbers(SubSeq(file, p + 1, e - 1)))
             = Instruction("syscall", line.numbers)
    BY <1>1, <2>2, <2>3 DEF SyscallLine
  <2>5. /\ buf' = SubSeq(file, p + 1, e - 1) /\ pos' = e
        /\ text' = Append(text, Instruction("syscall", sscanf_numbers(buf')))
    BY <2>1, <2>3, <2>4 DEF load_syscall
  <2>6. Skips(pos', q)
    BY <1>1, <1>5, <2>4, <2>5, SkipsToLine
  <2>7. Meant(line) = Instruction("syscall", line.numbers)
    BY <1>1, <1>8 DEF Meant
  <2>8. Instruction("syscall", sscanf_numbers(buf')) = Meant(line)
    BY <2>4, <2>5, <2>7
  <2>9. text' = Append(text, Meant(line))
    BY <2>5, <2>8
  <2> QED
    BY <1>1, <1>3, <2>1, <2>6, <2>8, <2>9 DEF LoadsLine
<1>9. CASE op # "syscall"
  <2>1. load_numbers(op, p + 1) /\ stage' = stage
    BY <1>2, <1>3, <1>9 DEF load_instruction
  <2>2. Len(line.numbers) <= arity(op) /\ arity(op) \in Nat
    BY <1>1, <1>3, <1>9, ArityTyped DEF LineInOrder
  <2>3. /\ fscanf_numbers(p + 1, arity(op)).pos = q
        /\ Instruction(op, fscanf_numbers(p + 1, arity(op)).stored) = Instruction(op, line.numbers)
    <3>1. PICK n : n = arity(op)
      OBVIOUS
    <3>2. n \in Nat /\ Len(program.lines[k].numbers) <= n
      BY <1>1, <2>2, <3>1
    <3>3. StoresNumbers(at[k], at[k + 1], n, op, program.lines[k].numbers)
      BY <3>2, LineInstruction
    <3>4. StoresNumbers(p, q, n, op, line.numbers)
      BY <1>1, <3>3
    <3> QED
      BY <3>1, <3>4 DEF StoresNumbers
  <2>4. Meant(line) = Instruction(op, line.numbers)
    BY <1>1 DEF Meant
  <2>5. CASE op = "calc"
    <3>1. text' = Append(text, Instruction(op, << >>)) /\ pos' = p + 1
      BY <2>1, <2>5 DEF load_numbers
    <3>2. Len(line.numbers) <= 0
      BY <2>2, <2>5 DEF arity
    <3>3. line.numbers = << >> /\ Len(line.numbers) = 0
      BY <1>4, <3>2
    <3>4. NumbersAt(p + 1, line.numbers, 0, q)
      BY <1>1, <3>2, LineNumbers
    <3>5. p \in 3 .. Len(file) /\ p + 0 + 1 <= q /\ \A i \in p + 0 + 1 .. q - 1 : file[i] = Nl
      <4>1. LinePlaced(program, k, p, q, Len(line.numbers))
        BY <1>1, LinePlaces
      <4> QED
        BY <3>3, <4>1 DEF LinePlaced
    <3>6. p + 1 \in 1 .. q /\ p + 0 + 1 = p + 1
      BY <1>6, <3>5
    <3>7. Skips(p + 1, q)
      BY <1>1, <1>5, <3>5, <3>6, SkipsToLine
    <3> QED
      BY <1>1, <1>3, <1>9, <2>1, <2>4, <3>1, <3>3, <3>7 DEF LoadsLine
  <2>6. CASE op # "calc"
    <3>1. /\ text' = Append(text, Instruction(op, fscanf_numbers(p + 1, arity(op)).stored))
          /\ pos' = fscanf_numbers(p + 1, arity(op)).pos
      BY <2>1, <2>6 DEF load_numbers
    <3> QED
      BY <1>1, <1>3, <1>7, <1>9, <2>1, <2>3, <2>4, <3>1 DEF LoadsLine
  <2> QED
    BY <2>5, <2>6
<1> QED
  BY <1>8, <1>9

\* What a turn does when the program has ended.
LoadsAgain ==
  /\ opcode' = opcode /\ buf' = buf
  /\ text' = Append(text, IF opcode = "syscall" THEN Instruction("syscall", sscanf_numbers(buf))
                                                ELSE Instruction(opcode, << >>))
  /\ Skips(pos', Len(file) + 1)

\* So does every turn behind the last line, unless there was no opcode to keep.
LEMMA RestLoaded ==
  ASSUME FileOK, pos \in 1 .. Len(file) + 1, Skips(pos, Len(file) + 1), load_instruction
  PROVE  /\ opcode \in Opcodes => stage' = "text"
         /\ stage' = "text" => LoadsAgain
<1>1. PICK p : p = Len(file) + 1
  OBVIOUS
<1>2. skip_space(pos) = p /\ Len(file) \in Nat
  BY <1>1, SkipIs, FileTokens
<1>3. Eof(p) /\ end_of_line(p) = p /\ Skips(p, p)
  <2>1. Eof(p) /\ end_of_line(p) = p
    <3>1. 0 \in Nat
      OBVIOUS
    <3> QED
      BY <1>1, <3>1, PastEnd
  <2>2. Skips(p, p)
    BY <1>1, <1>2, <2>1 DEF Skips
  <2> QED
    BY <2>1, <2>2
<1>4. next_word.word = opcode /\ next_word.pos = p
  BY <1>2, <1>3 DEF next_word
<1>5. opcode' = opcode /\ stage = "text"
  BY <1>4 DEF load_instruction
<1>6. opcode \in Opcodes => stage' = "text"
  BY <1>5 DEF load_instruction
<1>7. ASSUME stage' = "text" PROVE LoadsAgain
  <2>1. CASE opcode' = "syscall" /\ load_syscall(next_word.pos)
    <3>1. buf' = buf /\ text' = Append(text, Instruction("syscall", sscanf_numbers(buf))) /\ pos' = p
      BY <1>3, <1>4, <2>1 DEF load_syscall
    <3> QED
      BY <1>1, <1>3, <1>5, <2>1, <3>1 DEF LoadsAgain
  <2>2. CASE opcode' \in Opcodes \ {"syscall"} /\ load_numbers(opcode', next_word.pos)
    <3>1. PICK op : op = opcode
      OBVIOUS
    <3>2. op \in Opcodes /\ op # "syscall" /\ load_numbers(op, p)
      BY <1>4, <1>5, <2>2, <3>1
    <3>3. PICK n : n = arity(op)
      OBVIOUS
    <3>4. n \in Nat
      BY <3>2, <3>3, ArityTyped
    <3>5. /\ fscanf_numbers(p, n).pos = p
          /\ Instruction(op, fscanf_numbers(p, n).stored) = Instruction(op, << >>)
      BY <1>1, <3>4, PastEnd
    <3>6. buf' = buf /\ text' = Append(text, Instruction(op, << >>)) /\ pos' = p
      BY <3>2, <3>3, <3>5 DEF load_numbers
    <3> QED
      BY <1>1, <1>3, <1>5, <3>1, <3>2, <3>6 DEF LoadsAgain
  <2> QED
    BY <1>7, <2>1, <2>2 DEF load_instruction
<1> QED
  BY <1>6, <1>7

\* Where the lines of a program begin, and what turn i makes.
ProgramLines(program) == CHOOSE at : LaidProgram(ProgramFile(program), program, at)

Again(line) == IF line.opcode = "syscall" THEN Meant(line) ELSE Instruction(line.opcode, << >>)

InstructionAt(program, i) ==
  LET n == Len(program.lines)
  IN  IF i <= n THEN Meant(program.lines[i]) ELSE Again(program.lines[n])

TextLines(program) ==
  LET n == Len(program.lines)
  IN  \A i \in 1 .. Len(text) : i <= n \/ n > 0 => text[i] = InstructionAt(program, i)

TextPlace(program) ==
  LET n == Len(program.lines)
  IN  Skips(pos, ProgramLines(program)[LineNo(Len(text), n) + 1])

\* `opcode` and `buf` keep what the last line has left in them.
TextKept(program) ==
  LET n == Len(program.lines)
      line == program.lines[LineNo(Len(text), n)]
  IN  n > 0 /\ Len(text) > 0 =>
        /\ opcode = line.opcode
        /\ opcode = "syscall" => Instruction("syscall", sscanf_numbers(buf)) = Meant(line)

Text ==
  stage = "text" /\ ProgramInOrder(Current) =>
    TextLines(Current) /\ TextPlace(Current) /\ TextKept(Current)

\* While the loader reads a program, that is the open file.
LEMMA ProgramOpened ==
  ASSUME Types, stage = "text"
  PROVE  Opened(Current, ProgramLines(Current))
<1>1. Current \in Program
  BY InputOK DEF Types, Current
<1>2. PICK program : program = Current
  OBVIOUS
<1>3. \E at : LaidProgram(ProgramFile(program), program, at)
  BY <1>1, <1>2, ProgramLaid
<1>4. LaidProgram(ProgramFile(program), program, ProgramLines(program))
  BY <1>3 DEF ProgramLines
<1>5. FileOK /\ file = ProgramFile(Current)
  BY DEF Types
<1> QED
  BY <1>1, <1>2, <1>4, <1>5 DEF Opened

\* One turn of the loop of a program in order.
Turn(program) ==
  LET n == Len(program.lines)
      k == Len(text)
  IN  /\ k + 1 <= n \/ n > 0 => text' = Append(text, InstructionAt(program, k + 1))
      /\ \E x : text' = Append(text, x)
      /\ Skips(pos', ProgramLines(program)[LineNo(k + 1, n) + 1])
      /\ n > 0 => LET line == program.lines[LineNo(k + 1, n)]
                  IN  /\ opcode' = line.opcode
                      /\ opcode' = "syscall" =>
                           Instruction("syscall", sscanf_numbers(buf')) = Meant(line)

\* Every turn of the loop of load is such a turn, for a program in order.
LEMMA TurnDone ==
  ASSUME Types, Text, ProgramInOrder(Current), load_instruction
  PROVE  /\ Len(Current.lines) > 0 => stage' = "text"
         /\ stage' = "text" => Turn(Current)
<1>1. PICK program, at, n, k, lines :
        /\ program = Current /\ at = ProgramLines(program) /\ lines = program.lines
        /\ n = Len(lines) /\ k = Len(text)
  OBVIOUS
<1>2. stage = "text"
  BY DEF load_instruction
<1>3. Opened(program, at) /\ program \in Program
  BY <1>1, <1>2, ProgramOpened DEF Opened
<1>4. /\ n \in Nat /\ DOMAIN lines = 1 .. n /\ \A i \in 1 .. n : lines[i].opcode \in Words
  BY <1>1, <1>3, ProgramTyped
<1>5. k \in Nat
  BY <1>1, SeqLen DEF Types
<1>6. /\ at[n + 1] = Len(file) + 1 /\ FileOK /\ pos \in 1 .. Len(file) + 1
  BY <1>1, <1>3 DEF Opened, LaidProgram, Types, TypeOK
<1>7. /\ Skips(pos, at[LineNo(k, n) + 1])
      /\ n > 0 /\ k > 0 =>
           /\ opcode = lines[LineNo(k, n)].opcode
           /\ opcode = "syscall" =>
                Instruction("syscall", sscanf_numbers(buf)) = Meant(lines[LineNo(k, n)])
  BY <1>1, <1>2 DEF Text, TextPlace, TextKept
<1>8. \A i \in 1 .. n : LineInOrder(program, i) /\ lines[i].opcode \in Opcodes
  BY <1>1, <1>4 DEF ProgramInOrder, LineInOrder
<1>9. CASE k < n
  <2>1. LineNo(k, n) + 1 = k + 1 /\ LineNo(k + 1, n) = k + 1 /\ k + 1 \in 1 .. n /\ k + 1 <= n
    BY <1>4, <1>5, <1>9 DEF LineNo
  <2>2. PICK l : l = k + 1
    OBVIOUS
  <2>3. l \in 1 .. Len(program.lines) /\ Skips(pos, at[l]) /\ LineInOrder(program, l)
    BY <1>1, <1>7, <1>8, <2>1, <2>2
  <2>4. LoadsLine(program, l, at)
    BY <1>3, <1>6, <2>3, LineLoaded
  <2>5. /\ stage' = "text" /\ opcode' = lines[l].opcode
        /\ text' = Append(text, Meant(lines[l]))
        /\ Skips(pos', at[l + 1])
        /\ opcode' = "syscall" => Instruction("syscall", sscanf_numbers(buf')) = Meant(lines[l])
    BY <1>1, <2>4 DEF LoadsLine
  <2>6. InstructionAt(program, l) = Meant(lines[l])
    BY <1>1, <2>1, <2>2 DEF InstructionAt
  <2>7. Turn(program)
    BY <1>1, <2>1, <2>2, <2>5, <2>6 DEF Turn
  <2> QED
    BY <1>1, <2>5, <2>7
<1>10. CASE ~ (k < n)
  <2>1. LineNo(k, n) = n /\ LineNo(k + 1, n) = n /\ ~ (k + 1 <= n) /\ (n > 0 => k > 0 /\ n \in 1 .. n)
    BY <1>4, <1>5, <1>10 DEF LineNo
  <2>2. Skips(pos, Len(file) + 1)
    BY <1>6, <1>7, <2>1
  <2>3. /\ opcode \in Opcodes => stage' = "text"
        /\ stage' = "text" => LoadsAgain
    BY <1>6, <2>2, RestLoaded
  <2>4. n > 0 => /\ opcode = lines[n].opcode /\ opcode \in Opcodes
                 /\ opcode = "syscall" => Instruction("syscall", sscanf_numbers(buf)) = Meant(lines[n])
    BY <1>7, <1>8, <2>1
  <2>5. ASSUME stage' = "text" PROVE Turn(program)
    <3>1. PICK x : x = IF opcode = "syscall" THEN Instruction("syscall", sscanf_numbers(buf))
                                             ELSE Instruction(opcode, << >>)
      OBVIOUS
    <3>2. opcode' = opcode /\ buf' = buf /\ text' = Append(text, x) /\ Skips(pos', Len(file) + 1)
      BY <2>3, <2>5, <3>1 DEF LoadsAgain
    <3>3. n > 0 => x = InstructionAt(program, k + 1)
      BY <1>1, <2>1, <2>4, <3>1 DEF InstructionAt, Again
    <3>4. n > 0 /\ opcode' = "syscall" =>
             Instruction("syscall", sscanf_numbers(buf')) = Meant(lines[n])
      BY <2>4, <3>2
    <3> QED
      BY <1>1, <1>6, <2>1, <2>4, <3>2, <3>3, <3>4 DEF Turn
  <2> QED
    BY <1>1, <2>3, <2>4, <2>5
<1> QED
  BY <1>9, <1>10

\* Text holds at the start.
LEMMA TextInit == Init => Text
BY DEF Init, Text

\* open leaves the file in front of the first line, with no text yet.
LEMMA TextOpen ==
  ASSUME Types, open
  PROVE  Text'
<1>1. SUFFICES ASSUME stage' = "text", ProgramInOrder(Current') PROVE Text'
  BY DEF Text
<1>2. stage = "open" /\ UNCHANGED <<input, num_processes, ld_processes, loaded, proc>>
  BY OpenCases DEF open
<1>3. PICK program : Opens(program)
  BY <1>1, <1>2, OpenCases DEF OpensNone
<1>4. /\ program = Current /\ program \in Program
      /\ file' = ProgramFile(program) /\ pos' = 3 /\ text' = << >>
  BY <1>3 DEF Opens
<1>5. Current' = program
  BY <1>2, <1>4 DEF Current
<1>6. PICK at, f, n : at = ProgramLines(program) /\ f = ProgramFile(program) /\ n = Len(program.lines)
  OBVIOUS
<1>7. LaidProgram(f, program, at)
  <2>1. \E b : LaidProgram(ProgramFile(program), program, b)
    BY <1>4, ProgramLaid
  <2> QED
    BY <1>6, <2>1 DEF ProgramLines
<1>8. n \in Nat /\ 1 \in 1 .. n + 1
  BY <1>4, <1>6, ProgramTyped
<1>9. PICK q : q = at[1]
  OBVIOUS
<1>10. Begins(f, q)
  BY <1>4, <1>6, <1>7, <1>8, <1>9, LaidBegins
<1>11. q \in 3 .. Len(f) + 1 /\ (q > Len(f) \/ f[q] # Nl) /\ \A i \in 3 .. q - 1 : f[i] = Nl
  BY <1>7, <1>9, <1>10 DEF Begins, LaidProgram
<1>12. Skips(pos, q)'
  BY <1>4, <1>6, <1>11 DEF Skips, Eof
<1>13. Len(text') = 0 /\ LineNo(0, n) + 1 = 1
  BY <1>4, <1>8, EmptySeq DEF LineNo
<1>14. TextPlace(program)'
  BY <1>6, <1>9, <1>12, <1>13 DEF TextPlace
<1>15. TextLines(program)' /\ TextKept(program)'
  BY <1>13 DEF TextLines, TextKept
<1> HIDE DEF Current
<1>16. (TextLines(Current) /\ TextPlace(Current) /\ TextKept(Current))'
  BY <1>5, <1>14, <1>15 DEF TextLines, TextPlace, TextKept
<1> QED
  BY <1>16 DEF Text

\* Each turn of the loop adds the instruction of its line, or the last one again.
LEMMA TextInstruction ==
  ASSUME Types, Text, load_instruction
  PROVE  Text'
<1>1. SUFFICES ASSUME stage' = "text", ProgramInOrder(Current') PROVE Text'
  BY DEF Text
<1>2. stage = "text" /\ UNCHANGED <<input, file, ld_processes, loaded>>
  BY DEF load_instruction, configVars
<1>3. Current' = Current
  BY <1>2 DEF Current
<1>4. PICK program : program = Current
  OBVIOUS
<1> HIDE DEF Current
<1>5. ProgramInOrder(Current)
  BY <1>1, <1>3
<1>6. Turn(program) /\ TextLines(program)
  BY <1>1, <1>2, <1>4, <1>5, TurnDone DEF Text
<1>7. PICK n, k, old, new : /\ n = Len(program.lines) /\ k = Len(text) /\ old = text /\ new = text'
  OBVIOUS
<1>8. /\ k + 1 <= n \/ n > 0 => new = Append(old, InstructionAt(program, k + 1))
      /\ \E x : new = Append(old, x)
      /\ Skips(pos', ProgramLines(program)[LineNo(k + 1, n) + 1])
  BY <1>6, <1>7 DEF Turn
<1>9. k \in Nat /\ IsSeq(old)
  BY <1>7, SeqLen DEF Types
<1>10. PICK x : new = Append(old, x) /\ (k + 1 <= n \/ n > 0 => x = InstructionAt(program, k + 1))
  BY <1>8
<1>11. Appended(old, x, new)
  BY <1>9, <1>10, AppendIs
<1>12. Len(new) = k + 1 /\ (\A i \in 1 .. k : new[i] = old[i]) /\ new[k + 1] = x
  BY <1>7, <1>11 DEF Appended
<1>13. TextLines(program)'
  <2>1. ASSUME NEW i \in 1 .. k + 1, i <= n \/ n > 0 PROVE new[i] = InstructionAt(program, i)
    <3>1. i \in 1 .. k \/ i = k + 1
      BY <1>9
    <3> QED
      BY <1>6, <1>7, <1>10, <1>12, <2>1, <3>1 DEF TextLines
  <2> QED
    BY <1>7, <1>12, <2>1 DEF TextLines
<1>14. TextPlace(program)'
  <2>1. PICK q : q = ProgramLines(program)[LineNo(k + 1, n) + 1]
    OBVIOUS
  <2>2. Skips(pos, q)'
    BY <1>2, <1>8, <2>1 DEF Skips, Eof
  <2> QED
    BY <1>7, <1>12, <2>1, <2>2 DEF TextPlace
<1>15. TextKept(program)'
  BY <1>6, <1>7, <1>12 DEF Turn, TextKept, sscanf_numbers
<1>16. (TextLines(Current) /\ TextPlace(Current) /\ TextKept(Current))'
  BY <1>3, <1>4, <1>13, <1>14, <1>15 DEF TextLines, TextPlace, TextKept
<1> QED
  BY <1>16 DEF Text

\* A step that changes nothing keeps Text.
LEMMA TextStutter ==
  ASSUME Text, UNCHANGED vars
  PROVE  Text'
<1>1. UNCHANGED <<input, stage, file, pos, ld_processes, opcode, buf, text, loaded>>
  BY DEF vars, configVars, loadVars
<1>2. Current' = Current
  BY <1>1 DEF Current
<1> HIDE DEF Current
<1>3. TextLines(Current)' = TextLines(Current)
  BY <1>1, <1>2 DEF TextLines
<1>4. TextPlace(Current) => TextPlace(Current)'
  BY <1>1, <1>2 DEF TextPlace, Skips, Eof
<1>5. TextKept(Current) => TextKept(Current)'
  BY <1>1, <1>2 DEF TextKept, sscanf_numbers
<1> QED
  BY <1>1, <1>2, <1>3, <1>4, <1>5 DEF Text

\* Every step keeps Text.
LEMMA TextNext == Types /\ Text /\ [Next]_vars => Text'
<1> SUFFICES ASSUME Types, Text, [Next]_vars PROVE Text'
  OBVIOUS
<1>1. CASE read_header \/ read_process \/ config_read \/ return_proc
  <2>1. stage' # "text"
    BY <1>1 DEF read_header, read_process, config_read, return_proc
  <2> QED
    BY <2>1 DEF Text
<1>2. CASE open
  BY <1>2, TextOpen
<1>3. CASE load_instruction
  BY <1>3, TextInstruction
<1>4. CASE Ended \/ UNCHANGED vars
  <2>1. UNCHANGED vars
    BY <1>4 DEF Ended
  <2> QED
    BY <2>1, TextStutter
<1> QED
  BY <1>1, <1>2, <1>3, <1>4 DEF Next

\* The text that load fills follows the lines of the program, turn by turn.
THEOREM TextInvariant == Spec => [](Types /\ Table /\ Text)
BY TypesInit, TypesNext, TableInit, TableNext, TextInit, TextNext, PTL DEF Spec

\* Text says so of the lines that the program has ...
LEMMA TextFollows == Types /\ Text => TextFollowsProgram
<1> SUFFICES ASSUME Types, Text, stage = "text", ProgramInOrder(Current),
                    NEW k \in DOMAIN text \cap DOMAIN Current.lines
             PROVE  text[k] = Meant(Current.lines[k])
  BY DEF TextFollowsProgram
<1>1. Current \in Program
  BY ProgramOpened DEF Opened
<1>2. k \in 1 .. Len(text) /\ k \in 1 .. Len(Current.lines) /\ Len(Current.lines) \in Nat
  BY <1>1, ProgramTyped, SeqLen DEF Types
<1>3. k <= Len(Current.lines)
  BY <1>2
<1> QED
  BY <1>2, <1>3 DEF Text, TextLines, InstructionAt

\* ... and of those that are missing.
LEMMA ShortRepeats == Types /\ Text => ShortProgramRepeats
<1> SUFFICES ASSUME Types, Text, stage = "text", ProgramInOrder(Current), Current.lines # << >>,
                    NEW k \in DOMAIN text \ DOMAIN Current.lines
             PROVE  text[k] = Again(Current.lines[Len(Current.lines)])
  BY DEF ShortProgramRepeats, Again
<1>1. Current \in Program
  BY ProgramOpened DEF Opened
<1>2. k \in 1 .. Len(text) /\ k \notin 1 .. Len(Current.lines) /\ Len(Current.lines) \in Nat
      /\ Len(text) \in Nat
  BY <1>1, ProgramTyped, SeqLen DEF Types
<1>3. Len(Current.lines) > 0
  <2>1. Current.lines \in Seq(ProgramLine)
    BY <1>1 DEF Program, ProgramLine
  <2> QED
    BY <1>2, <2>1
<1>4. ~ (k <= Len(Current.lines))
  BY <1>2
<1> QED
  BY <1>2, <1>3, <1>4 DEF Text, TextLines, InstructionAt

\* For every program in order, of any length and with any newlines between its lines,
\* instruction k is that of line k: no line shifts another one by a token, not even a
\* system call, whose line fgets takes whole, or a line with too few numbers, at whose
\* end "%u" stops (loader.c:60-100).
THEOREM ProgramBecomesText == Spec => []TextFollowsProgram
BY TextInvariant, TextFollows, PTL

\* For every program in order that is shorter than its header says, each missing line
\* repeats the last one: a system call with its arguments, which `buf` keeps, any
\* other instruction with operands that nobody has set (loader.c:60-100).
THEOREM ShortProgramGoesOn == Spec => []ShortProgramRepeats
BY TextInvariant, ShortRepeats, PTL

-----------------------------------------------------------------------------
(* Why the loader stops *)

Cause ==
  \/ ~ ConfigInOrder
  \/ Listed = {}
  \/ \E i \in Listed :
       LET name == input.config.lines[i][2].text
       IN  \/ name \notin DOMAIN input.disk
           \/ ~ ProgramInOrder(input.disk[name])
           \/ input.disk[name].lines = << >> /\ input.disk[name].size > 0

\* Every name of the table is that of a line.
LEMMA NameListed ==
  ASSUME Types, Table, ConfigInOrder, Listed # {}, NEW i \in 1 .. Len(ld_processes)
  PROVE  \E l \in Listed : ld_processes[i].path = input.config.lines[l][2].text
<1>1. PICK n, num, m : n = Len(input.config.lines) /\ num = input.config.num /\ m = Len(ld_processes)
  OBVIOUS
<1>2. n \in Nat /\ num \in Nat /\ m \in Nat /\ i \in 1 .. m /\ DOMAIN input.config.lines = 1 .. n
      /\ (m > 0 => m <= num)
  BY <1>1, ListedIs
<1>3. Listed = {j \in 1 .. n : j <= num}
  BY <1>1, <1>2 DEF Listed
<1>4. n > 0
  BY <1>2, <1>3
<1>5. ld_processes[i] = RowAt(input.config, i)
  BY <1>1, <1>4 DEF Table, TableRows
<1>6. CASE i <= n
  <2>1. i \in Listed
    BY <1>2, <1>3, <1>6
  <2>2. ld_processes[i].path = input.config.lines[i][2].text
    BY <1>1, <1>5, <1>6 DEF RowAt, Row
  <2> QED
    BY <2>1, <2>2
<1>7. CASE ~ (i <= n)
  <2>1. n \in Listed
    BY <1>2, <1>3, <1>4, <1>7
  <2>2. ld_processes[i].path = input.config.lines[n][2].text
    BY <1>1, <1>5, <1>7 DEF RowAt
  <2> QED
    BY <2>1, <2>2
<1> QED
  BY <1>6, <1>7

\* Where fopen fails (loader.c:47).
LEMMA OpenExits ==
  ASSUME Types, Table, open, stage' = "exit"
  PROVE  Cause
<1>1. SUFFICES ASSUME ConfigInOrder, Listed # {} PROVE Cause
  BY DEF Cause
<1>2. OpensNone /\ stage = "open" /\ Len(loaded) # num_processes
      /\ ld_processes[Len(loaded) + 1].path \notin DOMAIN input.disk
  BY OpenCases DEF OpensNone, Opens
<1>3. Len(loaded) + 1 \in 1 .. Len(ld_processes)
  <2>1. PICK l, m : l = Len(loaded) /\ m = Len(ld_processes)
    OBVIOUS
  <2>2. l \in Nat /\ m \in Nat /\ l <= m /\ l # m
    BY <1>2, <2>1, SeqLen DEF Types, TypeOK
  <2>3. l + 1 \in 1 .. m
    BY ONLY <2>2
  <2> QED
    BY <2>1, <2>3
<1>4. PICK l \in Listed : ld_processes[Len(loaded) + 1].path = input.config.lines[l][2].text
  BY <1>1, <1>3, NameListed
<1> QED
  BY <1>2, <1>4 DEF Cause

\* Where get_opcode finds no opcode (loader.c:31).
LEMMA TextExits ==
  ASSUME Types, Table, Text, load_instruction, stage' = "exit"
  PROVE  Cause
<1>1. SUFFICES ASSUME ConfigInOrder, Listed # {} PROVE Cause
  BY DEF Cause
<1>2. stage = "text" /\ Len(text) < code_size
  BY DEF load_instruction, more_text
<1>3. PICK path : path = ld_processes[Len(loaded) + 1].path
  OBVIOUS
<1>4. Current = input.disk[path] /\ code_size = Current.size /\ Current \in Program
  BY <1>2, <1>3, ProgramOpened DEF Types, Current, Opened
<1>5. Len(loaded) + 1 \in 1 .. Len(ld_processes)
  <2>1. PICK l, m : l = Len(loaded) /\ m = Len(ld_processes)
    OBVIOUS
  <2>2. l \in Nat /\ m \in Nat /\ l < m
    BY <1>2, <2>1, SeqLen DEF Types
  <2>3. l + 1 \in 1 .. m
    BY ONLY <2>2
  <2> QED
    BY <2>1, <2>3
<1>6. PICK l \in Listed : path = input.config.lines[l][2].text
  BY <1>1, <1>3, <1>5, NameListed
<1>7. ProgramInOrder(Current) => Current.lines = << >> /\ Current.size > 0
  <2>1. SUFFICES ASSUME ProgramInOrder(Current) PROVE Current.lines = << >> /\ Current.size > 0
    OBVIOUS
  <2>2. ~ (Len(Current.lines) > 0)
    BY <2>1, TurnDone
  <2>3. Current.lines \in Seq(ProgramLine) /\ Current.size \in Nat
    BY <1>4 DEF Program, ProgramLine
  <2>4. Current.lines = << >>
    BY <2>2, <2>3
  <2>5. Current.size > 0
    <3>1. Len(text) \in Nat
      BY SeqLen DEF Types
    <3> QED
      BY <1>2, <1>4, <2>3, <3>1
  <2> QED
    BY <2>4, <2>5
<1> QED
  BY <1>4, <1>6, <1>7 DEF Cause

\* Every step keeps ExitHasCause.
LEMMA ExitNext == Types /\ Table /\ Text /\ ExitHasCause /\ [Next]_vars => ExitHasCause'
<1> SUFFICES ASSUME Types, Table, Text, stage = "exit" => Cause, [Next]_vars, stage' = "exit"
             PROVE  Cause'
  BY DEF ExitHasCause, Cause
<1>1. input' = input
  <2>1. CASE open
    BY <2>1, OpenCases
  <2> QED
    BY <2>1 DEF Next, vars, Ended, read_header, read_process, config_read, load_instruction, return_proc
<1>2. Cause
  <2>1. CASE open
    BY <2>1, OpenExits
  <2>2. CASE load_instruction
    BY <2>2, TextExits
  <2>3. CASE read_header \/ read_process \/ config_read \/ return_proc
    BY <2>3 DEF Types, read_header, read_process, config_read, return_proc
  <2>4. CASE Ended \/ UNCHANGED vars
    <3>1. stage' = stage
      BY <2>4 DEF Ended, vars
    <3> QED
      BY <3>1
  <2> QED
    BY <2>1, <2>2, <2>3, <2>4 DEF Next
<1> QED
  BY <1>1, <1>2 DEF Cause, ConfigInOrder, Listed

\* The loader stops the program only for a cause that stands in the files: a
\* configuration out of order or empty, a name of no file, a line out of order, a
\* program without any line (loader.c:31 and 49).
THEOREM StopsForCause == Spec => []ExitHasCause
<1>1. Init => ExitHasCause
  BY DEF Init, ExitHasCause
<1> QED
  BY <1>1, ExitNext, TypesInit, TypesNext, TableInit, TableNext, TextInit, TextNext, PTL DEF Spec

-----------------------------------------------------------------------------
(* The processes *)

\* What is loaded for an entry of the table.
LoadedFrom(process, entry) ==
  LET program == input.disk[entry.path]
  IN  /\ process.path = stored_path(entry.path)
      /\ process.prio = entry.prio
      /\ process.priority = program.priority
      /\ ProgramInOrder(program) /\ Complete(program) =>
           process.text = [k \in 1 .. program.size |-> Meant(program.lines[k])]

Loaded == \A i \in 1 .. Len(loaded) : LoadedFrom(loaded[i], ld_processes[i])

\* return_proc adds a process that is loaded from its entry.
LEMMA LoadedReturn ==
  ASSUME Types, Text, Loaded, return_proc
  PROVE  Loaded'
<1>1. /\ stage = "text" /\ Len(text) = code_size
      /\ UNCHANGED <<input, ld_processes>>
  BY DEF return_proc, configVars
<1>2. Appended(loaded, NewProcess, loaded')
  BY TypesReturn
<1>3. PICK k, new : k = Len(loaded) /\ new = loaded'
  OBVIOUS
<1>4. k \in Nat /\ Len(new) = k + 1 /\ (\A i \in 1 .. k : new[i] = loaded[i]) /\ new[k + 1] = NewProcess
  BY <1>2, <1>3 DEF Appended
<1>5. PICK program, at : program = Current /\ at = ProgramLines(program)
  OBVIOUS
<1>6. Opened(program, at) /\ program \in Program
  BY <1>1, <1>5, ProgramOpened DEF Opened
<1>7. program.size \in Nat /\ Len(program.lines) \in Nat /\ Len(text) = program.size
  BY <1>1, <1>5, <1>6, ProgramTyped DEF Types
<1>8. file[1].number = program.priority
  <2>1. file[1] = Num(program.priority)
    BY <1>6 DEF Opened, LaidProgram
  <2>2. Num(program.priority).number = program.priority
    BY DEF Num
  <2> QED
    BY <2>1, <2>2
<1>9. ProgramInOrder(program) /\ Complete(program) =>
        text = [j \in 1 .. program.size |-> Meant(program.lines[j])]
  <2>1. SUFFICES ASSUME ProgramInOrder(program), Complete(program)
                 PROVE  text = [j \in 1 .. program.size |-> Meant(program.lines[j])]
    OBVIOUS
  <2>2. ASSUME NEW j \in 1 .. program.size PROVE text[j] = Meant(program.lines[j])
    <3>1. j <= Len(program.lines) /\ j \in 1 .. Len(text)
      BY <1>7, <2>1 DEF Complete
    <3> QED
      BY <1>1, <1>5, <2>1, <3>1 DEF Text, TextLines, InstructionAt
  <2>3. text = [j \in 1 .. program.size |-> text[j]]
    <3>1. IsSeq(text)
      BY DEF Types
    <3> QED
      BY <1>7, <3>1 DEF IsSeq
  <2> QED
    BY <2>2, <2>3
<1>10. LoadedFrom(NewProcess, ld_processes[k + 1])
  BY <1>3, <1>5, <1>8, <1>9 DEF LoadedFrom, NewProcess, Current
<1>11. ASSUME NEW i \in 1 .. k + 1 PROVE LoadedFrom(new[i], ld_processes[i])
  <2>1. i \in 1 .. k \/ i = k + 1
    BY <1>4
  <2> QED
    BY <1>3, <1>4, <1>10, <2>1 DEF Loaded
<1>12. ASSUME NEW i \in 1 .. k + 1 PROVE LoadedFrom(new[i], ld_processes[i])'
  BY <1>1, <1>3, <1>11 DEF LoadedFrom
<1> QED
  BY <1>3, <1>4, <1>12 DEF Loaded

\* Every step keeps Loaded.
LEMMA LoadedNext == Types /\ Text /\ Loaded /\ [Next]_vars => Loaded'
<1> SUFFICES ASSUME Types, Text, Loaded, [Next]_vars PROVE Loaded'
  OBVIOUS
<1>1. CASE UNCHANGED <<input, ld_processes, loaded>>
  BY <1>1 DEF Loaded, LoadedFrom
<1>2. CASE read_process
  <2>1. loaded' = << >>
    BY <1>2 DEF read_process, Types
  <2> QED
    BY <2>1, EmptySeq DEF Loaded
<1>3. CASE return_proc
  BY <1>3, LoadedReturn
<1>4. CASE open
  BY <1>1, <1>4, OpenCases
<1>5. CASE read_header \/ config_read \/ load_instruction \/ Ended \/ UNCHANGED vars
  BY <1>1, <1>5 DEF read_header, config_read, load_instruction, Ended, vars, configVars
<1> QED
  BY <1>2, <1>3, <1>4, <1>5 DEF Next

\* The processes then follow the configuration.
LEMMA LoadedListed == NamesDiffer /\ Types /\ Table /\ Loaded => LoadedAsListed
<1> SUFFICES ASSUME NamesDiffer, Types, Table, Loaded, ConfigInOrder,
                    NEW i \in DOMAIN loaded \cap Listed
             PROVE  LET line == input.config.lines[i]
                        program == input.disk[line[2].text]
                    IN  /\ loaded[i].prio = line[3].number
                        /\ loaded[i].priority = program.priority
                        /\ ProgramInOrder(program) /\ Complete(program) =>
                             loaded[i].text = [k \in 1 .. program.size |-> Meant(program.lines[k])]
                        /\ \A j \in DOMAIN loaded \cap Listed :
                             loaded[i].path = loaded[j].path
                               <=> line[2].text = input.config.lines[j][2].text
  BY DEF LoadedAsListed
<1>1. ASSUME NEW j \in DOMAIN loaded \cap Listed
      PROVE  /\ LoadedFrom(loaded[j], Row(input.config.lines[j]))
             /\ j \in Listed
  <2>1. j \in 1 .. Len(loaded) /\ j \in 1 .. Len(ld_processes) /\ j <= Len(input.config.lines)
    <3>1. DOMAIN loaded = 1 .. Len(loaded) /\ Len(loaded) \in Nat /\ Len(loaded) <= Len(ld_processes)
      BY SeqLen DEF Types, TypeOK
    <3> QED
      BY <3>1, ListedIs DEF Listed
  <2>2. ld_processes[j] = RowAt(input.config, j)
    BY <2>1 DEF Table, TableRows
  <2>3. ld_processes[j] = Row(input.config.lines[j])
    BY <2>1, <2>2 DEF RowAt
  <2>4. LoadedFrom(loaded[j], ld_processes[j])
    BY <2>1 DEF Loaded
  <2> QED
    BY <2>3, <2>4
<1>2. ASSUME NEW line
      PROVE  Row(line).path = line[2].text /\ Row(line).prio = line[3].number
  BY DEF Row
<1>3. ASSUME NEW j \in DOMAIN loaded \cap Listed
      PROVE  loaded[j].path = stored_path(input.config.lines[j][2].text)
  BY <1>1, <1>2 DEF LoadedFrom
<1>4. ASSUME NEW j \in DOMAIN loaded \cap Listed,
             stored_path(input.config.lines[i][2].text) = stored_path(input.config.lines[j][2].text)
      PROVE  input.config.lines[i][2].text = input.config.lines[j][2].text
  <2>1. input \in Inputs
    BY DEF Types
  <2>2. i \in DOMAIN input.config.lines /\ j \in DOMAIN input.config.lines
        /\ i <= input.config.num /\ j <= input.config.num
    BY <1>1 DEF Listed
  <2>3. IsProcessLine(input.config.lines[i]) /\ IsProcessLine(input.config.lines[j])
    BY <2>2 DEF ConfigInOrder
  <2> QED
    BY <1>4, <2>1, <2>2, <2>3 DEF NamesDiffer, stored_path
<1>5. LoadedFrom(loaded[i], Row(input.config.lines[i]))
  BY <1>1
<1>6. \A j \in DOMAIN loaded \cap Listed :
        loaded[i].path = loaded[j].path
          <=> input.config.lines[i][2].text = input.config.lines[j][2].text
  BY <1>3, <1>4
<1> QED
  BY <1>2, <1>5, <1>6 DEF LoadedFrom

\* For every configuration in order whose names differ in the characters that load keeps,
\* processes are loaded in the order of the lines, each with the whole program and both
\* priorities of its own line, and two have the same name exactly when their lines do.
\* The hypothesis is what killall, which tells processes by that name, needs of the
\* files (loader.c:51).
THEOREM LoadsAsListed == NamesDiffer => (Spec => []LoadedAsListed)
<1> SUFFICES ASSUME NamesDiffer PROVE Spec => []LoadedAsListed
  OBVIOUS
<1>1. Init => Loaded
  BY EmptySeq DEF Init, Loaded
<1>2. Types /\ Table /\ Loaded => LoadedAsListed
  BY LoadedListed
<1> QED
  BY <1>1, <1>2, LoadedNext, TypesInit, TypesNext, TableInit, TableNext, TextInit, TextNext, PTL DEF Spec
=============================================================================
