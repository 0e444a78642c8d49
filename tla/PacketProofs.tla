---------------------------- MODULE PacketProofs ----------------------------
(***************************************************************************)
(* Theorems about Encoding and Packet, for every body and every packet:    *)
(* what is encoded or marshalled is decoded or parsed again, and a body    *)
(* with its CRC passes the test.  The definitions are recursive in the     *)
(* length of the body; the induction is over the set of the lengths for    *)
(* which a fact holds (UpTo), and a recursive definition is what any run   *)
(* of its steps comes to (HistoryExists).                                  *)
(***************************************************************************)
EXTENDS Packet, SequenceTheorems, WellFoundedInduction, TLAPS

-----------------------------------------------------------------------------
(* Induction, from the least element of a set of numbers.                  *)

\* A set of numbers that is not empty has a least one.
LEMMA LeastNumber ==
  ASSUME NEW T, T \subseteq Nat, T # {}
  PROVE  \E x \in T : \A y \in T : ~(y < x)
<1>1. PICK x \in T : \A y \in T : ~(<<y, x>> \in OpToRel(<, Nat))
  BY NatLessThanWellFounded, WFMin
<1> QED
  BY <1>1 DEF OpToRel

\* A set that has 0 and is closed under successor, as far as n.
LEMMA UpTo ==
  ASSUME NEW n \in Nat, NEW T, 0 \in T, \A i \in 1..n : i - 1 \in T => i \in T
  PROVE  0..n \subseteq T
<1> DEFINE D == (0..n) \ T
<1> SUFFICES ASSUME D # {} PROVE FALSE
  OBVIOUS
<1>1. D \subseteq Nat
  OBVIOUS
<1> HIDE DEF D
<1>2. PICK x \in D : \A y \in D : ~(y < x)
  BY <1>1, LeastNumber
<1>3. x \in 1..n /\ x - 1 \in 0..n /\ x - 1 < x
  BY DEF D
<1> QED
  BY <1>2, <1>3 DEF D

\* A step taken n times has a history.
History(h, step, start, n) ==
    h = [i \in 0..n |-> IF i = 0 THEN start ELSE step[<<i, h[i - 1]>>]]

\* A step function has a history from any start, as long as one likes.
LEMMA HistoryExists ==
  ASSUME NEW S, NEW n \in Nat, NEW start \in S, NEW step \in [(1..n) \X S -> S]
  PROVE  \E h \in [0..n -> S] : History(h, step, start, n)
<1> DEFINE T == {i \in 0..n : \E h \in [0..i -> S] : History(h, step, start, i)}
<1>1. 0 \in T
  <2> DEFINE h == [i \in 0..0 |-> start]
  <2>1. h \in [0..0 -> S] /\ History(h, step, start, 0)
    BY DEF History
  <2> QED
    BY <2>1
<1>2. ASSUME NEW i \in 1..n, i - 1 \in T
      PROVE  i \in T
  <2>1. PICK g \in [0..(i - 1) -> S] : History(g, step, start, i - 1)
    BY <1>2
  <2> DEFINE s == step[<<i, g[i - 1]>>]
             h == [j \in 0..i |-> IF j = i THEN s ELSE g[j]]
  <2>2. s \in S
    BY <2>1
  <2> HIDE DEF s
  <2>3. h \in [0..i -> S]
    BY <2>1, <2>2
  <2>4. ASSUME NEW j \in 0..i
        PROVE  h[j] = IF j = 0 THEN start ELSE step[<<j, h[j - 1]>>]
    <3>1. CASE j = i
      <4>1. j # 0 /\ h[j] = s /\ h[j - 1] = g[j - 1]
        BY <3>1
      <4> QED
        BY <3>1, <4>1 DEF s
    <3>2. CASE j # i
      <4>1. j \in 0..(i - 1) /\ h[j] = g[j] /\ (j # 0 => h[j - 1] = g[j - 1])
        BY <3>2
      <4>2. g[j] = IF j = 0 THEN start ELSE step[<<j, g[j - 1]>>]
        BY <2>1, <4>1 DEF History
      <4> QED
        BY <4>1, <4>2
    <3> QED
      BY <3>1, <3>2
  <2>5. History(h, step, start, i)
    BY <2>4 DEF History
  <2> QED
    BY <2>3, <2>5
<1> HIDE DEF T
<1>3. n \in T
  BY <1>1, <1>2, UpTo
<1> QED
  BY <1>3 DEF T

-----------------------------------------------------------------------------
(* A sequence of sequences, flattened: where each of them lies.            *)

\* The i-th of seqs lies after pos[i - 1] and ends at pos[i].
Laid(F, seqs, n, pos) ==
    /\ pos \in [0..n -> Nat] /\ pos[0] = 0 /\ pos[n] = Len(F)
    /\ \A i \in 1..n : pos[i] = pos[i - 1] + Len(seqs[i]) /\ pos[i] <= Len(F)
    /\ \A i \in 1..n : \A j \in 1..Len(seqs[i]) : F[pos[i - 1] + j] = seqs[i][j]

\* The sequences put together one by one.
Joins(h, seqs, n) ==
    /\ h[0] = <<>>
    /\ \A i \in 1..n : h[i] = h[i - 1] \o seqs[i]
Begins(s, t) == Len(s) <= Len(t) /\ \A j \in 1..Len(s) : t[j] = s[j]

\* Two sequences one after the other.
LEMMA Concat ==
  ASSUME NEW S, NEW s \in Seq(S), NEW t \in Seq(S)
  PROVE  /\ s \o t \in Seq(S) /\ Len(s) \in Nat /\ Len(t) \in Nat
         /\ Len(s \o t) = Len(s) + Len(t)
         /\ \A j \in 1..Len(s) : (s \o t)[j] = s[j]
         /\ \A j \in 1..Len(t) : (s \o t)[Len(s) + j] = t[j]
<1>1. Len(s) \in Nat /\ Len(t) \in Nat
  BY LenProperties
<1>2. /\ s \o t \in Seq(S)
      /\ Len(s \o t) = Len(s) + Len(t)
      /\ \A i \in 1 .. Len(s) + Len(t) : (s \o t)[i] =
                     IF i <= Len(s) THEN s[i] ELSE t[i - Len(s)]
  BY ConcatProperties
<1> QED
  BY <1>1, <1>2

\* Joining pieces one by one is such a history.
LEMMA JoinsExist ==
  ASSUME NEW S, NEW n \in Nat, NEW seqs \in [1..n -> Seq(S)]
  PROVE  \E h \in [0..n -> Seq(S)] : Joins(h, seqs, n)
<1> DEFINE step == [x \in (1..n) \X Seq(S) |-> x[2] \o seqs[x[1]]]
<1>1. step \in [(1..n) \X Seq(S) -> Seq(S)]
  BY Concat
<1>2. \A i \in 1..n, s \in Seq(S) : step[<<i, s>>] = s \o seqs[i]
  OBVIOUS
<1> HIDE DEF step
<1>3. <<>> \in Seq(S)
  BY EmptySeq
<1>4. PICK h \in [0..n -> Seq(S)] : History(h, step, <<>>, n)
  BY <1>1, <1>3, HistoryExists
<1>5. h[0] = <<>>
  BY <1>4 DEF History
<1>6. ASSUME NEW i \in 1..n
      PROVE  h[i] = h[i - 1] \o seqs[i]
  <2>1. h[i] = step[<<i, h[i - 1]>>] /\ h[i - 1] \in Seq(S)
    BY <1>4 DEF History
  <2> QED
    BY <1>2, <2>1
<1> QED
  BY <1>5, <1>6 DEF Joins

\* What FlattenSeq chooses, and that it joins.
Flattens(f, seqs, n) == f = [i \in 1..n |-> IF i = 1 THEN seqs[i] ELSE f[i - 1] \o seqs[i]]

\* The recursive function that FlattenSeq is made of exists.
LEMMA FlattensExists ==
  ASSUME NEW S, NEW n \in Nat, NEW seqs \in [1..n -> Seq(S)]
  PROVE  \E f : Flattens(f, seqs, n)
<1>1. PICK h \in [0..n -> Seq(S)] : Joins(h, seqs, n)
  BY JoinsExist
<1> DEFINE f == [i \in 1..n |-> h[i]]
<1>2. ASSUME NEW i \in 1..n
      PROVE  f[i] = IF i = 1 THEN seqs[i] ELSE f[i - 1] \o seqs[i]
  <2>1. h[i] = h[i - 1] \o seqs[i]
    BY <1>1 DEF Joins
  <2>2. f[i] = h[i]
    OBVIOUS
  <2>3. CASE i = 1
    <3>1. h[i - 1] = <<>>
      BY <1>1, <2>3 DEF Joins
    <3>2. seqs[i] \in Seq(S)
      OBVIOUS
    <3>3. <<>> \o seqs[i] = seqs[i]
      BY <3>2, ConcatEmptySeq
    <3> HIDE DEF f
    <3> QED
      BY <2>1, <2>2, <2>3, <3>1, <3>3
  <2>4. CASE i # 1
    <3>1. f[i - 1] = h[i - 1]
      BY <2>4
    <3> HIDE DEF f
    <3> QED
      BY <2>1, <2>2, <2>4, <3>1
  <2> QED
    BY <2>3, <2>4
<1>3. f = [i \in 1..n |-> f[i]]
  OBVIOUS
<1> HIDE DEF f
<1>4. Flattens(f, seqs, n)
  BY <1>2, <1>3 DEF Flattens
<1> QED
  BY <1>4

\* FlattenSeq is what joining the pieces one by one leads to.
LEMMA FlattenJoins ==
  ASSUME NEW S, NEW n \in Nat, NEW seqs \in [1..n -> Seq(S)]
  PROVE  \E h : Joins(h, seqs, n) /\ h[n] = FlattenSeq(seqs)
<1>1. Len(seqs) = n /\ (n = 0 => seqs = <<>>)
  OBVIOUS
<1>2. CASE n = 0
  <2>1. FlattenSeq(seqs) = <<>>
    BY <1>1, <1>2 DEF FlattenSeq
  <2> DEFINE h == [i \in 0..0 |-> <<>>]
  <2>2. h[0] = <<>>
    OBVIOUS
  <2> HIDE DEF h
  <2>3. Joins(h, seqs, n)
    BY <1>2, <2>2 DEF Joins
  <2> QED
    BY <1>2, <2>1, <2>2, <2>3
<1>3. CASE n # 0
  <2> DEFINE f == CHOOSE f : Flattens(f, seqs, n)
  <2>1. FlattenSeq(seqs) = f[n]
    BY <1>1, <1>3 DEF FlattenSeq, Flattens
  <2>2. Flattens(f, seqs, n)
    BY FlattensExists
  <2> HIDE DEF f
  <2>3. ASSUME NEW i \in 1..n
        PROVE  f[i] = IF i = 1 THEN seqs[i] ELSE f[i - 1] \o seqs[i]
    BY <2>2 DEF Flattens
  <2> DEFINE h == [i \in 0..n |-> IF i = 0 THEN <<>> ELSE f[i]]
  <2>4. ASSUME NEW i \in 1..n
        PROVE  h[i] = h[i - 1] \o seqs[i]
    <3>1. h[i] = f[i] /\ h[i - 1] = IF i = 1 THEN <<>> ELSE f[i - 1]
      OBVIOUS
    <3>2. seqs[i] \in Seq(S)
      OBVIOUS
    <3>3. <<>> \o seqs[i] = seqs[i]
      BY <3>2, ConcatEmptySeq
    <3> HIDE DEF h
    <3> QED
      BY <2>3, <3>1, <3>3
  <2>5. h[0] = <<>> /\ h[n] = f[n]
    BY <1>3
  <2> HIDE DEF h
  <2> QED
    BY <2>1, <2>4, <2>5 DEF Joins
<1> QED
  BY <1>2, <1>3

\* What is joined is a sequence, as far as one likes.
LEMMA JoinsTyped ==
  ASSUME NEW S, NEW n \in Nat, NEW seqs \in [1..n -> Seq(S)], NEW h, Joins(h, seqs, n)
  PROVE  \A i \in 0..n : h[i] \in Seq(S)
<1> DEFINE T == {i \in 0..n : h[i] \in Seq(S)}
<1>1. 0 \in T
  <2>1. h[0] \in Seq(S)
    BY EmptySeq DEF Joins
  <2> QED
    BY <2>1
<1>2. ASSUME NEW i \in 1..n, i - 1 \in T
      PROVE  i \in T
  <2>1. h[i] = h[i - 1] \o seqs[i] /\ seqs[i] \in Seq(S) /\ h[i - 1] \in Seq(S)
    BY <1>2 DEF Joins
  <2>2. h[i] \in Seq(S)
    BY <2>1, Concat
  <2> QED
    BY <2>2
<1> HIDE DEF T
<1>3. 0..n \subseteq T
  BY <1>1, <1>2, UpTo
<1> QED
  BY <1>3 DEF T

\* What is joined begins with what was joined before.
LEMMA JoinsGrow ==
  ASSUME NEW S, NEW n \in Nat, NEW seqs \in [1..n -> Seq(S)], NEW h, Joins(h, seqs, n),
         NEW i \in 0..n
  PROVE  Begins(h[i], h[n])
<1> DEFINE T == {k \in 0..n : k < i \/ Begins(h[i], h[k])}
<1>1. \A k \in 0..n : h[k] \in Seq(S) /\ Len(h[k]) \in Nat
  BY JoinsTyped, LenProperties
<1>2. Begins(h[i], h[i])
  BY <1>1 DEF Begins
<1>3. 0 \in T
  BY <1>2
<1>4. ASSUME NEW k \in 1..n, k - 1 \in T
      PROVE  k \in T
  <2>1. h[k] = h[k - 1] \o seqs[k]
    BY DEF Joins
  <2>2. h[k - 1] \in Seq(S) /\ seqs[k] \in Seq(S)
    BY <1>1
  <2>3. Begins(h[k - 1], h[k])
    BY <2>1, <2>2, Concat DEF Begins
  <2>4. CASE k < i
    BY <2>4
  <2>5. CASE k = i
    BY <1>2, <2>5
  <2>6. CASE i < k
    <3>1. Begins(h[i], h[k - 1])
      BY <1>4, <2>6
    <3>2. Len(h[i]) \in Nat /\ Len(h[k - 1]) \in Nat /\ Len(h[k]) \in Nat
      BY <1>1
    <3>3. Begins(h[i], h[k])
      BY SMTT(30), <2>3, <3>1, <3>2 DEF Begins
    <3> QED
      BY <3>3
  <2> QED
    BY <2>4, <2>5, <2>6
<1> HIDE DEF T
<1>5. 0..n \subseteq T
  BY <1>3, <1>4, UpTo
<1> QED
  BY <1>5 DEF T

\* FlattenSeq lays the sequences one after the other.
LEMMA Flattened ==
  ASSUME NEW S, NEW n \in Nat, NEW seqs \in [1..n -> Seq(S)]
  PROVE  FlattenSeq(seqs) \in Seq(S) /\ \E pos : Laid(FlattenSeq(seqs), seqs, n, pos)
<1>1. PICK h : Joins(h, seqs, n) /\ h[n] = FlattenSeq(seqs)
  BY FlattenJoins
<1>2. \A i \in 0..n : h[i] \in Seq(S) /\ Len(h[i]) \in Nat
  BY <1>1, JoinsTyped, LenProperties
<1>3. \A i \in 0..n : Begins(h[i], h[n])
  BY <1>1, JoinsGrow
<1> DEFINE pos == [i \in 0..n |-> Len(h[i])]
<1>4. pos \in [0..n -> Nat] /\ pos[0] = 0 /\ pos[n] = Len(h[n])
  <2>1. h[0] = <<>>
    BY <1>1 DEF Joins
  <2>2. Len(h[0]) = 0
    BY <2>1
  <2> QED
    BY <1>2, <2>2
<1>5. ASSUME NEW i \in 1..n
      PROVE  /\ pos[i] = pos[i - 1] + Len(seqs[i]) /\ pos[i] <= Len(h[n])
             /\ \A j \in 1..Len(seqs[i]) : h[n][pos[i - 1] + j] = seqs[i][j]
  <2>1. h[i] = h[i - 1] \o seqs[i]
    BY <1>1 DEF Joins
  <2>2. h[i - 1] \in Seq(S) /\ seqs[i] \in Seq(S)
    BY <1>2
  <2>3. /\ Len(h[i]) = Len(h[i - 1]) + Len(seqs[i])
        /\ Len(h[i - 1]) \in Nat /\ Len(seqs[i]) \in Nat
        /\ \A j \in 1..Len(seqs[i]) : h[i][Len(h[i - 1]) + j] = seqs[i][j]
    BY <2>1, <2>2, Concat
  <2>4. \A j \in 1..Len(seqs[i]) : Len(h[i - 1]) + j \in 1..Len(h[i])
    BY <2>3
  <2>5. Begins(h[i], h[n])
    BY <1>3
  <2>6. pos[i] = Len(h[i]) /\ pos[i - 1] = Len(h[i - 1])
    OBVIOUS
  <2> HIDE DEF pos
  <2> QED
    BY <2>3, <2>4, <2>5, <2>6 DEF Begins
<1> HIDE DEF pos
<1>6. Laid(h[n], seqs, n, pos)
  BY <1>4, <1>5 DEF Laid
<1>7. h[n] \in Seq(S)
  BY <1>2
<1> QED
  BY <1>1, <1>6, <1>7

\* Every place before the end lies in one of the pieces.
LEMMA InPiece ==
  ASSUME NEW n \in Nat, NEW pos \in [0..n -> Nat], pos[0] = 0,
         \A i \in 1..n : pos[i - 1] <= pos[i], NEW x \in 1..pos[n]
  PROVE  \E i \in 1..n : x \in (pos[i - 1] + 1)..pos[i]
<1> DEFINE T == {k \in 0..n : x <= pos[k] => \E i \in 1..n : x \in (pos[i - 1] + 1)..pos[i]}
<1>1. 0 \in T
  OBVIOUS
<1>2. ASSUME NEW k \in 1..n, k - 1 \in T
      PROVE  k \in T
  <2>1. pos[k] \in Nat /\ pos[k - 1] \in Nat
    OBVIOUS
  <2>2. CASE x <= pos[k - 1]
    BY <1>2, <2>1, <2>2
  <2>3. CASE ~(x <= pos[k - 1])
    <3>1. x <= pos[k] => x \in (pos[k - 1] + 1)..pos[k]
      BY <2>1, <2>3
    <3> QED
      BY <3>1
  <2> QED
    BY <2>2, <2>3
<1> HIDE DEF T
<1>3. 0..n \subseteq T
  BY <1>1, <1>2, UpTo
<1>4. n \in T
  BY <1>3
<1> QED
  BY <1>4 DEF T

\* Only one sequence has given pieces.
LEMMA LaidOnce ==
  ASSUME NEW S, NEW n \in Nat, NEW seqs \in [1..n -> Seq(S)], NEW F \in Seq(S), NEW G \in Seq(S),
         NEW p, Laid(F, seqs, n, p), NEW q, Laid(G, seqs, n, q)
  PROVE  F = G
<1> DEFINE T == {i \in 0..n : p[i] = q[i]}
<1>1. 0 \in T
  BY DEF Laid
<1>2. \A i \in 1..n : i - 1 \in T => i \in T
  BY DEF Laid
<1> HIDE DEF T
<1>3. \A i \in 0..n : p[i] = q[i]
  <2>1. 0..n \subseteq T
    BY <1>1, <1>2, UpTo
  <2> QED
    BY <2>1 DEF T
<1>4. Len(F) = Len(G) /\ Len(F) \in Nat /\ p[n] = Len(F)
  BY <1>3, LenProperties DEF Laid
<1>5. ASSUME NEW x \in 1..Len(F)
      PROVE  F[x] = G[x]
  <2>1. p \in [0..n -> Nat] /\ p[0] = 0
    BY DEF Laid
  <2>2. \A i \in 1..n : Len(seqs[i]) \in Nat /\ p[i] = p[i - 1] + Len(seqs[i])
    BY LenProperties DEF Laid
  <2>3. \A i \in 1..n : p[i - 1] <= p[i]
    BY <2>1, <2>2
  <2>4. PICK i \in 1..n : x \in (p[i - 1] + 1)..p[i]
    BY <1>4, <2>1, <2>3, InPiece
  <2> DEFINE j == x - p[i - 1]
  <2>5. p[i - 1] \in Nat /\ p[i] \in Nat
    BY <2>1
  <2>6. j \in 1..Len(seqs[i]) /\ x = p[i - 1] + j
    BY SMTT(30), <2>2, <2>4, <2>5
  <2> HIDE DEF j
  <2>7. F[p[i - 1] + j] = seqs[i][j]
    BY <2>6 DEF Laid
  <2>8. G[q[i - 1] + j] = seqs[i][j]
    BY <2>6 DEF Laid
  <2>9. p[i - 1] = q[i - 1]
    BY <1>3
  <2> QED
    BY <2>6, <2>7, <2>8, <2>9
<1> QED
  BY <1>4, <1>5, SeqEqual

\* A sequence of pieces of one size, the last one perhaps shorter.
Sizes == {3, 4, 7, 8}

\* The arithmetic of cutting L into n pieces of size d.
LEMMA Pieces ==
  ASSUME NEW L \in Nat, NEW n \in Nat, NEW d \in Sizes, NEW i \in 1..n,
         d * (n - 1) < L, L <= d * n
  PROVE  /\ d * (i - 1) \in Nat /\ d * i = d * (i - 1) + d
         /\ d * i <= L => d * (i - 1) + d <= L
         /\ i < n => d * i <= L
         /\ ~(d * i <= L) => i = n /\ L - d * (i - 1) \in 1..d
         /\ i = n /\ d * i <= L => d * i = L
<1>1. n \in Int /\ i \in Int /\ i >= 1 /\ i <= n /\ L \in Int
  OBVIOUS
<1>2. CASE d = 3
  BY <1>1, <1>2
<1>3. CASE d = 4
  BY <1>1, <1>3
<1>4. CASE d = 7
  BY <1>1, <1>4
<1>5. CASE d = 8
  BY <1>1, <1>5
<1> QED
  BY <1>2, <1>3, <1>4, <1>5 DEF Sizes

\* How many pieces of size d there are in L, from where the last one lies.
LEMMA Count ==
  ASSUME NEW L \in Nat, NEW n \in Nat, NEW d \in Sizes, n > 0 => d * (n - 1) < L, L <= d * n
  PROVE  n = (L + d - 1) \div d
<1>0. n = 0 => L = 0
  BY DEF Sizes
<1>2. CASE d = 3
  <2>1. n = (L + 2) \div 3
    BY <1>0, <1>2
  <2> QED BY <2>1, <1>2
<1>3. CASE d = 4
  <2>1. n = (L + 3) \div 4
    BY <1>0, <1>3
  <2> QED BY <2>1, <1>3
<1>4. CASE d = 7
  <2>1. n = (L + 6) \div 7
    BY <1>0, <1>4
  <2> QED BY <2>1, <1>4
<1>5. CASE d = 8
  <2>1. n = (L + 7) \div 8
    BY <1>0, <1>5
  <2> QED BY <2>1, <1>5
<1> QED
  BY <1>2, <1>3, <1>4, <1>5 DEF Sizes

\* And where the last one lies.
LEMMA CountIs ==
  ASSUME NEW L \in Nat, NEW d \in Sizes, NEW n, n = (L + d - 1) \div d
  PROVE  n \in Nat /\ (n > 0 => d * (n - 1) < L) /\ L <= d * n /\ (L > 0 => n > 0)
<1>2. CASE d = 3
  <2>1. n = (L + 2) \div 3
    BY <1>2
  <2> QED BY <2>1, <1>2
<1>3. CASE d = 4
  <2>1. n = (L + 3) \div 4
    BY <1>3
  <2> QED BY <2>1, <1>3
<1>4. CASE d = 7
  <2>1. n = (L + 6) \div 7
    BY <1>4
  <2> QED BY <2>1, <1>4
<1>5. CASE d = 8
  <2>1. n = (L + 7) \div 8
    BY <1>5
  <2> QED BY <2>1, <1>5
<1> QED
  BY <1>2, <1>3, <1>4, <1>5 DEF Sizes
Sized(seqs, n, size) ==
    \A i \in 1..n : 1 <= Len(seqs[i]) /\ Len(seqs[i]) <= size /\ (i < n => size = Len(seqs[i]))

\* groups cuts as it says, and flattening restores what it cut.
LEMMA Grouped ==
  ASSUME NEW S, NEW s \in Seq(S), NEW size \in Sizes, NEW L \in Nat, L = Len(s),
         NEW n, n = (L + size - 1) \div size
  PROVE  /\ n \in Nat /\ (L > 0 => n > 0)
         /\ groups(s, size) \in [1..n -> Seq(S)]
         /\ Sized(groups(s, size), n, size)
         /\ FlattenSeq(groups(s, size)) = s
<1> DEFINE len(i) == IF size * i <= L THEN size ELSE L - size * (i - 1)
           g == groups(s, size)
<1>1. size \in Nat /\ size > 0
  BY DEF Sizes
<1>2. n \in Nat /\ (n > 0 => size * (n - 1) < L) /\ L <= size * n /\ (L > 0 => n > 0)
  BY CountIs
<1>3. ASSUME NEW i \in 1..n
      PROVE  /\ len(i) \in Nat /\ 1 <= len(i) /\ len(i) <= size /\ (i < n => len(i) = size)
             /\ size * (i - 1) + len(i) <= L /\ size * (i - 1) \in Nat
             /\ (i = n => size * (i - 1) + len(i) = L) /\ size * i = size * (i - 1) + size
  <2>1. /\ size * (i - 1) \in Nat /\ size * i = size * (i - 1) + size
        /\ size * i <= L => size * (i - 1) + size <= L
        /\ i < n => size * i <= L
        /\ ~(size * i <= L) => i = n /\ L - size * (i - 1) \in 1..size
        /\ i = n /\ size * i <= L => size * i = L
    BY <1>2, Pieces
  <2>2. CASE size * i <= L
    <3>1. len(i) = size
      BY <2>2
    <3> HIDE DEF len
    <3> QED
      BY <1>1, <2>1, <2>2, <3>1
  <2>3. CASE ~(size * i <= L)
    <3>1. len(i) = L - size * (i - 1)
      BY <2>3
    <3> HIDE DEF len
    <3> QED
      BY <1>1, <2>1, <2>3, <3>1
  <2> QED
    BY <2>2, <2>3
<1>4. g = [i \in 1..n |-> [j \in 1..len(i) |-> s[size * (i - 1) + j]]]
  BY DEF groups
<1> HIDE DEF g, len
<1>5. ASSUME NEW i \in 1..n
      PROVE  /\ g[i] \in Seq(S) /\ Len(g[i]) = len(i)
             /\ \A j \in 1..len(i) : g[i][j] = s[size * (i - 1) + j]
  <2>1. g[i] = [j \in 1..len(i) |-> s[size * (i - 1) + j]]
    BY <1>4
  <2>2. \A j \in 1..len(i) : size * (i - 1) + j \in 1..Len(s)
    <3> DEFINE b == size * (i - 1)
    <3>1. b \in Nat /\ len(i) \in Nat /\ b + len(i) <= L
      BY <1>1, <1>3
    <3> HIDE DEF b
    <3>2. \A j \in 1..len(i) : b + j \in 1..Len(s)
      BY <3>1
    <3> QED
      BY <3>2 DEF b
  <2>3. \A j \in 1..len(i) : s[size * (i - 1) + j] \in S
    BY <2>2, ElementOfSeq
  <2>4. len(i) \in Nat
    BY <1>3, <1>1
  <2>5. g[i] \in [1..len(i) -> S]
    BY <2>1, <2>3
  <2> QED
    BY <2>1, <2>4, <2>5
<1>6. g \in [1..n -> Seq(S)]
  BY <1>4, <1>5
<1>7. Sized(g, n, size)
  BY <1>3, <1>5 DEF Sized
<1> DEFINE pos == [i \in 0..n |-> IF i < n THEN size * i ELSE L]
<1>8. Laid(s, g, n, pos)
  <2>1. pos \in [0..n -> Nat] /\ pos[0] = 0 /\ pos[n] = L
    BY <1>1, <1>2 DEF Sizes
  <2>2. ASSUME NEW i \in 1..n
        PROVE  pos[i - 1] = size * (i - 1) /\ pos[i] = pos[i - 1] + len(i) /\ pos[i] <= L
    <3>1. pos[i] = (IF i < n THEN size * i ELSE L) /\ pos[i - 1] = size * (i - 1)
      OBVIOUS
    <3> HIDE DEF pos
    <3>2. CASE i < n
      BY <1>1, <1>3, <2>2, <3>1, <3>2
    <3>3. CASE i = n
      BY ZenonT(30), <1>1, <1>3, <2>2, <3>1, <3>3
    <3> QED
      BY <3>2, <3>3
  <2> HIDE DEF pos
  <2> QED
    BY <1>5, <2>1, <2>2 DEF Laid
<1> HIDE DEF pos
<1>9. FlattenSeq(g) = s
  <2>0. n \in Nat
    BY <1>2
  <2> DEFINE F == FlattenSeq(g)
  <2>1. F \in Seq(S)
    BY <2>0, <1>6, Flattened
  <2>2. PICK q : Laid(F, g, n, q)
    BY <2>0, <1>6, Flattened
  <2> HIDE DEF F
  <2>3. F = s
    BY <2>0, <1>6, <1>8, <2>1, <2>2, LaidOnce
  <2> QED
    BY <2>3 DEF F
<1> QED
  BY <1>2, <1>6, <1>7, <1>9 DEF g

\* And cutting restores what was flattened.
LEMMA Regrouped ==
  ASSUME NEW S, NEW n \in Nat, NEW seqs \in [1..n -> Seq(S)], NEW size \in Sizes,
         Sized(seqs, n, size)
  PROVE  /\ groups(FlattenSeq(seqs), size) = seqs
         /\ n = (Len(FlattenSeq(seqs)) + size - 1) \div size
         /\ Len(FlattenSeq(seqs)) = IF n = 0 THEN 0 ELSE size * (n - 1) + Len(seqs[n])
<1> DEFINE F == FlattenSeq(seqs)
<1>1. F \in Seq(S) /\ Len(F) \in Nat
  BY Flattened, LenProperties
<1>2. PICK pos : Laid(F, seqs, n, pos)
  BY Flattened
<1> HIDE DEF F
<1>3. size \in Nat \ {0} /\ \A i \in 1..n : Len(seqs[i]) \in Nat
  BY LenProperties DEF Sizes
<1> DEFINE T == {i \in 0..n : i < n => pos[i] = size * i}
<1>4. \A i \in 1..n : pos[i - 1] = size * (i - 1)
  <2>1. 0 \in T
    BY <1>2 DEF Laid, Sizes
  <2>2. ASSUME NEW i \in 1..n, i - 1 \in T
        PROVE  i \in T
    <3>1. pos[i] = pos[i - 1] + Len(seqs[i]) /\ pos[i - 1] = size * (i - 1)
      BY <1>2, <2>2 DEF Laid
    <3>2. i < n => Len(seqs[i]) = size
      BY DEF Sized
    <3>3. size * i = size * (i - 1) + size
      BY DEF Sizes
    <3> QED
      BY <3>1, <3>2, <3>3
  <2> HIDE DEF T
  <2>3. 0..n \subseteq T
    BY <2>1, <2>2, UpTo
  <2>4. \A i \in 1..n : i - 1 \in 0..n /\ i - 1 < n
    OBVIOUS
  <2> QED
    BY <2>3, <2>4 DEF T
<1> HIDE DEF T
<1>5. \A i \in 1..n : 1 <= Len(seqs[i]) /\ Len(seqs[i]) <= size /\ (i < n => size = Len(seqs[i]))
  BY DEF Sized
<1>6. Len(F) = IF n = 0 THEN 0 ELSE size * (n - 1) + Len(seqs[n])
  BY <1>2, <1>4 DEF Laid
<1>7. n = (Len(F) + size - 1) \div size
  <2> DEFINE L == Len(F)
  <2>0. L \in Nat
    BY <1>1
  <2>1. n # 0 => 1 <= Len(seqs[n]) /\ Len(seqs[n]) <= size
    BY <1>5
  <2>2. (n > 0 => size * (n - 1) < L) /\ L <= size * n
    <3> DEFINE b == size * (n - 1)
    <3>1. b \in Int /\ size * n = b + size /\ size * 0 = 0
      BY DEF Sizes
    <3>2. L = IF n = 0 THEN 0 ELSE b + Len(seqs[n])
      BY <1>6
    <3> HIDE DEF b, L
    <3>3. n > 0 => b < L
      BY <2>1, <1>3, <3>1, <3>2
    <3>4. L <= size * n
      BY <2>1, <1>3, <3>1, <3>2
    <3> QED
      BY <3>3, <3>4 DEF b
  <2> HIDE DEF L
  <2>3. n = (L + size - 1) \div size
    BY <2>0, <2>2, Count
  <2> QED
    BY <2>3 DEF L
<1>8. \A i \in 1..n : (IF size * i <= Len(F) THEN size ELSE Len(F) - size * (i - 1)) = Len(seqs[i])
  <2> TAKE i \in 1..n
  <2>1. 1 <= Len(seqs[n]) /\ Len(seqs[n]) <= size
    BY <1>5
  <2>2. size * i = size * (i - 1) + size
    BY DEF Sizes
  <2>3. CASE i = n
    BY <1>3, <1>6, <2>1, <2>2, <2>3 DEF Sizes
  <2>4. CASE i < n
    <3>1. size * i <= size * (n - 1)
      BY <2>4 DEF Sizes
    <3>2. size * i <= Len(F)
      <4>1. size * i \in Nat /\ size * (n - 1) \in Nat /\ Len(seqs[n]) \in Nat
        BY <1>3 DEF Sizes
      <4> QED
        BY <1>6, <2>4, <3>1, <4>1
    <3> QED
      BY <1>5, <2>4, <3>2
  <2> QED
    BY <2>3, <2>4
<1>9. ASSUME NEW i \in 1..n
      PROVE  groups(F, size)[i] = seqs[i]
  <2>1. groups(F, size)[i] = [j \in 1..Len(seqs[i]) |-> F[size * (i - 1) + j]]
    BY <1>7, <1>8 DEF groups
  <2>2. seqs[i] = [j \in 1..Len(seqs[i]) |-> seqs[i][j]]
    <3>1. seqs[i] \in Seq(S)
      OBVIOUS
    <3>2. seqs[i] \in [1..Len(seqs[i]) -> S]
      BY <3>1, LenProperties
    <3> QED
      BY <3>2
  <2>3. \A j \in 1..Len(seqs[i]) : F[size * (i - 1) + j] = seqs[i][j]
    BY <1>2, <1>4 DEF Laid
  <2> QED
    BY <2>1, <2>2, <2>3
<1>10. groups(F, size) = [i \in 1..n |-> groups(F, size)[i]]
  BY <1>7 DEF groups
<1>11. groups(F, size) = seqs
  BY <1>9, <1>10
<1> QED
  BY <1>6, <1>7, <1>11 DEF F

-----------------------------------------------------------------------------
(* ASC: a byte b comes back from the two units that hold its bits.         *)

AscBack(p, pp, q, r) ==     \* p = 2^(j - 1), pp = 2^j, q = 2^(8 - j), r = 2^(9 - j)
  \A a, b, c \in Byte :
     (strip(strip(a \div r + b * p)) \div p + strip(strip(b \div q + c * pp)) * q) % 256 = b

\* ascDecodeBody gets back the byte that ascEncodeBody has shifted by one bit.
LEMMA AscBack1 == AscBack(1, 2, 128, 256)
<1> SUFFICES ASSUME NEW a \in Byte, NEW b \in Byte, NEW c \in Byte
             PROVE (strip(strip(a \div 256 + b * 1)) \div 1
                       + strip(strip(b \div 128 + c * 2)) * 128) % 256 = b
  BY DEF AscBack
<1>1. PICK x \in 0..0 : x = a \div 256
  BY DEF Byte
<1>2. PICK h \in 0..1, l \in 0..127 : b = 128 * h + l /\ b \div 128 = h
  <2>1. b = 128 * (b \div 128) + (b % 128) /\ b \div 128 \in 0..1 /\ b % 128 \in 0..127
    BY DEF Byte
  <2> QED
    BY <2>1
<1>3. PICK y \in Nat, z \in 0..63 : c = 64 * y + z
  <2>1. c = 64 * (c \div 64) + (c % 64) /\ c \div 64 \in Nat /\ c % 64 \in 0..63
    BY DEF Byte
  <2> QED
    BY <2>1
<1>4. strip(strip(x + b * 1)) \div 1 = l
  <2>1. strip(x + b * 1) = x + 1 * l /\ strip(x + 1 * l) = x + 1 * l
    BY <1>2 DEF strip
  <2> QED
    BY <2>1
<1>5. strip(strip(h + c * 2)) * 128 = 256 * z + 128 * h
  <2>1. strip(h + c * 2) = h + 2 * z /\ strip(h + 2 * z) = h + 2 * z
    BY <1>3 DEF strip
  <2> QED
    BY <2>1
<1>6. (l + (256 * z + 128 * h)) % 256 = b
  BY <1>2 DEF Byte
<1> QED
  BY <1>1, <1>2, <1>4, <1>5, <1>6

\* The same by two bits.
LEMMA AscBack2 == AscBack(2, 4, 64, 128)
<1> SUFFICES ASSUME NEW a \in Byte, NEW b \in Byte, NEW c \in Byte
             PROVE (strip(strip(a \div 128 + b * 2)) \div 2
                       + strip(strip(b \div 64 + c * 4)) * 64) % 256 = b
  BY DEF AscBack
<1>1. PICK x \in 0..1 : x = a \div 128
  BY DEF Byte
<1>2. PICK h \in 0..3, l \in 0..63 : b = 64 * h + l /\ b \div 64 = h
  <2>1. b = 64 * (b \div 64) + (b % 64) /\ b \div 64 \in 0..3 /\ b % 64 \in 0..63
    BY DEF Byte
  <2> QED
    BY <2>1
<1>3. PICK y \in Nat, z \in 0..31 : c = 32 * y + z
  <2>1. c = 32 * (c \div 32) + (c % 32) /\ c \div 32 \in Nat /\ c % 32 \in 0..31
    BY DEF Byte
  <2> QED
    BY <2>1
<1>4. strip(strip(x + b * 2)) \div 2 = l
  <2>1. strip(x + b * 2) = x + 2 * l /\ strip(x + 2 * l) = x + 2 * l
    BY <1>2 DEF strip
  <2> QED
    BY <2>1
<1>5. strip(strip(h + c * 4)) * 64 = 256 * z + 64 * h
  <2>1. strip(h + c * 4) = h + 4 * z /\ strip(h + 4 * z) = h + 4 * z
    BY <1>3 DEF strip
  <2> QED
    BY <2>1
<1>6. (l + (256 * z + 64 * h)) % 256 = b
  BY <1>2 DEF Byte
<1> QED
  BY <1>1, <1>2, <1>4, <1>5, <1>6

\* The same by three bits.
LEMMA AscBack3 == AscBack(4, 8, 32, 64)
<1> SUFFICES ASSUME NEW a \in Byte, NEW b \in Byte, NEW c \in Byte
             PROVE (strip(strip(a \div 64 + b * 4)) \div 4
                       + strip(strip(b \div 32 + c * 8)) * 32) % 256 = b
  BY DEF AscBack
<1>1. PICK x \in 0..3 : x = a \div 64
  BY DEF Byte
<1>2. PICK h \in 0..7, l \in 0..31 : b = 32 * h + l /\ b \div 32 = h
  <2>1. b = 32 * (b \div 32) + (b % 32) /\ b \div 32 \in 0..7 /\ b % 32 \in 0..31
    BY DEF Byte
  <2> QED
    BY <2>1
<1>3. PICK y \in Nat, z \in 0..15 : c = 16 * y + z
  <2>1. c = 16 * (c \div 16) + (c % 16) /\ c \div 16 \in Nat /\ c % 16 \in 0..15
    BY DEF Byte
  <2> QED
    BY <2>1
<1>4. strip(strip(x + b * 4)) \div 4 = l
  <2>1. strip(x + b * 4) = x + 4 * l /\ strip(x + 4 * l) = x + 4 * l
    BY <1>2 DEF strip
  <2> QED
    BY <2>1
<1>5. strip(strip(h + c * 8)) * 32 = 256 * z + 32 * h
  <2>1. strip(h + c * 8) = h + 8 * z /\ strip(h + 8 * z) = h + 8 * z
    BY <1>3 DEF strip
  <2> QED
    BY <2>1
<1>6. (l + (256 * z + 32 * h)) % 256 = b
  BY <1>2 DEF Byte
<1> QED
  BY <1>1, <1>2, <1>4, <1>5, <1>6

\* The same by four bits.
LEMMA AscBack4 == AscBack(8, 16, 16, 32)
<1> SUFFICES ASSUME NEW a \in Byte, NEW b \in Byte, NEW c \in Byte
             PROVE (strip(strip(a \div 32 + b * 8)) \div 8
                       + strip(strip(b \div 16 + c * 16)) * 16) % 256 = b
  BY DEF AscBack
<1>1. PICK x \in 0..7 : x = a \div 32
  BY DEF Byte
<1>2. PICK h \in 0..15, l \in 0..15 : b = 16 * h + l /\ b \div 16 = h
  <2>1. b = 16 * (b \div 16) + (b % 16) /\ b \div 16 \in 0..15 /\ b % 16 \in 0..15
    BY DEF Byte
  <2> QED
    BY <2>1
<1>3. PICK y \in Nat, z \in 0..7 : c = 8 * y + z
  <2>1. c = 8 * (c \div 8) + (c % 8) /\ c \div 8 \in Nat /\ c % 8 \in 0..7
    BY DEF Byte
  <2> QED
    BY <2>1
<1>4. strip(strip(x + b * 8)) \div 8 = l
  <2>1. strip(x + b * 8) = x + 8 * l /\ strip(x + 8 * l) = x + 8 * l
    BY <1>2 DEF strip
  <2> QED
    BY <2>1
<1>5. strip(strip(h + c * 16)) * 16 = 256 * z + 16 * h
  <2>1. strip(h + c * 16) = h + 16 * z /\ strip(h + 16 * z) = h + 16 * z
    BY <1>3 DEF strip
  <2> QED
    BY <2>1
<1>6. (l + (256 * z + 16 * h)) % 256 = b
  BY <1>2 DEF Byte
<1> QED
  BY <1>1, <1>2, <1>4, <1>5, <1>6

\* The same by five bits.
LEMMA AscBack5 == AscBack(16, 32, 8, 16)
<1> SUFFICES ASSUME NEW a \in Byte, NEW b \in Byte, NEW c \in Byte
             PROVE (strip(strip(a \div 16 + b * 16)) \div 16
                       + strip(strip(b \div 8 + c * 32)) * 8) % 256 = b
  BY DEF AscBack
<1>1. PICK x \in 0..15 : x = a \div 16
  BY DEF Byte
<1>2. PICK h \in 0..31, l \in 0..7 : b = 8 * h + l /\ b \div 8 = h
  <2>1. b = 8 * (b \div 8) + (b % 8) /\ b \div 8 \in 0..31 /\ b % 8 \in 0..7
    BY DEF Byte
  <2> QED
    BY <2>1
<1>3. PICK y \in Nat, z \in 0..3 : c = 4 * y + z
  <2>1. c = 4 * (c \div 4) + (c % 4) /\ c \div 4 \in Nat /\ c % 4 \in 0..3
    BY DEF Byte
  <2> QED
    BY <2>1
<1>4. strip(strip(x + b * 16)) \div 16 = l
  <2>1. strip(x + b * 16) = x + 16 * l /\ strip(x + 16 * l) = x + 16 * l
    BY <1>2 DEF strip
  <2> QED
    BY <2>1
<1>5. strip(strip(h + c * 32)) * 8 = 256 * z + 8 * h
  <2>1. strip(h + c * 32) = h + 32 * z /\ strip(h + 32 * z) = h + 32 * z
    BY <1>3 DEF strip
  <2> QED
    BY <2>1
<1>6. (l + (256 * z + 8 * h)) % 256 = b
  BY <1>2 DEF Byte
<1> QED
  BY <1>1, <1>2, <1>4, <1>5, <1>6

\* The same by six bits.
LEMMA AscBack6 == AscBack(32, 64, 4, 8)
<1> SUFFICES ASSUME NEW a \in Byte, NEW b \in Byte, NEW c \in Byte
             PROVE (strip(strip(a \div 8 + b * 32)) \div 32
                       + strip(strip(b \div 4 + c * 64)) * 4) % 256 = b
  BY DEF AscBack
<1>1. PICK x \in 0..31 : x = a \div 8
  BY DEF Byte
<1>2. PICK h \in 0..63, l \in 0..3 : b = 4 * h + l /\ b \div 4 = h
  <2>1. b = 4 * (b \div 4) + (b % 4) /\ b \div 4 \in 0..63 /\ b % 4 \in 0..3
    BY DEF Byte
  <2> QED
    BY <2>1
<1>3. PICK y \in Nat, z \in 0..1 : c = 2 * y + z
  <2>1. c = 2 * (c \div 2) + (c % 2) /\ c \div 2 \in Nat /\ c % 2 \in 0..1
    BY DEF Byte
  <2> QED
    BY <2>1
<1>4. strip(strip(x + b * 32)) \div 32 = l
  <2>1. strip(x + b * 32) = x + 32 * l /\ strip(x + 32 * l) = x + 32 * l
    BY <1>2 DEF strip
  <2> QED
    BY <2>1
<1>5. strip(strip(h + c * 64)) * 4 = 256 * z + 4 * h
  <2>1. strip(h + c * 64) = h + 64 * z /\ strip(h + 64 * z) = h + 64 * z
    BY <1>3 DEF strip
  <2> QED
    BY <2>1
<1>6. (l + (256 * z + 4 * h)) % 256 = b
  BY <1>2 DEF Byte
<1> QED
  BY <1>1, <1>2, <1>4, <1>5, <1>6

\* The same by seven bits.
LEMMA AscBack7 == AscBack(64, 128, 2, 4)
<1> SUFFICES ASSUME NEW a \in Byte, NEW b \in Byte, NEW c \in Byte
             PROVE (strip(strip(a \div 4 + b * 64)) \div 64
                       + strip(strip(b \div 2 + c * 128)) * 2) % 256 = b
  BY DEF AscBack
<1>1. PICK x \in 0..63 : x = a \div 4
  BY DEF Byte
<1>2. PICK h \in 0..127, l \in 0..1 : b = 2 * h + l /\ b \div 2 = h
  <2>1. b = 2 * (b \div 2) + (b % 2) /\ b \div 2 \in 0..127 /\ b % 2 \in 0..1
    BY DEF Byte
  <2> QED
    BY <2>1
<1>3. PICK y \in Nat, z \in 0..0 : c = 1 * y + z
  <2>1. c = 1 * (c \div 1) + (c % 1) /\ c \div 1 \in Nat /\ c % 1 \in 0..0
    BY DEF Byte
  <2> QED
    BY <2>1
<1>4. strip(strip(x + b * 64)) \div 64 = l
  <2>1. strip(x + b * 64) = x + 64 * l /\ strip(x + 64 * l) = x + 64 * l
    BY <1>2 DEF strip
  <2> QED
    BY <2>1
<1>5. strip(strip(h + c * 128)) * 2 = 256 * z + 2 * h
  <2>1. strip(h + c * 128) = h + 128 * z /\ strip(h + 128 * z) = h + 128 * z
    BY <1>3 DEF strip
  <2> QED
    BY <2>1
<1>6. (l + (256 * z + 2 * h)) % 256 = b
  BY <1>2 DEF Byte
<1> QED
  BY <1>1, <1>2, <1>4, <1>5, <1>6

UueBack(p, q, r, s) ==     \* p = 2^(8 - 2j), q = 2^(2j), r = 2^(6-2j)
  \A a, b, c \in Byte :
     (uueValue(uueChar(a * p + b \div q)) * q
        + uueValue(uueChar(b * r + c \div s)) \div r) % 256 = b

\* uueDecodeBody gets back the first byte of a group.
LEMMA UueBack1 == UueBack(64, 4, 16, 16)
BY SMTT(60) DEF UueBack, uueValue, uueChar, Byte, uueBase
\* uueDecodeBody gets back the second byte of a group.
LEMMA UueBack2 == UueBack(16, 16, 4, 64)
BY SMTT(60) DEF UueBack, uueValue, uueChar, Byte, uueBase
\* uueDecodeBody gets back the third byte of a group.
LEMMA UueBack3 == UueBack(4, 64, 1, 256)
BY SMTT(60) DEF UueBack, uueValue, uueChar, Byte, uueBase

\* Beyond the end of a group there is zero.
LEMMA AtByte ==
  \A g \in Seq(Byte), j \in Int : at(g, j) \in Byte /\ (j \in 1..Len(g) => at(g, j) = g[j])
<1> TAKE g \in Seq(Byte), j \in Int
<1>1. DOMAIN g = 1..Len(g) /\ \A i \in 1..Len(g) : g[i] \in Byte
  BY LenProperties, ElementOfSeq
<1>2. 0 \in Byte
  BY DEF Byte
<1> QED
  BY <1>1, <1>2 DEF at

Unit == 0..127

\* A group of up to seven bytes through ASC and back.
LEMMA AscOneGroup ==
  ASSUME NEW g \in Seq(Byte), NEW n \in 1..7, n = Len(g)
  PROVE  /\ ascGroup(g) \in Seq(Unit) /\ Len(ascGroup(g)) = n + 1
         /\ ascUngroup(ascGroup(g)) = g
<1> DEFINE u == ascGroup(g)
<1>0. n \in 1..7 /\ n \in Nat
  BY ONLY n \in 1..7
<1>1. ASSUME NEW j \in 1..(n + 1)
      PROVE  strip(at(g, j - 1) \div 2^(9 - j) + at(g, j) * 2^(j - 1)) \in Unit
  <2> DEFINE a == at(g, j - 1)
             b == at(g, j)
  <2>0. j \in Int /\ j - 1 \in Int
    BY <1>0
  <2>1. a \in 0..255 /\ b \in 0..255
    BY <2>0, AtByte DEF Byte
  <2>2. j \in 1..8
    BY ONLY <1>0, j \in 1..(n + 1)
  <2>3. \A x \in Nat : strip(x) \in Unit
    BY DEF strip, Unit
  <2> HIDE DEF a, b
  <2>11. j = 1 => a \div 2^(9 - j) + b * 2^(j - 1) \in Nat
    BY <2>1
  <2>12. j = 2 => a \div 2^(9 - j) + b * 2^(j - 1) \in Nat
    BY <2>1
  <2>13. j = 3 => a \div 2^(9 - j) + b * 2^(j - 1) \in Nat
    BY <2>1
  <2>14. j = 4 => a \div 2^(9 - j) + b * 2^(j - 1) \in Nat
    BY <2>1
  <2>15. j = 5 => a \div 2^(9 - j) + b * 2^(j - 1) \in Nat
    BY <2>1
  <2>16. j = 6 => a \div 2^(9 - j) + b * 2^(j - 1) \in Nat
    BY <2>1
  <2>17. j = 7 => a \div 2^(9 - j) + b * 2^(j - 1) \in Nat
    BY <2>1
  <2>18. j = 8 => a \div 2^(9 - j) + b * 2^(j - 1) \in Nat
    BY <2>1
  <2>4. a \div 2^(9 - j) + b * 2^(j - 1) \in Nat
    BY <2>2, <2>11, <2>12, <2>13, <2>14, <2>15, <2>16, <2>17, <2>18
  <2> QED
    BY <2>3, <2>4 DEF a, b
<1>2. u = [j \in 1..(n + 1) |-> strip(at(g, j - 1) \div 2^(9 - j) + at(g, j) * 2^(j - 1))]
  BY DEF ascGroup
<1> HIDE DEF u
<1>3. u \in [1..(n + 1) -> Unit] /\ n + 1 \in Nat
  BY <1>0, <1>1, <1>2
<1>4. u \in Seq(Unit) /\ Len(u) = n + 1
  BY <1>3
<1>5. ASSUME NEW j \in 1..n
      PROVE  (strip(u[j]) \div 2^(j - 1) + strip(u[j + 1]) * 2^(8 - j)) % 256 = g[j]
  <2>1. /\ u[j] = strip(at(g, j - 1) \div 2^(9 - j) + at(g, j) * 2^(j - 1))
        /\ u[j + 1] = strip(at(g, j) \div 2^(8 - j) + at(g, j + 1) * 2^j)
    <3>1. j \in 1..(n + 1) /\ j + 1 \in 1..(n + 1) /\ (j + 1) - 1 = j /\ 9 - (j + 1) = 8 - j
      BY <1>0
    <3> QED
      BY <1>2, <3>1
  <2>2. at(g, j - 1) \in Byte /\ at(g, j) \in Byte /\ at(g, j + 1) \in Byte /\ at(g, j) = g[j]
    <3>1. j \in Int /\ j - 1 \in Int /\ j + 1 \in Int /\ j \in 1..Len(g)
      BY <1>0
    <3> QED
      BY <3>1, AtByte
  <2>3. j \in 1..7
    BY <1>0
  <2>4. CASE j = 1 BY <2>1, <2>2, <2>4, AscBack1 DEF AscBack
  <2>5. CASE j = 2 BY <2>1, <2>2, <2>5, AscBack2 DEF AscBack
  <2>6. CASE j = 3 BY <2>1, <2>2, <2>6, AscBack3 DEF AscBack
  <2>7. CASE j = 4 BY <2>1, <2>2, <2>7, AscBack4 DEF AscBack
  <2>8. CASE j = 5 BY <2>1, <2>2, <2>8, AscBack5 DEF AscBack
  <2>9. CASE j = 6 BY <2>1, <2>2, <2>9, AscBack6 DEF AscBack
  <2>10. CASE j = 7 BY <2>1, <2>2, <2>10, AscBack7 DEF AscBack
  <2> QED
    BY <2>3, <2>4, <2>5, <2>6, <2>7, <2>8, <2>9, <2>10
<1>6. ascUngroup(u) = [j \in 1..n |-> (strip(u[j]) \div 2^(j - 1) + strip(u[j + 1]) * 2^(8 - j)) % 256]
  BY <1>0, <1>4 DEF ascUngroup
<1>7. g = [j \in 1..n |-> g[j]]
  BY LenProperties
<1>8. ascUngroup(u) = g
  BY ZenonT(30), <1>5, <1>6, <1>7
<1> QED
  BY <1>4, <1>8 DEF u

UueUnit == 33..96

\* A group of up to three bytes through UUE and back.
LEMMA UueOneGroup ==
  ASSUME NEW g \in Seq(Byte), NEW n \in 1..3, n = Len(g)
  PROVE  /\ uueGroup(g) \in Seq(UueUnit) /\ Len(uueGroup(g)) = n + 1
         /\ uueUngroup(uueGroup(g)) = g
<1> DEFINE u == uueGroup(g)
<1>0. n \in 1..3 /\ n \in Nat
  BY ONLY n \in 1..3
<1>1. ASSUME NEW j \in 1..(n + 1)
      PROVE  uueChar(at(g, j - 1) * 2^(8 - 2 * j) + at(g, j) \div 2^(2 * j)) \in UueUnit
  <2> DEFINE a == at(g, j - 1)
             b == at(g, j)
  <2>0. j \in Int /\ j - 1 \in Int
    BY <1>0
  <2>1. a \in 0..255 /\ b \in 0..255
    BY <2>0, AtByte DEF Byte
  <2>2. j \in 1..4
    BY ONLY <1>0, j \in 1..(n + 1)
  <2>3. \A x \in Nat : uueChar(x) \in UueUnit
    BY DEF uueChar, uueBase, UueUnit
  <2> HIDE DEF a, b
  <2>11. j = 1 => a * 2^(8 - 2 * j) + b \div 2^(2 * j) \in Nat
    BY <2>1
  <2>12. j = 2 => a * 2^(8 - 2 * j) + b \div 2^(2 * j) \in Nat
    BY <2>1
  <2>13. j = 3 => a * 2^(8 - 2 * j) + b \div 2^(2 * j) \in Nat
    BY <2>1
  <2>14. j = 4 => a * 2^(8 - 2 * j) + b \div 2^(2 * j) \in Nat
    BY <2>1
  <2>4. a * 2^(8 - 2 * j) + b \div 2^(2 * j) \in Nat
    BY <2>2, <2>11, <2>12, <2>13, <2>14
  <2> QED
    BY <2>3, <2>4 DEF a, b
<1>2. u = [j \in 1..(n + 1) |-> uueChar(at(g, j - 1) * 2^(8 - 2 * j) + at(g, j) \div 2^(2 * j))]
  BY DEF uueGroup
<1> HIDE DEF u
<1>3. u \in [1..(n + 1) -> UueUnit] /\ n + 1 \in Nat
  BY <1>0, <1>1, <1>2
<1>4. u \in Seq(UueUnit) /\ Len(u) = n + 1
  BY <1>3
<1>5. ASSUME NEW j \in 1..n
      PROVE  (uueValue(u[j]) * 2^(2 * j) + uueValue(u[j + 1]) \div 2^(6 - 2 * j)) % 256 = g[j]
  <2>1. /\ u[j] = uueChar(at(g, j - 1) * 2^(8 - 2 * j) + at(g, j) \div 2^(2 * j))
        /\ u[j + 1] = uueChar(at(g, j) * 2^(6 - 2 * j) + at(g, j + 1) \div 2^(2 * j + 2))
    <3>1. /\ j \in 1..(n + 1) /\ j + 1 \in 1..(n + 1) /\ (j + 1) - 1 = j
          /\ 8 - 2 * (j + 1) = 6 - 2 * j /\ 2 * (j + 1) = 2 * j + 2
      BY <1>0
    <3> QED
      BY <1>2, <3>1
  <2>2. at(g, j - 1) \in Byte /\ at(g, j) \in Byte /\ at(g, j + 1) \in Byte /\ at(g, j) = g[j]
    <3>1. j \in Int /\ j - 1 \in Int /\ j + 1 \in Int /\ j \in 1..Len(g)
      BY <1>0
    <3> QED
      BY <3>1, AtByte
  <2>3. j \in 1..3
    BY <1>0
  <2>4. CASE j = 1 BY <2>1, <2>2, <2>4, UueBack1 DEF UueBack
  <2>5. CASE j = 2 BY <2>1, <2>2, <2>5, UueBack2 DEF UueBack
  <2>6. CASE j = 3 BY <2>1, <2>2, <2>6, UueBack3 DEF UueBack
  <2> QED
    BY <2>3, <2>4, <2>5, <2>6
<1>6. uueUngroup(u) = [j \in 1..n |-> (uueValue(u[j]) * 2^(2 * j) + uueValue(u[j + 1]) \div 2^(6 - 2 * j)) % 256]
  BY <1>0, <1>4 DEF uueUngroup
<1>7. g = [j \in 1..n |-> g[j]]
  BY LenProperties
<1>8. uueUngroup(u) = g
  BY ZenonT(30), <1>5, <1>6, <1>7
<1> QED
  BY <1>4, <1>8 DEF u

\* What ASC makes of a body comes back, and is at most twice as long.
THEOREM AscRoundTrip ==
  ASSUME NEW body \in Seq(Byte), NEW L \in Nat, L = Len(body)
  PROVE  /\ ascUnits(body) \in Seq(Unit)
         /\ ascDecode(ascUnits(body)) = body
         /\ Len(ascUnits(body)) <= 2 * L
         /\ (\E k \in 1..L : body[k] \in 65..78)
              => \E i \in 1..Len(ascUnits(body)) : ascUnits(body)[i] # 97
<1>1. PICK n \in Nat : n = (L + 7 - 1) \div 7
  BY ONLY L \in Nat
<1> DEFINE gs == groups(body, 7)
           A == [i \in 1..n |-> ascGroup(gs[i])]
           F == FlattenSeq(A)
<1>2. gs \in [1..n -> Seq(Byte)] /\ Sized(gs, n, 7) /\ FlattenSeq(gs) = body
  BY <1>1, Grouped DEF Sizes
<1> HIDE DEF gs
<1>3. Len(gs) = n
  BY <1>1, <1>2
<1>4. ASSUME NEW i \in 1..n
      PROVE  /\ gs[i] \in Seq(Byte) /\ 1 <= Len(gs[i]) /\ Len(gs[i]) <= 7
             /\ A[i] \in Seq(Unit) /\ Len(A[i]) = Len(gs[i]) + 1 /\ ascUngroup(A[i]) = gs[i]
  <2>1. gs[i] \in Seq(Byte) /\ 1 <= Len(gs[i]) /\ Len(gs[i]) <= 7
    BY <1>2 DEF Sized
  <2>2. A[i] = ascGroup(gs[i])
    OBVIOUS
  <2> HIDE DEF A
  <2>3. PICK l \in Nat : l = Len(gs[i])
    BY <2>1, LenProperties
  <2>5. l \in 1..7
    <3>1. 1 <= l /\ l <= 7
      BY <2>1, <2>3
    <3> QED
      BY ONLY <3>1, l \in Nat
  <2>4. /\ ascGroup(gs[i]) \in Seq(Unit) /\ Len(ascGroup(gs[i])) = l + 1
        /\ ascUngroup(ascGroup(gs[i])) = gs[i]
    BY <2>1, <2>3, <2>5, AscOneGroup
  <2> QED
    BY <2>1, <2>2, <2>3, <2>4
<1>5. ascUnits(body) = F
  BY <1>3 DEF ascUnits, gs
<1> HIDE DEF F
<1>6. A \in [1..n -> Seq(Unit)]
  BY <1>4
<1>7. Len(A) = n
  BY <1>1
<1> HIDE DEF A
<1>8. Sized(A, n, 8)
  <2> SUFFICES ASSUME NEW i \in 1..n PROVE 1 <= Len(A[i]) /\ Len(A[i]) <= 8 /\ (i < n => 8 = Len(A[i]))
    BY DEF Sized
  <2> DEFINE g == Len(gs[i])
             a == Len(A[i])
  <2>1. 1 <= g /\ g <= 7 /\ (i < n => g = 7) /\ a = g + 1 /\ g \in Nat
    BY <1>2, <1>4, LenProperties DEF Sized
  <2> HIDE DEF a, g
  <2>2. 1 <= a /\ a <= 8 /\ (i < n => 8 = a)
    BY ONLY <2>1, n \in Nat, i \in 1..n
  <2> QED
    BY <2>2 DEF a
<1>9. /\ groups(F, 8) = A
      /\ Len(F) = IF n = 0 THEN 0 ELSE 8 * (n - 1) + Len(A[n])
  <2>1. 8 \in Sizes
    BY DEF Sizes
  <2> DEFINE size == 8
  <2>3. size \in Sizes /\ Sized(A, n, size)
    BY <1>8, <2>1
  <2> HIDE DEF size
  <2>2. /\ groups(FlattenSeq(A), size) = A
        /\ Len(FlattenSeq(A)) = IF n = 0 THEN 0 ELSE size * (n - 1) + Len(A[n])
    BY <1>6, <2>3, Regrouped
  <2> QED
    BY <2>2 DEF F, size
<1>10. L = IF n = 0 THEN 0 ELSE 7 * (n - 1) + Len(gs[n])
  <2>1. 7 \in Sizes
    BY DEF Sizes
  <2>2. Len(FlattenSeq(gs)) = IF n = 0 THEN 0 ELSE 7 * (n - 1) + Len(gs[n])
    BY <1>2, <2>1, Regrouped
  <2> QED
    BY <1>2, <2>2
<1>11. F \in Seq(Unit)
  BY <1>1, <1>6, Flattened DEF F
<1>12. Len(F) <= 2 * L
  <2> DEFINE g == Len(gs[n])
             a == Len(A[n])
             f == Len(F)
  <2>1. n # 0 => a = g + 1 /\ 1 <= g /\ g <= 7 /\ g \in Nat
    BY <1>4, LenProperties
  <2>2. f = IF n = 0 THEN 0 ELSE 8 * (n - 1) + a
    BY <1>9
  <2>3. L = IF n = 0 THEN 0 ELSE 7 * (n - 1) + g
    BY <1>10
  <2> HIDE DEF g, a, f
  <2>4. f <= 2 * L /\ (L > 0 => f > 0)
    BY ONLY n \in Nat, <2>1, <2>2, <2>3
  <2> QED
    BY <2>4 DEF f
<1>13. ascDecode(F) = body
  <2>1. ascDecode(F) = FlattenSeq([i \in 1..n |-> ascUngroup(A[i])])
    BY <1>7, <1>9 DEF ascDecode
  <2>2. [i \in 1..n |-> ascUngroup(A[i])] = gs
    BY <1>2, <1>4
  <2> QED
    BY <1>2, <2>1, <2>2
<1>14. ASSUME NEW k \in 1..L, body[k] \in 65..78, \A x \in 1..Len(F) : F[x] = 97
       PROVE  FALSE
  <2>1. PICK p : Laid(F, A, n, p)
    BY <1>1, <1>6, Flattened DEF F
  <2>2. PICK q : Laid(body, gs, n, q)
    BY <1>1, <1>2, Flattened
  <2>3. /\ q \in [0..n -> Nat] /\ q[0] = 0 /\ q[n] = L
        /\ \A i \in 1..n : q[i] = q[i - 1] + Len(gs[i])
    BY <2>2 DEF Laid
  <2>4. ASSUME NEW i \in 1..n
        PROVE  q[i - 1] <= q[i]
    <3>1. PICK l \in Nat : l = Len(gs[i])
      BY <1>4, LenProperties
    <3>2. q[i] = q[i - 1] + l /\ q[i - 1] \in Nat
      BY <2>3, <3>1
    <3> QED
      BY ONLY <3>2, l \in Nat
  <2>5. PICK i \in 1..n : k \in (q[i - 1] + 1)..q[i]
    BY <1>1, <2>3, <2>4, InPiece
  <2> DEFINE j == k - q[i - 1]
  <2>60. PICK m \in Nat : m = Len(gs[i])
    BY <1>4, LenProperties
  <2>61. m \in 1..7
    <3>1. 1 <= m /\ m <= 7
      BY <1>4, <2>60
    <3> QED
      BY ONLY <3>1, m \in Nat
  <2>6. q[i - 1] \in Nat /\ q[i] = q[i - 1] + m /\ m \in Nat
    BY <2>3, <2>60
  <2>7. j \in 1..m /\ k = q[i - 1] + j
    BY ONLY <2>5, <2>6, k \in 1..L, L \in Nat
  <2> HIDE DEF j
  <2>8. body[k] = gs[i][j]
    <3>1. \A x \in 1..m : body[q[i - 1] + x] = gs[i][x]
      BY <2>2, <2>60 DEF Laid
    <3> QED
      BY <2>7, <3>1
  <2>9. /\ p[i] = p[i - 1] + Len(A[i]) /\ p[i] <= Len(F) /\ p[i - 1] \in Nat
        /\ \A x \in 1..Len(A[i]) : F[p[i - 1] + x] = A[i][x]
    BY <2>1 DEF Laid
  <2>10. Len(A[i]) = m + 1
    BY <1>4, <2>60
  <2>11. Len(F) \in Nat
    BY <1>11, LenProperties
  <2>12. \A x \in 1..(m + 1) : p[i - 1] + x \in 1..Len(F)
    BY ONLY SMTT(30), <2>6, <2>9, <2>10, <2>11
  <2>13. A[i][j] = 97 /\ A[i][j + 1] = 97
    <3>1. j \in 1..(m + 1) /\ j + 1 \in 1..(m + 1)
      BY ONLY <2>6, <2>7
    <3> QED
      BY ZenonT(30), <1>14, <2>9, <2>10, <2>12, <3>1
  <2>14. ascUngroup(A[i])[j] = (strip(97) \div 2^(j - 1) + strip(97) * 2^(8 - j)) % 256
    <3>1. j \in 1..(Len(A[i]) - 1)
      BY ONLY <2>6, <2>7, <2>10
    <3> QED
      BY <2>13, <3>1 DEF ascUngroup
  <2>15. (97 \div 2^(j - 1) + 97 * 2^(8 - j)) % 256 \in 65..78
    <3>1. strip(97) = 97
      BY DEF strip
    <3>2. gs[i] = ascUngroup(A[i])
      BY <1>4
    <3>3. body[k] \in 65..78
      BY <1>14
    <3> QED
      BY <2>8, <2>14, <3>1, <3>2, <3>3
  <2>16. j \in 1..7
    BY ONLY <2>7, <2>61
  <2>17. \A x \in 1..7 : (97 \div 2^(x - 1) + 97 * 2^(8 - x)) % 256 \notin 65..78
    <3> SUFFICES ASSUME NEW x \in 1..7
                 PROVE (97 \div 2^(x - 1) + 97 * 2^(8 - x)) % 256 \notin 65..78
      OBVIOUS
    <3>1. CASE x = 1 BY <3>1
    <3>2. CASE x = 2 BY <3>2
    <3>3. CASE x = 3 BY <3>3
    <3>4. CASE x = 4 BY <3>4
    <3>5. CASE x = 5 BY <3>5
    <3>6. CASE x = 6 BY <3>6
    <3>7. CASE x = 7 BY <3>7
    <3> QED BY <3>1, <3>2, <3>3, <3>4, <3>5, <3>6, <3>7
  <2> QED
    BY <2>15, <2>16, <2>17
<1> QED
  BY <1>5, <1>11, <1>12, <1>13, <1>14

\* And what UUE makes of one.
THEOREM UueRoundTrip ==
  ASSUME NEW body \in Seq(Byte), NEW L \in Nat, L = Len(body)
  PROVE  /\ uueEncode(body) \in Seq(UueUnit)
         /\ uueDecode(uueEncode(body)) = body
         /\ Len(uueEncode(body)) <= 2 * L
         /\ L > 0 => Len(uueEncode(body)) > 0
<1>1. PICK n \in Nat : n = (L + 3 - 1) \div 3
  BY ONLY L \in Nat
<1> DEFINE gs == groups(body, 3)
           A == [i \in 1..n |-> uueGroup(gs[i])]
           F == FlattenSeq(A)
<1>2. gs \in [1..n -> Seq(Byte)] /\ Sized(gs, n, 3) /\ FlattenSeq(gs) = body
  BY <1>1, Grouped DEF Sizes
<1> HIDE DEF gs
<1>3. Len(gs) = n
  BY <1>1, <1>2
<1>4. ASSUME NEW i \in 1..n
      PROVE  /\ gs[i] \in Seq(Byte) /\ 1 <= Len(gs[i]) /\ Len(gs[i]) <= 3
             /\ A[i] \in Seq(UueUnit) /\ Len(A[i]) = Len(gs[i]) + 1 /\ uueUngroup(A[i]) = gs[i]
  <2>1. gs[i] \in Seq(Byte) /\ 1 <= Len(gs[i]) /\ Len(gs[i]) <= 3
    BY <1>2 DEF Sized
  <2>2. A[i] = uueGroup(gs[i])
    OBVIOUS
  <2> HIDE DEF A
  <2>3. PICK l \in Nat : l = Len(gs[i])
    BY <2>1, LenProperties
  <2>5. l \in 1..3
    <3>1. 1 <= l /\ l <= 3
      BY <2>1, <2>3
    <3> QED
      BY ONLY <3>1, l \in Nat
  <2>4. /\ uueGroup(gs[i]) \in Seq(UueUnit) /\ Len(uueGroup(gs[i])) = l + 1
        /\ uueUngroup(uueGroup(gs[i])) = gs[i]
    BY <2>1, <2>3, <2>5, UueOneGroup
  <2> QED
    BY <2>1, <2>2, <2>3, <2>4
<1>5. uueEncode(body) = F
  BY <1>3 DEF uueEncode, gs
<1> HIDE DEF F
<1>6. A \in [1..n -> Seq(UueUnit)]
  BY <1>4
<1>7. Len(A) = n
  BY <1>1
<1> HIDE DEF A
<1>8. Sized(A, n, 4)
  <2> SUFFICES ASSUME NEW i \in 1..n PROVE 1 <= Len(A[i]) /\ Len(A[i]) <= 4 /\ (i < n => 4 = Len(A[i]))
    BY DEF Sized
  <2> DEFINE g == Len(gs[i])
             a == Len(A[i])
  <2>1. 1 <= g /\ g <= 3 /\ (i < n => g = 3) /\ a = g + 1 /\ g \in Nat
    BY <1>2, <1>4, LenProperties DEF Sized
  <2> HIDE DEF a, g
  <2>2. 1 <= a /\ a <= 4 /\ (i < n => 4 = a)
    BY ONLY <2>1, n \in Nat, i \in 1..n
  <2> QED
    BY <2>2 DEF a
<1>9. /\ groups(F, 4) = A
      /\ Len(F) = IF n = 0 THEN 0 ELSE 4 * (n - 1) + Len(A[n])
  <2>1. 4 \in Sizes
    BY DEF Sizes
  <2> DEFINE size == 4
  <2>3. size \in Sizes /\ Sized(A, n, size)
    BY <1>8, <2>1
  <2> HIDE DEF size
  <2>2. /\ groups(FlattenSeq(A), size) = A
        /\ Len(FlattenSeq(A)) = IF n = 0 THEN 0 ELSE size * (n - 1) + Len(A[n])
    BY <1>6, <2>3, Regrouped
  <2> QED
    BY <2>2 DEF F, size
<1>10. L = IF n = 0 THEN 0 ELSE 3 * (n - 1) + Len(gs[n])
  <2>1. 3 \in Sizes
    BY DEF Sizes
  <2>2. Len(FlattenSeq(gs)) = IF n = 0 THEN 0 ELSE 3 * (n - 1) + Len(gs[n])
    BY <1>2, <2>1, Regrouped
  <2> QED
    BY <1>2, <2>2
<1>11. F \in Seq(UueUnit)
  BY <1>1, <1>6, Flattened DEF F
<1>12. Len(F) <= 2 * L /\ (L > 0 => Len(F) > 0)
  <2> DEFINE g == Len(gs[n])
             a == Len(A[n])
             f == Len(F)
  <2>1. n # 0 => a = g + 1 /\ 1 <= g /\ g <= 3 /\ g \in Nat
    BY <1>4, LenProperties
  <2>2. f = IF n = 0 THEN 0 ELSE 4 * (n - 1) + a
    BY <1>9
  <2>3. L = IF n = 0 THEN 0 ELSE 3 * (n - 1) + g
    BY <1>10
  <2> HIDE DEF g, a, f
  <2>4. f <= 2 * L /\ (L > 0 => f > 0)
    BY ONLY n \in Nat, <2>1, <2>2, <2>3
  <2> QED
    BY <2>4 DEF f
<1>13. uueDecode(F) = body
  <2> DEFINE read == Len(F) - (IF Len(F) % 4 = 1 THEN 1 ELSE 0)
  <2>1. \A i \in 1..Len(F) : F[i] \in 33..96
    BY <1>11, ElementOfSeq DEF UueUnit
  <2>2. Len(F) \in Nat
    BY <1>11, LenProperties
  <2>3. \A i \in 1..read : i \in 1..Len(F)
    BY ONLY <2>2
  <2>4. \A i \in 1..read : F[i] \in 33..96
    BY ONLY <2>1, <2>3
  <2>5. uueDecode(F) = FlattenSeq([i \in 1..n |-> uueUngroup(A[i])])
    BY <1>7, <1>9, <2>4 DEF uueDecode
  <2>6. [i \in 1..n |-> uueUngroup(A[i])] = gs
    BY <1>2, <1>4
  <2> QED
    BY <1>2, <2>5, <2>6
<1> QED
  BY <1>5, <1>11, <1>12, <1>13

-----------------------------------------------------------------------------
(* HEX.                                                                    *)

HexState == [out : Seq(Int), pending : Seq(Int)]
HexStart == [out |-> <<>>, pending |-> <<>>]
HexRun(d, text, n) == d = [i \in 0..n |-> IF i = 0 THEN HexStart ELSE hexStep(d[i - 1], text[i])]

\* hexStep keeps the type of the decoder's state.
LEMMA HexStepTyped == \A d \in HexState, c \in Int : hexStep(d, c) \in HexState
<1> TAKE d \in HexState, c \in Int
<1>1. d = [out |-> d.out, pending |-> d.pending] /\ d.out \in Seq(Int) /\ d.pending \in Seq(Int)
  BY DEF HexState
<1>2. \A s \in Seq(Int), x \in Int : Append(s, x) \in Seq(Int)
  BY AppendProperties
<1>3. <<>> \in Seq(Int) /\ bad \in Seq(Int)
  BY DEF bad
<1>4. CASE d.out = bad
  BY <1>4 DEF hexStep
<1>5. CASE d.out # bad /\ d.pending = <<>>
  <2>1. hexStep(d, c) = IF c = backslash THEN [d EXCEPT !.pending = <<c>>] ELSE [d EXCEPT !.out = Append(@, c)]
    BY <1>5 DEF hexStep
  <2>2. <<c>> \in Seq(Int)
    OBVIOUS
  <2> QED
    BY <1>1, <1>2, <2>1, <2>2 DEF HexState
<1>6. CASE d.out # bad /\ d.pending # <<>> /\ Len(d.pending) = 1
  <2>1. hexStep(d, c) = IF c = backslash THEN [out |-> Append(d.out, c), pending |-> <<>>]
                        ELSE [d EXCEPT !.pending = Append(@, c)]
    BY <1>6 DEF hexStep
  <2>2. Append(d.out, c) \in Seq(Int) /\ Append(d.pending, c) \in Seq(Int)
    BY <1>1, <1>2
  <2>3. CASE c = backslash
    BY <1>1, <1>3, <2>1, <2>2, <2>3 DEF HexState
  <2>4. CASE c # backslash
    BY <1>1, <1>3, <2>1, <2>2, <2>4 DEF HexState
  <2> QED
    BY <2>3, <2>4
<1>7. CASE d.out # bad /\ d.pending # <<>> /\ Len(d.pending) # 1
  <2> DEFINE v == 16 * hexNibble(d.pending[2]) + hexNibble(c)
  <2>1. hexStep(d, c) =
            IF isHexDigit(d.pending[2]) /\ isHexDigit(c)
            THEN [out |-> Append(d.out, v), pending |-> <<>>]
            ELSE [d EXCEPT !.out = bad]
    BY <1>7 DEF hexStep
  <2>2. isHexDigit(d.pending[2]) /\ isHexDigit(c) => v \in Int
    BY DEF isHexDigit, hexNibble
  <2> HIDE DEF v
  <2>3. CASE isHexDigit(d.pending[2]) /\ isHexDigit(c)
    BY <1>1, <1>2, <1>3, <2>1, <2>2, <2>3 DEF HexState
  <2>4. CASE ~(isHexDigit(d.pending[2]) /\ isHexDigit(c))
    <3>1. hexStep(d, c) = [d EXCEPT !.out = bad]
      BY <2>1, <2>4
    <3> QED
      BY <1>1, <1>3, <3>1 DEF HexState
  <2> QED
    BY <2>3, <2>4
<1> QED
  BY <1>4, <1>5, <1>6, <1>7

\* The decoder has a run over any text.
LEMMA HexRuns ==
  ASSUME NEW n \in Nat, NEW text \in [1..n -> Int]
  PROVE  \E d : HexRun(d, text, n)
<1> DEFINE step == [x \in (1..n) \X HexState |-> hexStep(x[2], text[x[1]])]
<1>1. step \in [(1..n) \X HexState -> HexState]
  <2>1. \A x \in (1..n) \X HexState : x[2] \in HexState /\ text[x[1]] \in Int
    OBVIOUS
  <2> QED
    BY <2>1, HexStepTyped
<1>2. \A i \in 1..n, s \in HexState : step[<<i, s>>] = hexStep(s, text[i])
  OBVIOUS
<1> HIDE DEF step
<1>3. HexStart \in HexState
  BY EmptySeq DEF HexStart, HexState
<1>4. PICK d \in [0..n -> HexState] : History(d, step, HexStart, n)
  BY <1>1, <1>3, HistoryExists
<1>5. ASSUME NEW i \in 0..n
      PROVE  d[i] = IF i = 0 THEN HexStart ELSE hexStep(d[i - 1], text[i])
  <2>1. d[i] = IF i = 0 THEN HexStart ELSE step[<<i, d[i - 1]>>]
    BY <1>4 DEF History
  <2>2. i # 0 => i \in 1..n /\ d[i - 1] \in HexState
    BY <1>4
  <2> QED
    BY <1>2, <2>1, <2>2
<1>6. d = [i \in 0..n |-> d[i]]
  BY <1>4
<1> QED
  BY <1>5, <1>6 DEF HexRun

HexDecoded(e) == IF e.pending = <<>> THEN e.out ELSE bad

\* hexDecode is where that run ends.
LEMMA HexDecodes ==
  ASSUME NEW text, NEW n \in Nat, n = Len(text), text \in [1..n -> Int]
  PROVE  \E d : HexRun(d, text, n) /\ hexDecode(text) = HexDecoded(d[n])
<1> DEFINE d == CHOOSE d : HexRun(d, text, n)
<1>1. HexRun(d, text, n)
  BY HexRuns
<1>2. hexDecode(text) = HexDecoded(d[n])
  BY DEF hexDecode, HexRun, HexStart, HexDecoded
<1> QED
  BY <1>1, <1>2

\* A digit is not a backslash, and two of them make the byte.
LEMMA HexDigits ==
  \A c \in Byte :
     LET h == hexdigit(c \div 16)  l == hexdigit(c % 16) IN
     /\ h \in Unit /\ l \in Unit /\ ~control(h) /\ ~control(l)
     /\ h # backslash /\ isHexDigit(h) /\ isHexDigit(l) /\ 16 * hexNibble(h) + hexNibble(l) = c
<1> TAKE c \in Byte
<1> DEFINE x == c \div 16
           y == c % 16
<1>1. x \in 0..15 /\ y \in 0..15 /\ 16 * x + y = c
  BY DEF Byte
<1> HIDE DEF x, y
<1>2. \A v \in 0..15 :
        /\ hexdigit(v) \in Unit /\ ~control(hexdigit(v)) /\ hexdigit(v) # backslash
        /\ isHexDigit(hexdigit(v)) /\ hexNibble(hexdigit(v)) = v
  BY DEF hexdigit, Unit, control, backslash, isHexDigit, hexNibble
<1>3. /\ hexdigit(x) \in Unit /\ hexdigit(y) \in Unit /\ ~control(hexdigit(x)) /\ ~control(hexdigit(y))
      /\ hexdigit(x) # backslash /\ isHexDigit(hexdigit(x)) /\ isHexDigit(hexdigit(y))
      /\ 16 * hexNibble(hexdigit(x)) + hexNibble(hexdigit(y)) = c
  BY <1>1, <1>2
<1> QED
  BY <1>3 DEF x, y

\* The characters of a byte: how many, of what kind, and how they are read.
LEMMA HexChars ==
  ASSUME NEW c \in Byte
  PROVE  /\ hexChars(c) \in Seq(Unit)
         /\ \E l \in 1..3 : l = Len(hexChars(c))
         /\ c \in 65..78 => hexChars(c) = <<c>>
<1>1. CASE c >= 128
  <2>1. hexChars(c) = <<backslash, hexdigit(c \div 16), hexdigit(c % 16)>>
    BY <1>1 DEF hexChars, backslash, Byte
  <2>2. hexdigit(c \div 16) \in Unit /\ hexdigit(c % 16) \in Unit /\ backslash \in Unit
    BY HexDigits DEF backslash, Unit
  <2> QED
    BY <1>1, <2>1, <2>2
<1>2. CASE ~(c >= 128) /\ c = backslash
  <2>1. hexChars(c) = <<backslash, backslash>>
    BY <1>2 DEF hexChars
  <2>2. backslash \in Unit /\ backslash \notin 65..78
    BY DEF backslash, Unit
  <2> QED
    BY <1>2, <2>1, <2>2
<1>3. CASE ~(c >= 128) /\ c # backslash
  <2>1. hexChars(c) = <<c>> /\ c \in Unit
    BY <1>3 DEF hexChars, Unit, Byte
  <2> QED
    BY <2>1
<1> QED
  BY <1>1, <1>2, <1>3

\* What the next character does, outside and inside of a sequence.
LEMMA HexMove0 ==
  ASSUME NEW out, out # bad, NEW c
  PROVE  hexStep([out |-> out, pending |-> <<>>], c) =
            IF c = backslash THEN [out |-> out, pending |-> <<c>>]
            ELSE [out |-> Append(out, c), pending |-> <<>>]
<1> DEFINE d == [out |-> out, pending |-> <<>>]
<1>1. d.out = out /\ d.pending = <<>>
  OBVIOUS
<1>2. [d EXCEPT !.pending = <<c>>] = [out |-> out, pending |-> <<c>>]
  OBVIOUS
<1>3. [d EXCEPT !.out = Append(@, c)] = [out |-> Append(out, c), pending |-> <<>>]
  OBVIOUS
<1> HIDE DEF d
<1>4. hexStep(d, c) = IF c = backslash THEN [d EXCEPT !.pending = <<c>>]
                      ELSE [d EXCEPT !.out = Append(@, c)]
  BY <1>1 DEF hexStep
<1>5. hexStep(d, c) = IF c = backslash THEN [out |-> out, pending |-> <<c>>]
                      ELSE [out |-> Append(out, c), pending |-> <<>>]
  BY <1>2, <1>3, <1>4
<1> QED
  BY <1>5 DEF d

\* The second character of a sequence.
LEMMA HexMove1 ==
  ASSUME NEW out, out # bad, NEW x, NEW c
  PROVE  hexStep([out |-> out, pending |-> <<x>>], c) =
            IF c = backslash THEN [out |-> Append(out, c), pending |-> <<>>]
            ELSE [out |-> out, pending |-> <<x, c>>]
<1> DEFINE d == [out |-> out, pending |-> <<x>>]
<1>1. d.out = out /\ d.pending # <<>> /\ Len(d.pending) = 1
  OBVIOUS
<1>2. [d EXCEPT !.pending = Append(@, c)] = [out |-> out, pending |-> <<x, c>>]
  OBVIOUS
<1> HIDE DEF d
<1>3. hexStep(d, c) = IF c = backslash THEN [out |-> Append(d.out, c), pending |-> <<>>]
                      ELSE [d EXCEPT !.pending = Append(@, c)]
  BY <1>1 DEF hexStep
<1>4. hexStep(d, c) = IF c = backslash THEN [out |-> Append(out, c), pending |-> <<>>]
                      ELSE [out |-> out, pending |-> <<x, c>>]
  BY <1>1, <1>2, <1>3
<1> QED
  BY <1>4 DEF d

\* The third character of a sequence.
LEMMA HexMove2 ==
  ASSUME NEW out, out # bad, NEW x, NEW y, NEW c, isHexDigit(y), isHexDigit(c)
  PROVE  hexStep([out |-> out, pending |-> <<x, y>>], c) =
            [out |-> Append(out, 16 * hexNibble(y) + hexNibble(c)), pending |-> <<>>]
<1> DEFINE d == [out |-> out, pending |-> <<x, y>>]
<1>1. d.out = out /\ d.pending # <<>> /\ Len(d.pending) # 1 /\ d.pending[2] = y
  <2>1. Len(<<x, y>>) = 2 /\ Len(<<>>) = 0 /\ <<x, y>>[2] = y
    OBVIOUS
  <2> QED
    BY <2>1
<1> HIDE DEF d
<1>2. hexStep(d, c) = [out |-> Append(d.out, 16 * hexNibble(d.pending[2]) + hexNibble(c)),
                       pending |-> <<>>]
  BY <1>1 DEF hexStep
<1>3. hexStep(d, c) = [out |-> Append(out, 16 * hexNibble(y) + hexNibble(c)), pending |-> <<>>]
  BY <1>1, <1>2
<1> QED
  BY <1>3 DEF d

HexAt(d, p, out) == d[p] = [out |-> out, pending |-> <<>>]
HexPut(text, p, l, c) == \A j \in 1..l : text[p + j] = hexChars(c)[j]

\* From a run d that has put out what precedes c, the run past c's characters.
LEMMA HexOneByte ==
  ASSUME NEW c \in Byte, NEW out \in Seq(Byte), NEW n \in Nat, NEW text, NEW d, HexRun(d, text, n),
         NEW p \in Nat, NEW l \in Nat, l = Len(hexChars(c)), p + l <= n,
         HexPut(text, p, l, c), HexAt(d, p, out)
  PROVE  HexAt(d, p + l, Append(out, c))
<1>0. /\ \A j \in 1..l : text[p + j] = hexChars(c)[j]
      /\ d[p] = [out |-> out, pending |-> <<>>]
  BY DEF HexAt, HexPut
<1>1. out # bad
  <2> SUFFICES ASSUME out = <<-1>> PROVE FALSE
    BY DEF bad
  <2>1. out[1] = -1 /\ Len(out) = 1
    OBVIOUS
  <2>2. out[1] \in Byte
    BY <2>1, ElementOfSeq
  <2> QED
    BY <2>1, <2>2 DEF Byte
<1>2. \A i \in 1..n : d[i] = hexStep(d[i - 1], text[i])
  BY DEF HexRun
<1>3. CASE c >= 128
  <2> DEFINE a == hexdigit(c \div 16)
             b == hexdigit(c % 16)
  <2>1. hexChars(c) = <<backslash, a, b>>
    BY <1>3 DEF hexChars, backslash, Byte
  <2>2. a # backslash /\ isHexDigit(a) /\ isHexDigit(b) /\ 16 * hexNibble(a) + hexNibble(b) = c
    BY HexDigits
  <2> HIDE DEF a, b
  <2>3. l = 3
    BY <2>1
  <2>4. text[p + 1] = backslash /\ text[p + 2] = a /\ text[p + 3] = b
    BY <1>0, <2>1, <2>3
  <2>5. /\ d[p + 1] = hexStep(d[p], text[p + 1]) /\ d[p + 2] = hexStep(d[p + 1], text[p + 2])
        /\ d[p + 3] = hexStep(d[p + 2], text[p + 3])
    <3>1. /\ p + 1 \in 1..n /\ p + 2 \in 1..n /\ p + 3 \in 1..n
          /\ (p + 1) - 1 = p /\ (p + 2) - 1 = p + 1 /\ (p + 3) - 1 = p + 2
      BY ONLY <2>3, p \in Nat, n \in Nat, p + l <= n
    <3> QED
      BY <1>2, <3>1
  <2>6. d[p + 1] = [out |-> out, pending |-> <<text[p + 1]>>]
    BY <1>0, <1>1, <2>4, <2>5, HexMove0
  <2>7. d[p + 2] = [out |-> out, pending |-> <<text[p + 1], a>>]
    <3>1. d[p + 2] = hexStep([out |-> out, pending |-> <<text[p + 1]>>], a)
      BY <2>4, <2>5, <2>6
    <3> QED
      BY ONLY <1>1, <2>2, <3>1, HexMove1
  <2>8. d[p + 3] = [out |-> Append(out, c), pending |-> <<>>]
    BY <1>1, <2>2, <2>4, <2>5, <2>7, HexMove2
  <2> QED
    BY <2>3, <2>8 DEF HexAt
<1>4. CASE ~(c >= 128) /\ c = backslash
  <2>1. hexChars(c) = <<backslash, backslash>>
    BY <1>4 DEF hexChars
  <2>2. l = 2
    BY <2>1
  <2>3. text[p + 1] = backslash /\ text[p + 2] = backslash
    BY <1>0, <2>1, <2>2
  <2>4. d[p + 1] = hexStep(d[p], text[p + 1]) /\ d[p + 2] = hexStep(d[p + 1], text[p + 2])
    <3>1. p + 1 \in 1..n /\ p + 2 \in 1..n /\ (p + 1) - 1 = p /\ (p + 2) - 1 = p + 1
      BY ONLY <2>2, p \in Nat, n \in Nat, p + l <= n
    <3> QED
      BY <1>2, <3>1
  <2>5. d[p + 1] = [out |-> out, pending |-> <<text[p + 1]>>]
    BY <1>0, <1>1, <2>3, <2>4, HexMove0
  <2>6. d[p + 2] = [out |-> Append(out, c), pending |-> <<>>]
    <3>1. d[p + 2] = hexStep([out |-> out, pending |-> <<text[p + 1]>>], c)
      BY <1>4, <2>3, <2>4, <2>5
    <3> QED
      BY ONLY <1>1, <1>4, <3>1, HexMove1
  <2> QED
    BY <2>2, <2>6 DEF HexAt
<1>5. CASE ~(c >= 128) /\ c # backslash
  <2>1. hexChars(c) = <<c>>
    BY <1>5 DEF hexChars
  <2>2. l = 1
    BY <2>1
  <2>3. text[p + 1] = c
    BY <1>0, <2>1, <2>2
  <2>4. d[p + 1] = hexStep(d[p], text[p + 1])
    <3>1. p + 1 \in 1..n /\ (p + 1) - 1 = p
      BY ONLY <2>2, p \in Nat, n \in Nat, p + l <= n
    <3> QED
      BY <1>2, <3>1
  <2>5. d[p + 1] = [out |-> Append(out, c), pending |-> <<>>]
    BY <1>0, <1>1, <1>5, <2>3, <2>4, HexMove0
  <2> QED
    BY <2>2, <2>5 DEF HexAt
<1> QED
  BY <1>3, <1>4, <1>5

\* What hexDecodeBody makes of hexEncodeBody's text, and how long that is.
THEOREM HexRoundTrip ==
  ASSUME NEW body \in Seq(Byte), NEW L \in Nat, L = Len(body)
  PROVE  /\ hexText(body) \in Seq(Unit)
         /\ hexDecode(hexText(body)) = body
         /\ Len(hexText(body)) <= 3 * L
         /\ (\E k \in 1..L : body[k] \in 65..78)
              => \E i \in 1..Len(hexText(body)) : hexText(body)[i] # 97
<1> DEFINE A == [i \in 1..L |-> hexChars(body[i])]
           F == FlattenSeq(A)
<1>1. ASSUME NEW i \in 1..L
      PROVE  /\ body[i] \in Byte /\ A[i] = hexChars(body[i]) /\ A[i] \in Seq(Unit)
             /\ \E l \in 1..3 : l = Len(A[i])
  <2>1. body[i] \in Byte
    BY ElementOfSeq
  <2>2. A[i] = hexChars(body[i])
    OBVIOUS
  <2> HIDE DEF A
  <2> QED
    BY <2>1, <2>2, HexChars
<1>2. A \in [1..L -> Seq(Unit)]
  BY <1>1
<1>3. hexText(body) = F
  BY DEF hexText
<1> HIDE DEF A
<1>4. F \in Seq(Unit)
  BY <1>2, Flattened DEF F
<1>5. PICK pos : Laid(F, A, L, pos)
  BY <1>2, Flattened DEF F
<1> HIDE DEF F
<1>6. PICK n \in Nat : n = Len(F)
  BY <1>4, LenProperties
<1>7. /\ pos \in [0..L -> Nat] /\ pos[0] = 0 /\ pos[L] = n
      /\ \A i \in 1..L : pos[i] = pos[i - 1] + Len(A[i]) /\ pos[i] <= n
      /\ \A i \in 1..L : \A j \in 1..Len(A[i]) : F[pos[i - 1] + j] = A[i][j]
  BY <1>5, <1>6 DEF Laid
<1>8. n <= 3 * L
  <2> DEFINE T == {i \in 0..L : pos[i] <= 3 * i}
  <2>1. 0 \in T
    BY <1>7
  <2>2. \A i \in 1..L : i - 1 \in T => i \in T
    <3> SUFFICES ASSUME NEW i \in 1..L, pos[i - 1] <= 3 * (i - 1) PROVE pos[i] <= 3 * i
      OBVIOUS
    <3>1. PICK l \in 1..3 : l = Len(A[i])
      BY <1>1
    <3>2. pos[i] = pos[i - 1] + l /\ pos[i - 1] \in Nat
      BY <1>7, <3>1
    <3> QED
      BY ONLY <3>2, l \in 1..3, i \in 1..L, L \in Nat, pos[i - 1] <= 3 * (i - 1)
  <2> HIDE DEF T
  <2>3. 0..L \subseteq T
    BY <2>1, <2>2, UpTo
  <2>4. L \in 0..L
    BY ONLY L \in Nat
  <2>5. pos[L] <= 3 * L
    BY <2>3, <2>4 DEF T
  <2> QED
    BY <1>7, <2>5
<1>9. F \in [1..n -> Int]
  <2>1. F \in [1..n -> Unit]
    BY <1>4, <1>6, LenProperties
  <2>2. Unit \subseteq Int
    BY DEF Unit
  <2> QED
    BY <2>1, <2>2
<1>10. PICK d : HexRun(d, F, n) /\ hexDecode(F) = HexDecoded(d[n])
  BY <1>6, <1>9, HexDecodes
<1>11. \A i \in 0..L : SubSeq(body, 1, i) \in Seq(Byte)
  BY SubSeqProperties
<1>12. HexAt(d, n, SubSeq(body, 1, L))
  <2> DEFINE Now(i) == HexAt(d, pos[i], SubSeq(body, 1, i))
             T == {i \in 0..L : Now(i)}
  <2>1. 0 \in T
    <3>1. d[0] = HexStart
      BY <1>10 DEF HexRun
    <3>2. SubSeq(body, 1, 0) = <<>>
      OBVIOUS
    <3>3. Now(0)
      BY <1>7, <3>1, <3>2 DEF HexStart, HexAt
    <3> QED
      BY <3>3
  <2>2. ASSUME NEW i \in 1..L, Now(i - 1)
        PROVE  Now(i)
    <3> DEFINE out == SubSeq(body, 1, i - 1)
               c == body[i]
    <3>1. PICK l \in 1..3 : l = Len(A[i])
      BY <1>1
    <3>2. PICK p \in Nat : p = pos[i - 1]
      <4>1. i - 1 \in 0..L
        BY ONLY i \in 1..L, L \in Nat
      <4> QED
        BY <1>7, <4>1
    <3>3. pos[i] = p + l /\ p + l <= n /\ l \in Nat
      BY <1>7, <3>1, <3>2
    <3>4. c \in Byte /\ A[i] = hexChars(c)
      BY <1>1
    <3>5. out \in Seq(Byte)
      BY <1>11
    <3>6. HexPut(F, p, l, c)
      BY <1>7, <3>1, <3>2, <3>4 DEF HexPut
    <3>7. SubSeq(body, 1, i) = Append(out, c)
      BY <1>11
    <3>8. HexAt(d, p, out)
      BY <2>2, <3>2
    <3>10. l = Len(hexChars(c))
      BY <3>1, <3>4
    <3>11. HexRun(d, F, n) /\ n \in Nat /\ p \in Nat /\ l \in Nat /\ p + l <= n
      BY <1>10, <3>2, <3>3
    <3> HIDE DEF out, c
    <3>9. HexAt(d, p + l, Append(out, c))
      BY ONLY <3>4, <3>5, <3>6, <3>8, <3>10, <3>11, HexOneByte
    <3> QED
      BY <3>3, <3>7, <3>9
  <2> HIDE DEF Now
  <2>3. \A i \in 1..L : i - 1 \in T => i \in T
    BY <2>2
  <2> HIDE DEF T
  <2>4. 0..L \subseteq T
    BY <2>1, <2>3, UpTo
  <2>5. L \in 0..L
    BY ONLY L \in Nat
  <2>6. Now(L)
    BY <2>4, <2>5 DEF T
  <2> QED
    BY <1>7, <2>6 DEF Now
<1>13. SubSeq(body, 1, L) = body
  OBVIOUS
<1>14. hexDecode(F) = body
  BY <1>10, <1>12, <1>13 DEF HexDecoded, HexAt
<1>15. ASSUME NEW k \in 1..L, body[k] \in 65..78
       PROVE  \E i \in 1..Len(F) : F[i] # 97
  <2>1. A[k] = <<body[k]>>
    BY <1>1, <1>15, HexChars
  <2>2. Len(A[k]) = 1 /\ A[k][1] = body[k]
    BY <2>1
  <2>3. F[pos[k - 1] + 1] = body[k] /\ pos[k - 1] + 1 <= n /\ pos[k - 1] \in Nat
    <3>1. k \in 0..L /\ k - 1 \in 0..L
      BY ONLY k \in 1..L, L \in Nat
    <3>2. 1 \in 1..Len(A[k])
      BY ONLY <2>2
    <3>3. pos[k] = pos[k - 1] + 1 /\ pos[k] <= n /\ pos[k - 1] \in Nat
      BY <1>7, <2>2, <3>1
    <3>4. F[pos[k - 1] + 1] = A[k][1]
      BY <1>7, <3>2
    <3> QED
      BY <2>2, <3>3, <3>4
  <2>4. pos[k - 1] + 1 \in 1..n
    BY ONLY <2>3, n \in Nat
  <2>5. F[pos[k - 1] + 1] # 97
    BY SMTT(30), <1>15, <2>3
  <2> QED
    BY <1>6, <2>4, <2>5
<1> QED
  BY <1>3, <1>4, <1>6, <1>8, <1>14, <1>15

\* A sequence over some bytes is one of bytes.
LEMMA Wider ==
  ASSUME NEW S, S \subseteq Byte, NEW s \in Seq(S), NEW n \in Nat, n = Len(s)
  PROVE  s \in Seq(Byte) /\ \A i \in 1..n : s[i] \in S
<1>1. \A i \in 1..n : s[i] \in S
  BY ElementOfSeq
<1> QED
  BY <1>1

Joined(f, S, s, m, t, k) ==
    /\ f \in Seq(S) /\ m + k = Len(f)
    /\ \A j \in 1..m : f[j] = s[j]
    /\ \A j \in 1..k : f[m + j] = t[j]

\* Two sequences one after the other, as Joined says it.
LEMMA Concatenated ==
  ASSUME NEW S, NEW s \in Seq(S), NEW t \in Seq(S), NEW m \in Nat, m = Len(s), NEW k \in Nat, k = Len(t),
         NEW f, f = s \o t
  PROVE  Joined(f, S, s, m, t, k)
<1>1. /\ s \o t \in Seq(S) /\ Len(s \o t) = Len(s) + Len(t)
      /\ \A j \in 1..Len(s) : (s \o t)[j] = s[j]
      /\ \A j \in 1..Len(t) : (s \o t)[Len(s) + j] = t[j]
  BY Concat
<1> QED
  BY <1>1 DEF Joined

-----------------------------------------------------------------------------
(* The payloads: what is marshalled is parsed.                             *)

\* Four bytes, low first, and the number they stand for.
Stands(a, b, c, d, v) ==
    /\ a \in Byte /\ b \in Byte /\ c \in Byte /\ d \in Byte
    /\ v = a + 256 * (b + 256 * (c + 256 * (IF d < 128 THEN d ELSE d - 256)))

\* A number as its three low bytes and what is above them.
CutIn(v, a, b, c, w) ==
    /\ v = a + 256 * (b + 256 * (c + 256 * w))
    /\ v % 256 = a /\ (v \div 256) % 256 = b
    /\ (v \div 256^2) % 256 = c /\ v \div 256^3 = w

\* Every number is cut so.
LEMMA Divided ==
  ASSUME NEW v \in Int
  PROVE  \E a, b, c \in 0..255, w \in Int : CutIn(v, a, b, c, w)
<1>1. PICK x \in Int, a \in 0..255 : x = v \div 256 /\ a = v % 256 /\ v = 256 * x + a
  BY SMT
<1>2. PICK y \in Int, b \in 0..255 : y = x \div 256 /\ b = x % 256 /\ x = 256 * y + b
  BY SMT
<1>3. PICK w \in Int, c \in 0..255 : w = y \div 256 /\ c = y % 256 /\ y = 256 * w + c
  BY SMT
<1>4. v \div 256^2 = y
  BY <1>1, <1>2, SMT
<1>5. v \div 256^3 = w
  BY ONLY <1>1, <1>2, <1>3, v \in Int, SMT
<1>6. v = a + 256 * (b + 256 * (c + 256 * w))
  BY <1>1, <1>2, <1>3
<1>7. /\ v % 256 = a /\ (v \div 256) % 256 = b
      /\ (v \div 256^2) % 256 = c /\ v \div 256^3 = w
  BY <1>1, <1>2, <1>3, <1>4, <1>5
<1>8. CutIn(v, a, b, c, w)
  BY ONLY <1>6, <1>7 DEF CutIn
<1> QED
  BY <1>8

\* writeLE32.
LEMMA Le32 ==
  ASSUME NEW v \in Int32
  PROVE  \E a, b, c, d : /\ le32(v) = <<a, b, c, d>> /\ Stands(a, b, c, d, v)
                         /\ v \in Uint16 => c = 0 /\ d = 0
<1>0. v \in Int
  BY SMT DEF Int32
<1>11. PICK a \in 0..255, b \in 0..255, c \in 0..255, w \in Int : CutIn(v, a, b, c, w)
  BY <1>0, Divided
<1>1. /\ v = a + 256 * (b + 256 * (c + 256 * w))
      /\ v % 256 = a /\ (v \div 256) % 256 = b
      /\ (v \div 256^2) % 256 = c /\ v \div 256^3 = w
  BY ONLY <1>11 DEF CutIn
<1>2. w \in (-128)..127
  <2>1. -(2^30) - 2^30 <= v /\ v <= 2^30 - 1 + 2^30
    BY SMT DEF Int32
  <2> QED
    BY ONLY <1>1, <2>1, v \in Int, SMT
<1>3. PICK d \in 0..255 : d = w % 256
  BY ONLY w \in Int, SMT
<1>4. w = IF d < 128 THEN d ELSE d - 256
  <2>1. CASE w >= 0
    <3>1. w % 256 = w /\ w < 128
      BY ONLY <1>2, <2>1, w \in Int, SMT
    <3> QED
      BY ONLY <1>3, <3>1
  <2>2. CASE w < 0
    <3>1. PICK z \in 128..255 : z = w + 256
      BY ONLY <1>2, <2>2, w \in Int, SMT
    <3>2. w % 256 = z
      BY ONLY <3>1, w \in Int, z \in 128..255, SMT
    <3>3. ~(z < 128) /\ w = z - 256
      BY ONLY <3>1, w \in Int, z \in 128..255, SMT
    <3> QED
      BY ONLY <1>3, <3>2, <3>3
  <2> QED
    BY ONLY <2>1, <2>2, w \in Int
<1>5. le32(v) = <<a, b, c, d>>
  <2> DEFINE f == le32(v)
  <2>1. f = [k \in 1..4 |-> (v \div 256^(k - 1)) % 256]
    BY DEF le32
  <2>3. f[1] = v % 256 /\ f[2] = (v \div 256) % 256
        /\ f[3] = (v \div 256^2) % 256 /\ f[4] = (v \div 256^3) % 256
    BY <1>0, <2>1, SMT
  <2>4. f[1] = a /\ f[2] = b /\ f[3] = c /\ f[4] = d
    BY <1>1, <1>3, <2>3
  <2>5. DOMAIN f = 1..4 /\ f = [k \in 1..4 |-> f[k]]
    BY <2>1
  <2> HIDE DEF f
  <2>6. f = <<a, b, c, d>>
    <3>1. \A k \in 1..4 : k = 1 \/ k = 2 \/ k = 3 \/ k = 4
      OBVIOUS
    <3>2. \A k \in 1..4 : f[k] = <<a, b, c, d>>[k]
      BY <2>4, <3>1
    <3> QED
      BY <2>5, <3>2
  <2> QED
    BY <2>6 DEF f
<1>6. ASSUME v \in Uint16 PROVE c = 0 /\ w = 0
  <2>1. v >= 0 /\ v < 2^16
    BY ONLY <1>6, SMT DEF Uint16
  <2> QED
    BY ONLY <1>1, <2>1, v \in Int, SMT
<1>7. Stands(a, b, c, d, v)
  BY <1>1, <1>3, <1>4 DEF Stands, Byte
<1>8. w = 0 => d = 0
  BY <1>3
<1>9. v \in Uint16 => c = 0 /\ d = 0
  BY <1>6, <1>8
<1> WITNESS a, b, c, d
<1> QED
  BY ONLY <1>5, <1>7, <1>9

\* readLE32.
LEMMA Int32Reads ==
  ASSUME NEW p, NEW off \in Nat, NEW a, NEW b, NEW c, NEW d, NEW v, Stands(a, b, c, d, v),
         a = p[off], b = p[off + 1], c = p[off + 2], d = p[off + 3]
  PROVE  int32(p, off) = v
<1>1. int32(p, off) = a + 256 * b + 256^2 * c + 256^3 * (IF d < 128 THEN d ELSE d - 256)
  BY DEF int32
<1>2. PICK w \in Int : w = IF d < 128 THEN d ELSE d - 256
  BY DEF Stands, Byte
<1>3. a \in 0..255 /\ b \in 0..255 /\ c \in 0..255 /\ v = a + 256 * (b + 256 * (c + 256 * w))
  BY <1>2 DEF Stands, Byte
<1>4. int32(p, off) = a + 256 * b + 256^2 * c + 256^3 * w
  BY <1>1, <1>2
<1>5. a + 256 * b + 256^2 * c + 256^3 * w = v
  BY ONLY <1>3, w \in Int, SMT
<1> QED
  BY <1>4, <1>5

\* typeByte, and what readPacket makes of it.
LEMMA TypeRead ==
  ASSUME NEW i \in DOMAIN types
  PROVE  /\ typeByte(types[i]) \in 65..78 /\ typeByte(types[i]) - 64 \in DOMAIN types
         /\ types[typeByte(types[i]) - 64] = types[i]
<1> DEFINE j == CHOOSE j \in DOMAIN types : types[j] = types[i]
<1>1. j \in DOMAIN types /\ types[j] = types[i]
  OBVIOUS
<1>2. typeByte(types[i]) = 64 + j
  BY DEF typeByte
<1>3. DOMAIN types = 1..14
  BY DEF types
<1> HIDE DEF j
<1>4. j \in 1..14 /\ 64 + j \in 65..78 /\ (64 + j) - 64 = j
  BY <1>1, <1>3
<1> QED
  BY <1>1, <1>2, <1>4

Halved(f, s, m, t, k) == SubSeq(f, 1, m) = s /\ SubSeq(f, m + 1, m + k) = t

\* Either part of two sequences put together.
LEMMA Halves ==
  ASSUME NEW S, NEW s \in Seq(S), NEW t \in Seq(S), NEW m \in Nat, m = Len(s), NEW k \in Nat, k = Len(t),
         NEW f, Joined(f, S, s, m, t, k)
  PROVE  Halved(f, s, m, t, k)
<1>1. /\ f \in Seq(S) /\ m + k = Len(f)
      /\ \A j \in 1..m : f[j] = s[j]
      /\ \A j \in 1..k : f[m + j] = t[j]
  BY DEF Joined
<1>2. SubSeq(f, 1, m) = [j \in 1..m |-> f[j]]
  BY <1>1
<1>3. s = [j \in 1..m |-> s[j]] /\ t = [j \in 1..k |-> t[j]]
  OBVIOUS
<1>4. SubSeq(f, m + 1, m + k) = [j \in 1..k |-> f[m + j]]
  <2>1. SubSeq(f, m + 1, m + k) = [j \in 1..((m + k) - (m + 1) + 1) |-> f[j + (m + 1) - 1]]
    OBVIOUS
  <2>2. (m + k) - (m + 1) + 1 = k /\ \A j \in 1..k : j + (m + 1) - 1 = m + j
    BY ONLY m \in Nat, k \in Nat
  <2> QED
    BY <2>1, <2>2
<1> QED
  BY <1>1, <1>2, <1>3, <1>4 DEF Halved

\* The four bytes of a number at the head of what is read.
Headed(p, v) == \E a, b, c, d : Stands(a, b, c, d, v) /\ a = p[1] /\ b = p[2] /\ c = p[3] /\ d = p[4]

\* writeLE32 makes four bytes that stand for the number.
LEMMA Quad ==
  ASSUME NEW v \in Int32
  PROVE  le32(v) \in Seq(Byte) /\ 4 = Len(le32(v)) /\ Headed(le32(v), v)
<1>1. PICK a, b, c, d : le32(v) = <<a, b, c, d>> /\ Stands(a, b, c, d, v)
  BY Le32
<1>2. a \in Byte /\ b \in Byte /\ c \in Byte /\ d \in Byte
  BY <1>1 DEF Stands
<1> DEFINE q == <<a, b, c, d>>
<1>3. q \in Seq(Byte) /\ 4 = Len(q) /\ a = q[1] /\ b = q[2] /\ c = q[3] /\ d = q[4]
  BY <1>2
<1> HIDE DEF q
<1>4. Headed(q, v)
  BY <1>1, <1>3 DEF Headed
<1> QED
  BY <1>1, <1>3, <1>4 DEF q

Leads(f, v, t, k) ==
    /\ Joined(f, Byte, le32(v), 4, t, k) /\ int32(f, 1) = v
    /\ f \in Seq(Byte) /\ 4 + k = Len(f) /\ SubSeq(f, 5, 4 + k) = t

\* A number put before something else reads back.
LEMMA QuadThen ==
  ASSUME NEW v \in Int32, NEW t \in Seq(Byte), NEW k \in Nat, k = Len(t),
         NEW f, f = le32(v) \o t
  PROVE  Leads(f, v, t, k)
<1> DEFINE q == le32(v)
           four == 4
<1>1. q \in Seq(Byte) /\ four = Len(q) /\ Headed(q, v) /\ four \in Nat
  BY Quad
<1>2. f = q \o t
  OBVIOUS
<1> HIDE DEF q
<1>3. Joined(f, Byte, q, four, t, k)
  <2> HIDE DEF four
  <2> QED
    BY <1>1, <1>2, Concatenated
<1>4. \A j \in 1..4 : f[j] = q[j]
  BY <1>3 DEF Joined
<1>5. f[1] = q[1] /\ f[2] = q[2] /\ f[3] = q[3] /\ f[4] = q[4]
  <2>1. 1 \in 1..4 /\ 2 \in 1..4 /\ 3 \in 1..4 /\ 4 \in 1..4
    OBVIOUS
  <2> QED
    BY ONLY <1>4, <2>1
<1>6. int32(f, 1) = v
  <2>1. PICK a, b, c, d : Stands(a, b, c, d, v) /\ a = q[1] /\ b = q[2] /\ c = q[3] /\ d = q[4]
    BY <1>1 DEF Headed
  <2>2. a = f[1] /\ b = f[1 + 1] /\ c = f[1 + 2] /\ d = f[1 + 3]
    <3>1. 1 + 1 = 2 /\ 1 + 2 = 3 /\ 1 + 3 = 4
      OBVIOUS
    <3> QED
      BY ONLY <1>5, <2>1, <3>1
  <2>3. 1 \in Nat
    OBVIOUS
  <2> QED
    BY ONLY <2>1, <2>2, <2>3, Int32Reads
<1>7. SubSeq(f, 5, 4 + k) = t
  <2>1. Halved(f, q, four, t, k)
    <3> HIDE DEF four
    <3> QED
      BY <1>1, <1>3, Halves
  <2>2. four + 1 = 5 /\ four + k = 4 + k
    OBVIOUS
  <2> HIDE DEF four
  <2>3. SubSeq(f, four + 1, four + k) = t
    BY <2>1 DEF Halved
  <2> QED
    BY ONLY <2>2, <2>3
<1>8. f \in Seq(Byte) /\ 4 + k = Len(f)
  BY <1>3 DEF Joined
<1> QED
  BY <1>3, <1>6, <1>7, <1>8 DEF q, Leads

\* A payload and what parse makes of it.
Reads(m, p) == p \in Seq(Byte) /\ parse(m.typ, p) = {m} /\ \E i \in DOMAIN types : m.typ = types[i]

\* marshal and parse, of a packet without a payload.
LEMMA EmptyReads ==
  ASSUME NEW m \in [typ : supervisory \cup {"EOFACK"}]
  PROVE  marshal(m) = <<>> /\ Reads(m, marshal(m))
<1>1. m = [typ |-> m.typ] /\ m.typ \in {"START", "INIT", "INITACK", "END", "IDLE", "EOFACK"}
  BY DEF supervisory
<1>2. marshal(m) = <<>>
  BY <1>1 DEF marshal
<1>3. parse(m.typ, <<>>) = {m}
  BY <1>1 DEF parse
<1>4. \E i \in DOMAIN types : m.typ = types[i]
  <2>1. DOMAIN types = 1..14 /\ types[1] = "START" /\ types[2] = "INIT" /\ types[3] = "INITACK"
        /\ types[11] = "END" /\ types[12] = "IDLE" /\ types[10] = "EOFACK"
    BY DEF types
  <2> QED
    BY <1>1, <2>1
<1>5. <<>> \in Seq(Byte)
  OBVIOUS
<1> QED
  BY <1>2, <1>3, <1>4, <1>5 DEF Reads

\* marshal and parse, of a packet with an offset.
LEMMA OffsetReads ==
  ASSUME NEW m \in [typ : {"FINFOACK", "DATAACK", "EOF"}, offset : Int32]
  PROVE  Reads(m, marshal(m))
<1>1. /\ m = [typ |-> m.typ, offset |-> m.offset] /\ m.offset \in Int32
      /\ m.typ \in {"FINFOACK", "DATAACK", "EOF"}
  OBVIOUS
<1> DEFINE p == le32(m.offset)
<1>2. marshal(m) = p
  BY <1>1 DEF marshal, marshalOffset
<1>3. p \in Seq(Byte) /\ 4 = Len(p) /\ Headed(p, m.offset)
  BY <1>1, Quad
<1>4. int32(p, 1) = m.offset
  <2> HIDE DEF p
  <2>1. PICK a, b, c, d : Stands(a, b, c, d, m.offset) /\ a = p[1] /\ b = p[2] /\ c = p[3] /\ d = p[4]
    BY <1>3 DEF Headed
  <2>2. a = p[1] /\ b = p[1 + 1] /\ c = p[1 + 2] /\ d = p[1 + 3]
    <3>1. 1 + 1 = 2 /\ 1 + 2 = 3 /\ 1 + 3 = 4
      OBVIOUS
    <3> QED
      BY ONLY <2>1, <3>1
  <2>3. 1 \in Nat
    OBVIOUS
  <2> QED
    BY ONLY <2>1, <2>2, <2>3, Int32Reads
<1> HIDE DEF p
<1>5. parse(m.typ, p) = {m}
  <2>1. parse(m.typ, p) = parseOffset(m.typ, p)
    BY <1>1 DEF parse
  <2>3. ~(Len(p) < 4)
    <3>1. \A l : l = 4 => ~(l < 4)
      OBVIOUS
    <3> QED
      BY ONLY <1>3, <3>1, Zenon
  <2>2. parseOffset(m.typ, p) = {[typ |-> m.typ, offset |-> m.offset]}
    BY <1>4, <2>3 DEF parseOffset
  <2> QED
    BY <1>1, <2>1, <2>2
<1>6. \E i \in DOMAIN types : m.typ = types[i]
  <2>1. DOMAIN types = 1..14 /\ types[5] = "FINFOACK" /\ types[7] = "DATAACK" /\ types[9] = "EOF"
    BY DEF types
  <2> QED
    BY <1>1, <2>1
<1> QED
  BY <1>2, <1>3, <1>5, <1>6 DEF Reads

\* marshal and parse, of the acknowledgement of a datagram.
LEMMA AckReads ==
  ASSUME NEW m \in [typ : {"DEVDACK"}, id : Int32]
  PROVE  Reads(m, marshal(m))
<1>1. m = [typ |-> "DEVDACK", id |-> m.id] /\ m.id \in Int32 /\ m.typ = "DEVDACK"
  OBVIOUS
<1> DEFINE p == le32(m.id)
<1>2. marshal(m) = p
  BY <1>1 DEF marshal, marshalDevAck
<1>3. p \in Seq(Byte) /\ 4 = Len(p) /\ Headed(p, m.id)
  BY <1>1, Quad
<1>4. int32(p, 1) = m.id
  <2> HIDE DEF p
  <2>1. PICK a, b, c, d : Stands(a, b, c, d, m.id) /\ a = p[1] /\ b = p[2] /\ c = p[3] /\ d = p[4]
    BY <1>3 DEF Headed
  <2>2. a = p[1] /\ b = p[1 + 1] /\ c = p[1 + 2] /\ d = p[1 + 3]
    <3>1. 1 + 1 = 2 /\ 1 + 2 = 3 /\ 1 + 3 = 4
      OBVIOUS
    <3> QED
      BY ONLY <2>1, <3>1
  <2>3. 1 \in Nat
    OBVIOUS
  <2> QED
    BY ONLY SMTT(30), <2>1, <2>2, <2>3, Int32Reads
<1> HIDE DEF p
<1>5. parse(m.typ, p) = {m}
  <2>1. parse(m.typ, p) = parseDevAck(p)
    BY <1>1 DEF parse
  <2>2. parseDevAck(p) = {[typ |-> "DEVDACK", id |-> m.id]}
    BY <1>3, <1>4 DEF parseDevAck
  <2> QED
    BY <1>1, <2>1, <2>2
<1>6. \E i \in DOMAIN types : m.typ = types[i]
  <2>1. DOMAIN types = 1..14 /\ types[14] = "DEVDACK"
    BY DEF types
  <2> QED
    BY <1>1, <2>1
<1> QED
  BY <1>2, <1>3, <1>5, <1>6 DEF Reads

\* marshal and parse, of a block of data.
LEMMA DataReads ==
  ASSUME NEW m \in [typ : {"DATA"}, offset : Int32, data : Seq(Byte)]
  PROVE  Reads(m, marshal(m))
<1>1. /\ m = [typ |-> "DATA", offset |-> m.offset, data |-> m.data] /\ m.offset \in Int32
      /\ m.typ = "DATA" /\ m.data \in Seq(Byte)
  OBVIOUS
<1> DEFINE p == le32(m.offset) \o m.data
<1>2. marshal(m) = p
  BY <1>1 DEF marshal, marshalData
<1>3. PICK k \in Nat : k = Len(m.data)
  BY <1>1, LenProperties
<1>4. p \in Seq(Byte) /\ int32(p, 1) = m.offset /\ 4 + k = Len(p) /\ SubSeq(p, 5, 4 + k) = m.data
  <2>1. p = le32(m.offset) \o m.data
    OBVIOUS
  <2> HIDE DEF p
  <2>2. Leads(p, m.offset, m.data, k)
    BY <1>1, <1>3, <2>1, QuadThen
  <2> QED
    BY <2>2 DEF Leads
<1> HIDE DEF p
<1>5. parse(m.typ, p) = {m}
  <2>1. parse(m.typ, p) = parseData(p)
    BY <1>1 DEF parse
  <2>2. PICK l \in Nat : l = Len(p)
    BY <1>4
  <2>3. 4 <= l /\ l = 4 + k
    BY <1>4, <2>2
  <2>4. parseData(p) = {[typ |-> "DATA", offset |-> int32(p, 1), data |-> SubSeq(p, 5, l)]}
    BY <2>2, <2>3 DEF parseData
  <2> QED
    BY <1>1, <1>4, <2>1, <2>3, <2>4
<1>6. \E i \in DOMAIN types : m.typ = types[i]
  <2>1. DOMAIN types = 1..14 /\ types[6] = "DATA"
    BY DEF types
  <2> QED
    BY <1>1, <2>1
<1> QED
  BY <1>2, <1>4, <1>5, <1>6 DEF Reads

\* A number that stands somewhere in what is read.
LEMMA QuadAt ==
  ASSUME NEW v \in Int32, NEW p, NEW off \in Nat,
         \A j \in 1..4 : p[off + j] = le32(v)[j]
  PROVE  int32(p, off + 1) = v
<1> DEFINE q == le32(v)
<1>1. Headed(q, v)
  BY Quad
<1>2. \A j \in 1..4 : p[off + j] = q[j]
  OBVIOUS
<1> HIDE DEF q
<1>3. p[off + 1] = q[1] /\ p[off + 2] = q[2] /\ p[off + 3] = q[3] /\ p[off + 4] = q[4]
  <2>1. 1 \in 1..4 /\ 2 \in 1..4 /\ 3 \in 1..4 /\ 4 \in 1..4
    OBVIOUS
  <2> QED
    BY ONLY <1>2, <2>1
<1>4. PICK a, b, c, d : Stands(a, b, c, d, v) /\ a = q[1] /\ b = q[2] /\ c = q[3] /\ d = q[4]
  BY <1>1 DEF Headed
<1>5. PICK x \in Nat : x = off + 1
  OBVIOUS
<1>6. x + 1 = off + 2 /\ x + 2 = off + 3 /\ x + 3 = off + 4
  BY <1>5
<1>7. a = p[x] /\ b = p[x + 1] /\ c = p[x + 2] /\ d = p[x + 3]
  BY ONLY <1>3, <1>4, <1>5, <1>6
<1>8. int32(p, x) = v
  BY ONLY <1>4, <1>7, x \in Nat, Int32Reads
<1> QED
  BY ONLY <1>5, <1>8

\* A block size is in the range of readLE32.
LEMMA SmallNumber == \A x \in Uint16 : x \in Int32
<1> TAKE x \in Uint16
<1>1. x \in Int /\ 0 <= x /\ x <= 2^16 - 1
  BY SMT DEF Uint16
<1>2. -(2^30) - 2^30 <= x /\ x <= 2^30 - 1 + 2^30
  BY <1>1, SMT
<1> QED
  BY <1>1, <1>2, SMT DEF Int32

\* Both forms of RPOS.
LEMMA RposReads ==
  ASSUME NEW m \in [typ : {"RPOS"}, offset : Int32, blocksize : Uint16, id : Int32]
  PROVE  /\ Reads(m, marshal(m)) /\ Reads(m, marshalWord(m))
         /\ 12 = Len(marshal(m)) /\ 10 = Len(marshalWord(m))
<1>1. /\ m = [typ |-> "RPOS", offset |-> m.offset, blocksize |-> m.blocksize, id |-> m.id]
      /\ m.offset \in Int32 /\ m.blocksize \in Uint16 /\ m.id \in Int32 /\ m.typ = "RPOS"
  OBVIOUS
<1>2. m.blocksize \in Int32
  BY ONLY <1>1, SmallNumber
<1> DEFINE A == le32(m.offset)
           B == le32(m.blocksize)
           C == le32(m.id)
           W == SubSeq(B, 1, 2)
<1>3. /\ A \in Seq(Byte) /\ 4 = Len(A) /\ B \in Seq(Byte) /\ 4 = Len(B)
      /\ C \in Seq(Byte) /\ 4 = Len(C)
  BY <1>1, <1>2, Quad
<1>4. marshal(m) = (A \o B) \o C /\ marshalWord(m) = (A \o W) \o C
  BY <1>1 DEF marshal, marshalRpos, marshalWord
<1>5. \E i \in DOMAIN types : m.typ = types[i]
  <2>1. DOMAIN types = 1..14 /\ types[8] = "RPOS"
    BY DEF types
  <2> QED
    BY <1>1, <2>1
<1>6. PICK a, b, c, d : B = <<a, b, c, d>> /\ Stands(a, b, c, d, m.blocksize)
                        /\ (m.blocksize \in Uint16 => c = 0 /\ d = 0)
  BY <1>2, Le32
<1>7. /\ a \in Byte /\ b \in Byte /\ m.blocksize = a + 256 * b
  BY <1>1, <1>6 DEF Stands, Byte
<1>8. W = <<a, b>>
  <2>1. W = SubSeq(<<a, b, c, d>>, 1, 2)
    BY <1>6
  <2> DEFINE q == <<a, b, c, d>>
             w == SubSeq(q, 1, 2)
  <2>2. w = [j \in 1..2 |-> q[j]]
    BY ONLY TRUE
  <2>3. w[1] = a /\ w[2] = b /\ DOMAIN w = 1..2
    BY ONLY <2>2
  <2>4. w = [j \in 1..2 |-> w[j]]
    BY ONLY <2>2
  <2> HIDE DEF w
  <2>5. w = <<a, b>>
    <3>1. \A j \in 1..2 : j = 1 \/ j = 2
      BY ONLY TRUE
    <3>2. \A j \in 1..2 : w[j] = <<a, b>>[j]
      BY ONLY <2>3, <3>1
    <3> QED
      BY ONLY <2>4, <3>2
  <2> QED
    BY ONLY <2>1, <2>5 DEF w
<1>9. W \in Seq(Byte) /\ 2 = Len(W) /\ W[1] = a /\ W[2] = b
  <2>1. <<a, b>> \in Seq(Byte) /\ 2 = Len(<<a, b>>) /\ <<a, b>>[1] = a /\ <<a, b>>[2] = b
    BY ONLY <1>7
  <2> QED
    BY ONLY <1>8, <2>1
<1> DEFINE two == 2  four == 4  six == 6  eight == 8
<1>10. two \in Nat /\ four \in Nat /\ six \in Nat /\ eight \in Nat /\ four + two = six /\ four + four = eight
       /\ six + four = 10 /\ eight + four = 12
  OBVIOUS
<1>11. four = Len(A) /\ four = Len(B) /\ four = Len(C) /\ two = Len(W)
  BY <1>3, <1>9
<1>12. parse(m.typ, marshal(m)) = {m} /\ marshal(m) \in Seq(Byte) /\ 12 = Len(marshal(m))
  <2> DEFINE g == A \o B
             p == g \o C
  <2>0. p = marshal(m) /\ g = A \o B /\ p = g \o C
    BY <1>4
  <2> HIDE DEF A, B, C, W, two, four, six, eight, g, p
  <2>1. Joined(g, Byte, A, four, B, four)
    BY ONLY <1>3, <1>10, <1>11, <2>0, Concatenated
  <2>2. g \in Seq(Byte) /\ eight = Len(g)
    BY ONLY <1>10, <2>1 DEF Joined
  <2>3. Joined(p, Byte, g, eight, C, four)
    BY ONLY <1>3, <1>10, <1>11, <2>0, <2>2, Concatenated
  <2>4. /\ \A j \in 1..4 : g[j] = A[j] /\ g[4 + j] = B[j]
        /\ \A j \in 1..8 : p[j] = g[j]
        /\ \A j \in 1..4 : p[8 + j] = C[j]
        /\ p \in Seq(Byte) /\ 12 = Len(p)
    BY <2>1, <2>3 DEF Joined, four, eight
  <2>5. int32(p, 0 + 1) = m.offset
    <3>1. \A j \in 1..4 : p[0 + j] = A[j]
      <4> TAKE j \in 1..4
      <4>1. j \in 1..8 /\ 0 + j = j
        OBVIOUS
      <4> QED
        BY ONLY <2>4, <4>1, j \in 1..4
    <3>2. 0 \in Nat
      OBVIOUS
    <3> QED
      BY ONLY <1>1, <3>1, <3>2, QuadAt DEF A
  <2>6. int32(p, 4 + 1) = m.blocksize
    <3>1. \A j \in 1..4 : p[4 + j] = B[j]
      <4> TAKE j \in 1..4
      <4>1. 4 + j \in 1..8
        OBVIOUS
      <4> QED
        BY ONLY <2>4, <4>1, j \in 1..4
    <3>2. 4 \in Nat
      OBVIOUS
    <3> QED
      BY ONLY <1>2, <3>1, <3>2, QuadAt DEF B
  <2>7. int32(p, 8 + 1) = m.id
    <3>1. \A j \in 1..4 : p[8 + j] = C[j]
      BY ONLY <2>4
    <3>2. 8 \in Nat
      OBVIOUS
    <3> QED
      BY ONLY <1>1, <3>1, <3>2, QuadAt DEF C
  <2>8. int32(p, 1) = m.offset /\ int32(p, 5) = m.blocksize /\ int32(p, 9) = m.id
    <3>1. 0 + 1 = 1 /\ 4 + 1 = 5 /\ 8 + 1 = 9
      OBVIOUS
    <3> QED
      BY ONLY <2>5, <2>6, <2>7, <3>1
  <2>9. parse(m.typ, p) = parseRpos(p)
    BY <1>1 DEF parse
  <2>10. parseRpos(p) = {[typ |-> "RPOS", offset |-> int32(p, 1), blocksize |-> int32(p, 5), id |-> int32(p, 9)]}
    <3>1. Len(p) = 12 /\ Len(p) # 10
      <4>1. \A l : l = 12 => l # 10
        OBVIOUS
      <4> QED
        BY ONLY <2>4, <4>1, Zenon
    <3> QED
      BY ONLY <3>1 DEF parseRpos
  <2> QED
    BY <1>1, <2>0, <2>4, <2>8, <2>9, <2>10
<1>13. parse(m.typ, marshalWord(m)) = {m} /\ marshalWord(m) \in Seq(Byte) /\ 10 = Len(marshalWord(m))
  <2> DEFINE g == A \o W
             p == g \o C
  <2>0. p = marshalWord(m) /\ g = A \o W /\ p = g \o C
    BY <1>4
  <2> HIDE DEF A, B, C, W, two, four, six, eight, g, p
  <2>1. Joined(g, Byte, A, four, W, two)
    BY ONLY <1>3, <1>9, <1>10, <1>11, <2>0, Concatenated
  <2>2. g \in Seq(Byte) /\ six = Len(g)
    BY ONLY <1>10, <2>1 DEF Joined
  <2>3. Joined(p, Byte, g, six, C, four)
    BY ONLY <1>3, <1>10, <1>11, <2>0, <2>2, Concatenated
  <2>4. /\ \A j \in 1..4 : g[j] = A[j]
        /\ \A j \in 1..2 : g[4 + j] = W[j]
        /\ \A j \in 1..6 : p[j] = g[j]
        /\ \A j \in 1..4 : p[6 + j] = C[j]
        /\ p \in Seq(Byte) /\ 10 = Len(p)
    BY <2>1, <2>3 DEF Joined, two, four, six
  <2>5. int32(p, 0 + 1) = m.offset
    <3>1. \A j \in 1..4 : p[0 + j] = A[j]
      <4> TAKE j \in 1..4
      <4>1. j \in 1..6 /\ 0 + j = j
        OBVIOUS
      <4> QED
        BY ONLY <2>4, <4>1, j \in 1..4
    <3>2. 0 \in Nat
      OBVIOUS
    <3> QED
      BY ONLY <1>1, <3>1, <3>2, QuadAt DEF A
  <2>6. p[5] = a /\ p[6] = b
    <3>1. 1 \in 1..2 /\ 2 \in 1..2 /\ 4 + 1 = 5 /\ 4 + 2 = 6 /\ 5 \in 1..6 /\ 6 \in 1..6
      OBVIOUS
    <3>2. g[4 + 1] = W[1] /\ g[4 + 2] = W[2] /\ p[5] = g[5] /\ p[6] = g[6]
      BY ONLY <2>4, <3>1
    <3> QED
      BY ONLY <1>9, <3>1, <3>2
  <2>7. int32(p, 6 + 1) = m.id
    <3>1. \A j \in 1..4 : p[6 + j] = C[j]
      BY ONLY <2>4
    <3>2. 6 \in Nat
      OBVIOUS
    <3> QED
      BY ONLY <1>1, <3>1, <3>2, QuadAt DEF C
  <2>8. int32(p, 1) = m.offset /\ p[5] + 256 * p[6] = m.blocksize /\ int32(p, 7) = m.id
    <3>1. 0 + 1 = 1 /\ 6 + 1 = 7
      OBVIOUS
    <3> QED
      BY ONLY <1>7, <2>5, <2>6, <2>7, <3>1
  <2>9. parse(m.typ, p) = parseRpos(p)
    BY <1>1 DEF parse
  <2>10. parseRpos(p) = {[typ |-> "RPOS", offset |-> int32(p, 1), blocksize |-> p[5] + 256 * p[6], id |-> int32(p, 7)]}
    <3>1. Len(p) = 10 /\ Len(p) # 12
      <4>1. \A l : l = 10 => l # 12
        OBVIOUS
      <4> QED
        BY ONLY <2>4, <4>1, Zenon
    <3> QED
      BY ONLY <3>1 DEF parseRpos
  <2> QED
    BY <1>1, <2>0, <2>4, <2>8, <2>9, <2>10
<1> HIDE DEF A, B, C, W
<1> QED
  BY <1>5, <1>12, <1>13 DEF Reads

\* The device's name ends at the first NUL, as it has none itself.
LEMMA DeviceReads ==
  ASSUME NEW m \in [typ : {"DEVDATA"}, id : Int32, device : Seq(1..255), data : Seq(Byte)]
  PROVE  Reads(m, marshal(m))
<1>1. /\ m = [typ |-> "DEVDATA", id |-> m.id, device |-> m.device, data |-> m.data]
      /\ m.id \in Int32 /\ m.device \in Seq(1..255) /\ m.data \in Seq(Byte) /\ m.typ = "DEVDATA"
  OBVIOUS
<1> DEFINE A == le32(m.id)
           dev == m.device
           N == <<0>>
           D == m.data
           four == 4  one == 1
<1>2. PICK k \in Nat : k = Len(dev)
  BY <1>1, LenProperties
<1>3. PICK l \in Nat : l = Len(D)
  BY <1>1, LenProperties
<1>4. dev \in Seq(Byte) /\ \A j \in 1..k : dev[j] \in 1..255
  <2>1. 1..255 \subseteq Byte
    BY DEF Byte
  <2>2. dev \in Seq(1..255)
    BY <1>1
  <2> HIDE DEF dev
  <2> DEFINE S == 1..255
  <2>3. S \subseteq Byte /\ dev \in Seq(S)
    BY <2>1, <2>2
  <2> HIDE DEF S
  <2>4. dev \in Seq(Byte) /\ \A j \in 1..k : dev[j] \in S
    BY ONLY <1>2, <2>3, k \in Nat, Wider
  <2> QED
    BY <2>4 DEF S
<1>5. A \in Seq(Byte) /\ four = Len(A) /\ four \in Nat
  BY <1>1, Quad
<1>6. N \in Seq(Byte) /\ one = Len(N) /\ one \in Nat /\ N[1] = 0
  BY DEF Byte
<1>7. D \in Seq(Byte)
  BY <1>1
<1> DEFINE f == A \o dev
           g == f \o N
           p == g \o D
<1>8. f = A \o dev /\ g = f \o N /\ p = g \o D
  OBVIOUS
<1>9. marshal(m) = p
  BY <1>1 DEF marshal, marshalDevData
<1>10. PICK x \in Nat : x = four + k
  OBVIOUS
<1>11. PICK y \in Nat : y = x + one
  OBVIOUS
<1>12. x = 4 + k /\ y = 5 + k
  BY <1>10, <1>11
<1> HIDE DEF A, dev, N, D, four, one, f, g, p
<1>13. Joined(f, Byte, A, four, dev, k)
  BY ONLY <1>2, <1>4, <1>5, <1>8, k \in Nat, Concatenated
<1>14. f \in Seq(Byte) /\ x = Len(f)
  BY ONLY <1>10, <1>13 DEF Joined
<1>15. Joined(g, Byte, f, x, N, one)
  BY ONLY <1>6, <1>8, <1>14, x \in Nat, Concatenated
<1>16. g \in Seq(Byte) /\ y = Len(g)
  BY ONLY <1>11, <1>15 DEF Joined
<1>17. Joined(p, Byte, g, y, D, l)
  BY ONLY <1>3, <1>7, <1>8, <1>16, y \in Nat, l \in Nat, Concatenated
<1>18. PICK len \in Nat : len = y + l
  OBVIOUS
<1>19. /\ \A j \in 1..4 : f[j] = A[j]
       /\ \A j \in 1..k : f[4 + j] = dev[j]
       /\ \A j \in 1..x : g[j] = f[j]
       /\ g[x + 1] = 0
       /\ \A j \in 1..y : p[j] = g[j]
       /\ p \in Seq(Byte) /\ len = Len(p)
  <2>1. (\A j \in 1..4 : f[j] = A[j]) /\ (\A j \in 1..k : f[4 + j] = dev[j])
    BY ONLY <1>13 DEF Joined, four
  <2>2. (\A j \in 1..x : g[j] = f[j]) /\ (\A j \in 1..1 : g[x + j] = N[j])
    BY ONLY <1>15 DEF Joined, one
  <2>3. 1 \in 1..1
    BY ONLY TRUE
  <2>4. g[x + 1] = 0
    BY ONLY <1>6, <2>2, <2>3
  <2>5. (\A j \in 1..y : p[j] = g[j]) /\ p \in Seq(Byte) /\ len = Len(p)
    BY ONLY <1>17, <1>18 DEF Joined
  <2> QED
    BY ONLY <2>1, <2>2, <2>4, <2>5
<1>20. int32(p, 1) = m.id
  <2>1. \A j \in 1..4 : p[0 + j] = A[j]
    <3> TAKE j \in 1..4
    <3>1. j \in 1..x /\ j \in 1..y /\ 0 + j = j
      BY ONLY j \in 1..4, <1>12, k \in Nat
    <3> QED
      BY ONLY <1>19, <3>1, j \in 1..4
  <2>2. 0 \in Nat /\ 0 + 1 = 1
    BY ONLY TRUE
  <2>5. PICK v \in Int32, off \in Nat : v = m.id /\ off = 0
    BY ONLY <1>1, <2>2
  <2>6. A = le32(v)
    BY ONLY <2>5 DEF A
  <2>3. \A j \in 1..4 : p[off + j] = le32(v)[j]
    BY ONLY <2>1, <2>5, <2>6
  <2>7. int32(p, off + 1) = v
    BY ONLY <2>3, v \in Int32, off \in Nat, QuadAt
  <2>4. int32(p, 0 + 1) = m.id
    BY ONLY <2>5, <2>7
  <2> QED
    BY ONLY <2>2, <2>4
<1> DEFINE nuls == {i \in 5..len : p[i] = 0}
<1>21. y \in nuls
  <2>1. y \in 5..len /\ y = x + 1 /\ y \in 1..y
    BY ONLY <1>12, <1>18, k \in Nat, l \in Nat, x \in Nat, y \in Nat
  <2>2. p[y] = 0
    BY ONLY <1>19, <2>1
  <2> QED
    BY <2>1, <2>2
<1>22. ASSUME NEW i \in nuls
       PROVE  y <= i
  <2> SUFFICES ASSUME ~(y <= i) PROVE FALSE
    OBVIOUS
  <2>1. i \in 5..len /\ p[i] = 0
    OBVIOUS
  <2>2. PICK j \in 1..k : i = 4 + j
    <3>1. i - 4 \in 1..k /\ i = 4 + (i - 4)
      BY ONLY <1>12, <2>1, ~(y <= i), k \in Nat, len \in Nat
    <3> QED
      BY ONLY <3>1
  <2>3. i \in 1..x /\ i \in 1..y
    BY ONLY <1>12, <2>2, k \in Nat, j \in 1..k
  <2>4. p[i] = dev[j]
    BY ONLY <1>19, <2>2, <2>3, j \in 1..k
  <2>5. dev[j] # 0
    <3>1. \A v \in 1..255 : v # 0
      BY ONLY TRUE
    <3>2. dev[j] \in 1..255
      BY ONLY <1>4, j \in 1..k
    <3> QED
      BY ONLY <3>1, <3>2
  <2> QED
    BY ONLY <2>1, <2>4, <2>5
<1>23. nuls \subseteq Int
  OBVIOUS
<1> HIDE DEF nuls
<1>24. Min(nuls) = y
  <2>1. \E v \in nuls : \A i \in nuls : v <= i
    BY <1>21, <1>22
  <2>2. Min(nuls) \in nuls /\ \A i \in nuls : Min(nuls) <= i
    BY ONLY <2>1 DEF Min
  <2>3. Min(nuls) <= y /\ y <= Min(nuls) /\ Min(nuls) \in Int
    BY <1>21, <1>22, <1>23, <2>2
  <2> QED
    BY ONLY <2>3, y \in Nat
<1>25. SubSeq(p, 5, y - 1) = dev
  <2>1. Halved(f, A, four, dev, k)
    BY ONLY <1>2, <1>4, <1>5, <1>13, k \in Nat, Halves
  <2>2. SubSeq(f, 5, x) = dev
    <3>1. SubSeq(f, four + 1, four + k) = dev
      BY ONLY <2>1 DEF Halved
    <3>2. four + 1 = 5
      BY ONLY TRUE DEF four
    <3> QED
      BY ONLY <1>10, <3>1, <3>2
  <2>3. y - 1 = x
    BY ONLY <1>12, k \in Nat
  <2>4. SubSeq(p, 5, x) = [j \in 1..(x - 4) |-> p[j + 4]] /\ SubSeq(f, 5, x) = [j \in 1..(x - 4) |-> f[j + 4]]
    <3>1. \A s : SubSeq(s, 5, x) = [j \in 1..(x - 5 + 1) |-> s[j + 5 - 1]]
      BY ONLY TRUE
    <3>2. x - 5 + 1 = x - 4 /\ \A j \in 1..(x - 4) : j + 5 - 1 = j + 4
      BY ONLY x \in Nat
    <3> QED
      BY ONLY <3>1, <3>2
  <2>5. ASSUME NEW j \in 1..(x - 4)
        PROVE  p[j + 4] = f[j + 4]
    <3>1. j + 4 \in 1..x /\ j + 4 \in 1..y
      BY ONLY <1>12, k \in Nat, j \in 1..(x - 4)
    <3> QED
      BY ONLY <1>19, <3>1
  <2>6. [j \in 1..(x - 4) |-> p[j + 4]] = [j \in 1..(x - 4) |-> f[j + 4]]
    BY ONLY <2>5
  <2> QED
    BY ONLY <2>2, <2>3, <2>4, <2>6
<1>26. SubSeq(p, y + 1, len) = D
  <2>1. Halved(p, g, y, D, l)
    BY ONLY <1>3, <1>7, <1>16, <1>17, y \in Nat, l \in Nat, Halves
  <2> QED
    BY ONLY <1>18, <2>1 DEF Halved
<1>27. parse(m.typ, p) = {m}
  <2>1. parse(m.typ, p) = parseDevData(p)
    BY <1>1 DEF parse
  <2>2. ~(len < 5)
    BY ONLY <1>12, <1>18, k \in Nat, l \in Nat
  <2>3. parseDevData(p) = {[typ |-> "DEVDATA", id |-> int32(p, 1), device |-> SubSeq(p, 5, Min(nuls) - 1),
                            data |-> SubSeq(p, Min(nuls) + 1, len)]}
    <3>1. nuls = {i \in 5..Len(p) : p[i] = 0} /\ nuls # {} /\ Len(p) = len
      BY <1>19, <1>21 DEF nuls
    <3> QED
      BY ONLY <2>2, <3>1 DEF parseDevData
  <2>4. parseDevData(p) = {[typ |-> "DEVDATA", id |-> m.id, device |-> dev, data |-> D]}
    BY ONLY <1>20, <1>24, <1>25, <1>26, <2>3
  <2> QED
    BY ONLY <1>1, <2>1, <2>4 DEF dev, D
<1>28. \E i \in DOMAIN types : m.typ = types[i]
  <2>1. DOMAIN types = 1..14 /\ types[13] = "DEVDATA" /\ 13 \in 1..14
    BY DEF types
  <2> QED
    BY ONLY <1>1, <2>1
<1> QED
  BY ONLY <1>9, <1>19, <1>27, <1>28 DEF Reads

\* marshal and parse (packet.go), of every packet the model has.
THEOREM Parses ==
  ASSUME NEW m \in Message, NEW p \in payloads(m)
  PROVE  Reads(m, p)
<1>1. CASE m \in [typ : supervisory \cup {"EOFACK"}]
  <2>1. m.typ # "RPOS"
    BY <1>1 DEF supervisory
  <2>2. p = marshal(m)
    BY <2>1 DEF payloads
  <2> QED
    BY <1>1, <2>2, EmptyReads
<1>2. CASE m \in [typ : {"FINFOACK", "DATAACK", "EOF"}, offset : Int32]
  <2>1. m.typ # "RPOS"
    BY <1>2
  <2>2. p = marshal(m)
    BY <2>1 DEF payloads
  <2> QED
    BY <1>2, <2>2, OffsetReads
<1>3. CASE m \in [typ : {"DATA"}, offset : Int32, data : Seq(Byte)]
  <2>1. m.typ # "RPOS"
    BY <1>3
  <2>2. p = marshal(m)
    BY <2>1 DEF payloads
  <2> QED
    BY <1>3, <2>2, DataReads
<1>4. CASE m \in [typ : {"RPOS"}, offset : Int32, blocksize : Uint16, id : Int32]
  <2>2. p = marshal(m) \/ p = marshalWord(m)
    BY DEF payloads
  <2> QED
    BY <1>4, <2>2, RposReads
<1>5. CASE m \in [typ : {"DEVDATA"}, id : Int32, device : Seq(1..255), data : Seq(Byte)]
  <2>1. m.typ # "RPOS"
    BY <1>5
  <2>2. p = marshal(m)
    BY <2>1 DEF payloads
  <2> QED
    BY <1>5, <2>2, DeviceReads
<1>6. CASE m \in [typ : {"DEVDACK"}, id : Int32]
  <2>1. m.typ # "RPOS"
    BY <1>6
  <2>2. p = marshal(m)
    BY <2>1 DEF payloads
  <2> QED
    BY <1>6, <2>2, AckReads
<1> QED
  BY <1>1, <1>2, <1>3, <1>4, <1>5, <1>6 DEF Message

-----------------------------------------------------------------------------
(* The CRCs.                                                               *)

\* The places of a register after a shift.
LEMMA Shifted ==
  ASSUME NEW s, s \subseteq Nat, NEW n \in Nat
  PROVE  /\ shiftRight(s, n) \subseteq Nat
         /\ \A x \in Nat : x \in shiftRight(s, n) <=> x + n \in s
<1>1. \A i \in s : i \in Nat
  OBVIOUS
<1>2. ASSUME NEW y \in shiftRight(s, n)
      PROVE  y \in Nat /\ y + n \in s
  <2>1. PICK i \in s : i >= n /\ y = i - n
    BY DEF shiftRight
  <2>2. i \in Nat
    BY <1>1
  <2>3. y \in Nat /\ y + n = i
    BY ONLY <2>1, <2>2, n \in Nat
  <2> QED
    BY <2>3
<1>3. ASSUME NEW x \in Nat, x + n \in s
      PROVE  x \in shiftRight(s, n)
  <2>1. x + n >= n /\ x = (x + n) - n
    OBVIOUS
  <2>2. x + n \in {j \in s : j >= n}
    BY <1>3, <2>1
  <2> QED
    BY <2>1, <2>2 DEF shiftRight
<1> QED
  BY <1>2, <1>3

\* The bits of a byte, and of the byte of the bits that a register lacks.
LEMMA LackingBits ==
  ASSUME NEW crc, NEW n \in Nat
  PROVE  lacking(crc, n) \in Byte /\ bits(lacking(crc, n)) = {i \in 0..7 : n + i \notin crc}
<1> DEFINE bit(j) == IF n + j \in crc THEN 0 ELSE 1
<1>1. \A j \in 0..7 : bit(j) \in 0..1
  OBVIOUS
<1>2. PICK a, b, c, d, e, f, g, h \in 0..1 :
        /\ a = bit(0) /\ b = bit(1) /\ c = bit(2) /\ d = bit(3)
        /\ e = bit(4) /\ f = bit(5) /\ g = bit(6) /\ h = bit(7)
  OBVIOUS
<1> DEFINE v == a + 2 * b + 4 * c + 8 * d + 16 * e + 32 * f + 64 * g + 128 * h
<1>3. lacking(crc, n) = v
  BY <1>2 DEF lacking
<1>4. v \in Byte
  BY DEF Byte
<1>5. /\ (v \div 2^0) % 2 = a /\ (v \div 2^1) % 2 = b /\ (v \div 2^2) % 2 = c /\ (v \div 2^3) % 2 = d
      /\ (v \div 2^4) % 2 = e /\ (v \div 2^5) % 2 = f /\ (v \div 2^6) % 2 = g /\ (v \div 2^7) % 2 = h
  OBVIOUS
<1> DEFINE half(i) == (v \div 2^i) % 2
<1>6. \A i \in 8..15 : half(i) = 0
  <2>1. v \in Nat /\ v < 256
    BY <1>4 DEF Byte
  <2> HIDE DEF v
  <2>2. /\ v \div 256 = 0 /\ v \div 512 = 0 /\ v \div 1024 = 0 /\ v \div 2048 = 0
        /\ v \div 4096 = 0 /\ v \div 8192 = 0 /\ v \div 16384 = 0 /\ v \div 32768 = 0
    BY ONLY <2>1, SMT
  <2>3. /\ 2^8 = 256 /\ 2^9 = 512 /\ 2^10 = 1024 /\ 2^11 = 2048
        /\ 2^12 = 4096 /\ 2^13 = 8192 /\ 2^14 = 16384 /\ 2^15 = 32768 /\ 0 % 2 = 0
    BY ONLY SMT
  <2>4. \A i \in 8..15 : i = 8 \/ i = 9 \/ i = 10 \/ i = 11 \/ i = 12 \/ i = 13 \/ i = 14 \/ i = 15
    BY ONLY SMT
  <2>5. /\ half(8) = 0 /\ half(9) = 0 /\ half(10) = 0 /\ half(11) = 0
        /\ half(12) = 0 /\ half(13) = 0 /\ half(14) = 0 /\ half(15) = 0
    BY ONLY <2>2, <2>3, SMT DEF half
  <2> HIDE DEF half
  <2> QED
    BY ONLY <2>4, <2>5
<1> HIDE DEF v
<1>7. \A i \in 0..7 : half(i) = bit(i)
  <2>1. \A i \in 0..7 : i = 0 \/ i = 1 \/ i = 2 \/ i = 3 \/ i = 4 \/ i = 5 \/ i = 6 \/ i = 7
    BY ONLY TRUE
  <2>2. /\ half(0) = a /\ half(1) = b /\ half(2) = c /\ half(3) = d
        /\ half(4) = e /\ half(5) = f /\ half(6) = g /\ half(7) = h
    BY ONLY <1>5 DEF half
  <2> HIDE DEF bit, half
  <2> QED
    BY ONLY <1>2, <2>1, <2>2
<1>8. bits(v) = {i \in 0..7 : n + i \notin crc}
  <2>0. bits(v) = {i \in 0..15 : half(i) = 1}
    BY ONLY TRUE DEF bits, half
  <2> HIDE DEF half
  <2>1. \A i \in 0..15 : i \in 0..7 \/ i \in 8..15
    OBVIOUS
  <2>2. \A i \in 0..7 : i \in 0..15 /\ (half(i) = 1 <=> n + i \notin crc)
    BY ONLY <1>7
  <2>3. \A i \in 8..15 : ~(half(i) = 1) /\ i \notin 0..7
    BY ONLY <1>6
  <2> QED
    BY ONLY <2>0, <2>1, <2>2, <2>3
<1> QED
  BY ONLY <1>3, <1>4, <1>8

\* Byte n \div 8 of the complement leaves nothing of what the register R of
\* the body has in that byte: K is what the bytes before put there.
LEMMA CrcStep ==
  ASSUME NEW R, R \subseteq Nat, NEW K, K \subseteq Nat, NEW n \in Nat, NEW table
  PROVE  crcUpdate(table, SymDiff(K, shiftRight(R, n)), lacking(R, n))
           = SymDiff(SymDiff(table[(0..7) \ K], shiftRight(K, 8)), shiftRight(R, n + 8))
<1> DEFINE A == SymDiff(K, shiftRight(R, n))
<1>1. A \subseteq Nat /\ \A x \in Nat : x \in A <=> ~(x \in K <=> x + n \in R)
  BY Shifted DEF SymDiff
<1>2. SymDiff(A \cap 0..7, bits(lacking(R, n))) = (0..7) \ K
  <2>1. bits(lacking(R, n)) = {i \in 0..7 : n + i \notin R}
    BY LackingBits
  <2>2. \A i \in 0..7 : n + i = i + n /\ i \in Nat
    OBVIOUS
  <2> HIDE DEF A
  <2> QED
    BY <1>1, <2>1, <2>2 DEF SymDiff
<1>3. shiftRight(A, 8) = SymDiff(shiftRight(K, 8), shiftRight(R, n + 8))
  <2>1. shiftRight(A, 8) \subseteq Nat /\ \A x \in Nat : x \in shiftRight(A, 8) <=> x + 8 \in A
    BY <1>1, Shifted
  <2>2. shiftRight(K, 8) \subseteq Nat /\ \A x \in Nat : x \in shiftRight(K, 8) <=> x + 8 \in K
    BY Shifted
  <2>3. shiftRight(R, n + 8) \subseteq Nat /\ \A x \in Nat : x \in shiftRight(R, n + 8) <=> x + (n + 8) \in R
    <3>1. n + 8 \in Nat
      OBVIOUS
    <3> QED
      BY <3>1, Shifted
  <2>4. \A x \in Nat : x + 8 \in Nat /\ (x + 8) + n = x + (n + 8)
    OBVIOUS
  <2> HIDE DEF A
  <2> QED
    BY <1>1, <2>1, <2>2, <2>3, <2>4 DEF SymDiff
<1> HIDE DEF A
<1>4. \A X, Y, Z : SymDiff(X, SymDiff(Y, Z)) = SymDiff(SymDiff(X, Y), Z)
  BY DEF SymDiff
<1>5. crcUpdate(table, A, lacking(R, n)) = SymDiff(table[(0..7) \ K], shiftRight(A, 8))
  BY ONLY <1>2 DEF crcUpdate
<1>6. crcUpdate(table, A, lacking(R, n))
        = SymDiff(SymDiff(table[(0..7) \ K], shiftRight(K, 8)), shiftRight(R, n + 8))
  BY ONLY <1>3, <1>4, <1>5
<1> QED
  BY ONLY <1>6 DEF A

\* d is what a step of the division makes of c, whose poly bit is b.
Divided1(c, poly, d) ==
    /\ c \subseteq Nat /\ poly \subseteq Nat /\ d \subseteq Nat
    /\ \A x \in Nat : x \in d <=> ~(x + 1 \in c <=> (0 \in c /\ x \in poly))

\* One step of the division, place by place.
LEMMA Divides ==
  ASSUME NEW c, NEW poly, NEW d, Divided1(c, poly, d)
  PROVE  divide(c, poly) = d
<1>0. c \subseteq Nat /\ poly \subseteq Nat /\ d \subseteq Nat
      /\ \A x \in Nat : x \in d <=> ~(x + 1 \in c <=> (0 \in c /\ x \in poly))
  BY DEF Divided1
<1>1. shiftRight(c, 1) \subseteq Nat /\ \A x \in Nat : x \in shiftRight(c, 1) <=> x + 1 \in c
  BY <1>0, Shifted
<1>2. divide(c, poly) \subseteq Nat /\ \A x \in Nat : x \in divide(c, poly) <=> ~(x + 1 \in c <=> (0 \in c /\ x \in poly))
  BY <1>0, <1>1 DEF divide, SymDiff
<1> QED
  BY <1>0, <1>2



\* The sixteen bits of a number, one by one.
SixteenBits(v, S) ==
    /\ S \subseteq 0..15
    /\ (v \div 2^0) % 2 = 1 <=> 0 \in S
    /\ (v \div 2^1) % 2 = 1 <=> 1 \in S
    /\ (v \div 2^2) % 2 = 1 <=> 2 \in S
    /\ (v \div 2^3) % 2 = 1 <=> 3 \in S
    /\ (v \div 2^4) % 2 = 1 <=> 4 \in S
    /\ (v \div 2^5) % 2 = 1 <=> 5 \in S
    /\ (v \div 2^6) % 2 = 1 <=> 6 \in S
    /\ (v \div 2^7) % 2 = 1 <=> 7 \in S
    /\ (v \div 2^8) % 2 = 1 <=> 8 \in S
    /\ (v \div 2^9) % 2 = 1 <=> 9 \in S
    /\ (v \div 2^10) % 2 = 1 <=> 10 \in S
    /\ (v \div 2^11) % 2 = 1 <=> 11 \in S
    /\ (v \div 2^12) % 2 = 1 <=> 12 \in S
    /\ (v \div 2^13) % 2 = 1 <=> 13 \in S
    /\ (v \div 2^14) % 2 = 1 <=> 14 \in S
    /\ (v \div 2^15) % 2 = 1 <=> 15 \in S

\* The bits of a number of sixteen.
LEMMA BitsAre ==
  ASSUME NEW v, NEW S, SixteenBits(v, S)
  PROVE  bits(v) = S
<1> DEFINE half(i) == (v \div 2^i) % 2
<1>1. \A i \in 0..15 : i = 0 \/ i = 1 \/ i = 2 \/ i = 3 \/ i = 4 \/ i = 5 \/ i = 6 \/ i = 7 \/ i = 8 \/ i = 9 \/ i = 10
                       \/ i = 11 \/ i = 12 \/ i = 13 \/ i = 14 \/ i = 15
  BY ONLY SMT
<1>2. /\ S \subseteq 0..15
      /\ half(0) = 1 <=> 0 \in S
      /\ half(1) = 1 <=> 1 \in S
      /\ half(2) = 1 <=> 2 \in S
      /\ half(3) = 1 <=> 3 \in S
      /\ half(4) = 1 <=> 4 \in S
      /\ half(5) = 1 <=> 5 \in S
      /\ half(6) = 1 <=> 6 \in S
      /\ half(7) = 1 <=> 7 \in S
      /\ half(8) = 1 <=> 8 \in S
      /\ half(9) = 1 <=> 9 \in S
      /\ half(10) = 1 <=> 10 \in S
      /\ half(11) = 1 <=> 11 \in S
      /\ half(12) = 1 <=> 12 \in S
      /\ half(13) = 1 <=> 13 \in S
      /\ half(14) = 1 <=> 14 \in S
      /\ half(15) = 1 <=> 15 \in S
  BY DEF SixteenBits
<1>3. bits(v) = {i \in 0..15 : half(i) = 1}
  BY DEF bits
<1> HIDE DEF half
<1>4. \A i \in 0..15 : half(i) = 1 <=> i \in S
  BY ONLY <1>1, <1>2
<1> QED
  BY ONLY <1>2, <1>3, <1>4

\* The polynomial and the test value of CRC-16 (crc.go).
LEMMA Constants16 == crc16Poly = {3, 10, 15} /\ crc16Test = {3, 4, 5, 7, 12, 13, 14, 15}
<1>1. SixteenBits(33800, {3, 10, 15})
  BY SMT DEF SixteenBits
<1>2. SixteenBits(61624, {3, 4, 5, 7, 12, 13, 14, 15})
  BY SMT DEF SixteenBits
<1>3. bits(33800) = {3, 10, 15}
  BY <1>1, BitsAre
<1>4. bits(61624) = {3, 4, 5, 7, 12, 13, 14, 15}
  BY <1>2, BitsAre
<1> QED
  BY <1>3, <1>4 DEF crc16Poly, crc16Test

\* The polynomial and the test value of CRC-32 (crc.go).
LEMMA Constants32 ==
  /\ crc32Poly = {5, 8, 9, 15, 19, 20, 21, 23, 24, 26, 27, 29, 30, 31}
  /\ crc32Test = {0, 1, 5, 6, 7, 13, 16, 17, 19, 20, 21, 23, 25, 26, 27, 28, 30, 31}
<1>1. SixteenBits(33568, {5, 8, 9, 15})
  BY SMT DEF SixteenBits
<1>2. SixteenBits(60856, {3, 4, 5, 7, 8, 10, 11, 13, 14, 15})
  BY SMT DEF SixteenBits
<1>3. SixteenBits(8419, {0, 1, 5, 6, 7, 13})
  BY SMT DEF SixteenBits
<1>4. SixteenBits(57019, {0, 1, 3, 4, 5, 7, 9, 10, 11, 12, 14, 15})
  BY SMT DEF SixteenBits
<1>5. bits(33568) = {5, 8, 9, 15}
  BY <1>1, BitsAre
<1>6. bits(60856) = {3, 4, 5, 7, 8, 10, 11, 13, 14, 15}
  BY <1>2, BitsAre
<1>7. bits(8419) = {0, 1, 5, 6, 7, 13}
  BY <1>3, BitsAre
<1>8. bits(57019) = {0, 1, 3, 4, 5, 7, 9, 10, 11, 12, 14, 15}
  BY <1>4, BitsAre
<1>9. {16 + i : i \in {3, 4, 5, 7, 8, 10, 11, 13, 14, 15}} = {19, 20, 21, 23, 24, 26, 27, 29, 30, 31}
  BY SMT
<1>10. {16 + i : i \in {0, 1, 3, 4, 5, 7, 9, 10, 11, 12, 14, 15}} = {16, 17, 19, 20, 21, 23, 25, 26, 27, 28, 30, 31}
  BY SMT
<1> QED
  BY <1>5, <1>6, <1>7, <1>8, <1>9, <1>10, SMT DEF crc32Poly, crc32Test

\* The entry of the CRC-16 table for the first byte of every trailer.
LEMMA Entry16a ==
  divide4(divide4({0, 1, 2, 3, 4, 5, 6, 7}, crc16Poly), crc16Poly)
    = {3, 4, 5, 6, 8, 9, 10, 11}
<1> DEFINE P == {3, 10, 15}
<1>1. Divided1({0, 1, 2, 3, 4, 5, 6, 7}, P, {0, 1, 2, 4, 5, 6, 10, 15})
  BY SMT DEF Divided1
<1>2. Divided1({0, 1, 2, 4, 5, 6, 10, 15}, P, {0, 1, 4, 5, 9, 10, 14, 15})
  BY SMT DEF Divided1
<1>3. Divided1({0, 1, 4, 5, 9, 10, 14, 15}, P, {0, 4, 8, 9, 10, 13, 14, 15})
  BY SMT DEF Divided1
<1>4. Divided1({0, 4, 8, 9, 10, 13, 14, 15}, P, {7, 8, 9, 10, 12, 13, 14, 15})
  BY SMT DEF Divided1
<1>5. Divided1({7, 8, 9, 10, 12, 13, 14, 15}, P, {6, 7, 8, 9, 11, 12, 13, 14})
  BY SMT DEF Divided1
<1>6. Divided1({6, 7, 8, 9, 11, 12, 13, 14}, P, {5, 6, 7, 8, 10, 11, 12, 13})
  BY SMT DEF Divided1
<1>7. Divided1({5, 6, 7, 8, 10, 11, 12, 13}, P, {4, 5, 6, 7, 9, 10, 11, 12})
  BY SMT DEF Divided1
<1>8. Divided1({4, 5, 6, 7, 9, 10, 11, 12}, P, {3, 4, 5, 6, 8, 9, 10, 11})
  BY SMT DEF Divided1
<1>9. crc16Poly = P
  BY Constants16
<1> HIDE DEF P
<1>10. divide({0, 1, 2, 3, 4, 5, 6, 7}, P) = {0, 1, 2, 4, 5, 6, 10, 15}
  BY ONLY <1>1, Divides
<1>11. divide({0, 1, 2, 4, 5, 6, 10, 15}, P) = {0, 1, 4, 5, 9, 10, 14, 15}
  BY ONLY <1>2, Divides
<1>12. divide({0, 1, 4, 5, 9, 10, 14, 15}, P) = {0, 4, 8, 9, 10, 13, 14, 15}
  BY ONLY <1>3, Divides
<1>13. divide({0, 4, 8, 9, 10, 13, 14, 15}, P) = {7, 8, 9, 10, 12, 13, 14, 15}
  BY ONLY <1>4, Divides
<1>14. divide({7, 8, 9, 10, 12, 13, 14, 15}, P) = {6, 7, 8, 9, 11, 12, 13, 14}
  BY ONLY <1>5, Divides
<1>15. divide({6, 7, 8, 9, 11, 12, 13, 14}, P) = {5, 6, 7, 8, 10, 11, 12, 13}
  BY ONLY <1>6, Divides
<1>16. divide({5, 6, 7, 8, 10, 11, 12, 13}, P) = {4, 5, 6, 7, 9, 10, 11, 12}
  BY ONLY <1>7, Divides
<1>17. divide({4, 5, 6, 7, 9, 10, 11, 12}, P) = {3, 4, 5, 6, 8, 9, 10, 11}
  BY ONLY <1>8, Divides
<1>18. divide4({0, 1, 2, 3, 4, 5, 6, 7}, P) = {7, 8, 9, 10, 12, 13, 14, 15}
  BY ONLY <1>10, <1>11, <1>12, <1>13 DEF divide4
<1>19. divide4({7, 8, 9, 10, 12, 13, 14, 15}, P) = {3, 4, 5, 6, 8, 9, 10, 11}
  BY ONLY <1>14, <1>15, <1>16, <1>17 DEF divide4
<1> QED
  BY ONLY <1>9, <1>18, <1>19

\* The entry of the CRC-16 table for the second byte.
LEMMA Entry16b ==
  divide4(divide4({0, 1, 2, 7}, crc16Poly), crc16Poly)
    = {0, 1, 2, 4, 5, 7, 12, 13, 14, 15}
<1> DEFINE P == {3, 10, 15}
<1>1. Divided1({0, 1, 2, 7}, P, {0, 1, 3, 6, 10, 15})
  BY SMT DEF Divided1
<1>2. Divided1({0, 1, 3, 6, 10, 15}, P, {0, 2, 3, 5, 9, 10, 14, 15})
  BY SMT DEF Divided1
<1>3. Divided1({0, 2, 3, 5, 9, 10, 14, 15}, P, {1, 2, 3, 4, 8, 9, 10, 13, 14, 15})
  BY SMT DEF Divided1
<1>4. Divided1({1, 2, 3, 4, 8, 9, 10, 13, 14, 15}, P, {0, 1, 2, 3, 7, 8, 9, 12, 13, 14})
  BY SMT DEF Divided1
<1>5. Divided1({0, 1, 2, 3, 7, 8, 9, 12, 13, 14}, P, {0, 1, 2, 3, 6, 7, 8, 10, 11, 12, 13, 15})
  BY SMT DEF Divided1
<1>6. Divided1({0, 1, 2, 3, 6, 7, 8, 10, 11, 12, 13, 15}, P, {0, 1, 2, 3, 5, 6, 7, 9, 11, 12, 14, 15})
  BY SMT DEF Divided1
<1>7. Divided1({0, 1, 2, 3, 5, 6, 7, 9, 11, 12, 14, 15}, P, {0, 1, 2, 3, 4, 5, 6, 8, 11, 13, 14, 15})
  BY SMT DEF Divided1
<1>8. Divided1({0, 1, 2, 3, 4, 5, 6, 8, 11, 13, 14, 15}, P, {0, 1, 2, 4, 5, 7, 12, 13, 14, 15})
  BY SMT DEF Divided1
<1>9. crc16Poly = P
  BY Constants16
<1> HIDE DEF P
<1>10. divide({0, 1, 2, 7}, P) = {0, 1, 3, 6, 10, 15}
  BY ONLY <1>1, Divides
<1>11. divide({0, 1, 3, 6, 10, 15}, P) = {0, 2, 3, 5, 9, 10, 14, 15}
  BY ONLY <1>2, Divides
<1>12. divide({0, 2, 3, 5, 9, 10, 14, 15}, P) = {1, 2, 3, 4, 8, 9, 10, 13, 14, 15}
  BY ONLY <1>3, Divides
<1>13. divide({1, 2, 3, 4, 8, 9, 10, 13, 14, 15}, P) = {0, 1, 2, 3, 7, 8, 9, 12, 13, 14}
  BY ONLY <1>4, Divides
<1>14. divide({0, 1, 2, 3, 7, 8, 9, 12, 13, 14}, P) = {0, 1, 2, 3, 6, 7, 8, 10, 11, 12, 13, 15}
  BY ONLY <1>5, Divides
<1>15. divide({0, 1, 2, 3, 6, 7, 8, 10, 11, 12, 13, 15}, P) = {0, 1, 2, 3, 5, 6, 7, 9, 11, 12, 14, 15}
  BY ONLY <1>6, Divides
<1>16. divide({0, 1, 2, 3, 5, 6, 7, 9, 11, 12, 14, 15}, P) = {0, 1, 2, 3, 4, 5, 6, 8, 11, 13, 14, 15}
  BY ONLY <1>7, Divides
<1>17. divide({0, 1, 2, 3, 4, 5, 6, 8, 11, 13, 14, 15}, P) = {0, 1, 2, 4, 5, 7, 12, 13, 14, 15}
  BY ONLY <1>8, Divides
<1>18. divide4({0, 1, 2, 7}, P) = {0, 1, 2, 3, 7, 8, 9, 12, 13, 14}
  BY ONLY <1>10, <1>11, <1>12, <1>13 DEF divide4
<1>19. divide4({0, 1, 2, 3, 7, 8, 9, 12, 13, 14}, P) = {0, 1, 2, 4, 5, 7, 12, 13, 14, 15}
  BY ONLY <1>14, <1>15, <1>16, <1>17 DEF divide4
<1> QED
  BY ONLY <1>9, <1>18, <1>19

\* The entry of the CRC-32 table for the first byte of every trailer.
LEMMA Entry32a ==
  divide4(divide4({0, 1, 2, 3, 4, 5, 6, 7}, crc32Poly), crc32Poly)
    = {0, 2, 3, 7, 8, 9, 10, 11, 13, 14, 15, 17, 24, 26, 27, 29}
<1> DEFINE P == {5, 8, 9, 15, 19, 20, 21, 23, 24, 26, 27, 29, 30, 31}
<1>1. Divided1({0, 1, 2, 3, 4, 5, 6, 7}, P, {0, 1, 2, 3, 4, 6, 8, 9, 15, 19, 20, 21, 23, 24, 26, 27, 29, 30, 31})
  BY SMT DEF Divided1
<1>2. Divided1({0, 1, 2, 3, 4, 6, 8, 9, 15, 19, 20, 21, 23, 24, 26, 27, 29, 30, 31}, P, {0, 1, 2, 3, 7, 9, 14, 15, 18, 21, 22, 24, 25, 27, 28, 31})
  BY SMT DEF Divided1
<1>3. Divided1({0, 1, 2, 3, 7, 9, 14, 15, 18, 21, 22, 24, 25, 27, 28, 31}, P, {0, 1, 2, 5, 6, 9, 13, 14, 15, 17, 19, 29, 31})
  BY SMT DEF Divided1
<1>4. Divided1({0, 1, 2, 5, 6, 9, 13, 14, 15, 17, 19, 29, 31}, P, {0, 1, 4, 9, 12, 13, 14, 15, 16, 18, 19, 20, 21, 23, 24, 26, 27, 28, 29, 31})
  BY SMT DEF Divided1
<1>5. Divided1({0, 1, 4, 9, 12, 13, 14, 15, 16, 18, 19, 20, 21, 23, 24, 26, 27, 28, 29, 31}, P, {0, 3, 5, 9, 11, 12, 13, 14, 17, 18, 21, 22, 24, 25, 28, 29, 31})
  BY SMT DEF Divided1
<1>6. Divided1({0, 3, 5, 9, 11, 12, 13, 14, 17, 18, 21, 22, 24, 25, 28, 29, 31}, P, {2, 4, 5, 9, 10, 11, 12, 13, 15, 16, 17, 19, 26, 28, 29, 31})
  BY SMT DEF Divided1
<1>7. Divided1({2, 4, 5, 9, 10, 11, 12, 13, 15, 16, 17, 19, 26, 28, 29, 31}, P, {1, 3, 4, 8, 9, 10, 11, 12, 14, 15, 16, 18, 25, 27, 28, 30})
  BY SMT DEF Divided1
<1>8. Divided1({1, 3, 4, 8, 9, 10, 11, 12, 14, 15, 16, 18, 25, 27, 28, 30}, P, {0, 2, 3, 7, 8, 9, 10, 11, 13, 14, 15, 17, 24, 26, 27, 29})
  BY SMT DEF Divided1
<1>9. crc32Poly = P
  BY Constants32
<1> HIDE DEF P
<1>10. divide({0, 1, 2, 3, 4, 5, 6, 7}, P) = {0, 1, 2, 3, 4, 6, 8, 9, 15, 19, 20, 21, 23, 24, 26, 27, 29, 30, 31}
  BY ONLY <1>1, Divides
<1>11. divide({0, 1, 2, 3, 4, 6, 8, 9, 15, 19, 20, 21, 23, 24, 26, 27, 29, 30, 31}, P) = {0, 1, 2, 3, 7, 9, 14, 15, 18, 21, 22, 24, 25, 27, 28, 31}
  BY ONLY <1>2, Divides
<1>12. divide({0, 1, 2, 3, 7, 9, 14, 15, 18, 21, 22, 24, 25, 27, 28, 31}, P) = {0, 1, 2, 5, 6, 9, 13, 14, 15, 17, 19, 29, 31}
  BY ONLY <1>3, Divides
<1>13. divide({0, 1, 2, 5, 6, 9, 13, 14, 15, 17, 19, 29, 31}, P) = {0, 1, 4, 9, 12, 13, 14, 15, 16, 18, 19, 20, 21, 23, 24, 26, 27, 28, 29, 31}
  BY ONLY <1>4, Divides
<1>14. divide({0, 1, 4, 9, 12, 13, 14, 15, 16, 18, 19, 20, 21, 23, 24, 26, 27, 28, 29, 31}, P) = {0, 3, 5, 9, 11, 12, 13, 14, 17, 18, 21, 22, 24, 25, 28, 29, 31}
  BY ONLY <1>5, Divides
<1>15. divide({0, 3, 5, 9, 11, 12, 13, 14, 17, 18, 21, 22, 24, 25, 28, 29, 31}, P) = {2, 4, 5, 9, 10, 11, 12, 13, 15, 16, 17, 19, 26, 28, 29, 31}
  BY ONLY <1>6, Divides
<1>16. divide({2, 4, 5, 9, 10, 11, 12, 13, 15, 16, 17, 19, 26, 28, 29, 31}, P) = {1, 3, 4, 8, 9, 10, 11, 12, 14, 15, 16, 18, 25, 27, 28, 30}
  BY ONLY <1>7, Divides
<1>17. divide({1, 3, 4, 8, 9, 10, 11, 12, 14, 15, 16, 18, 25, 27, 28, 30}, P) = {0, 2, 3, 7, 8, 9, 10, 11, 13, 14, 15, 17, 24, 26, 27, 29}
  BY ONLY <1>8, Divides
<1>18. divide4({0, 1, 2, 3, 4, 5, 6, 7}, P) = {0, 1, 4, 9, 12, 13, 14, 15, 16, 18, 19, 20, 21, 23, 24, 26, 27, 28, 29, 31}
  BY ONLY <1>10, <1>11, <1>12, <1>13 DEF divide4
<1>19. divide4({0, 1, 4, 9, 12, 13, 14, 15, 16, 18, 19, 20, 21, 23, 24, 26, 27, 28, 29, 31}, P) = {0, 2, 3, 7, 8, 9, 10, 11, 13, 14, 15, 17, 24, 26, 27, 29}
  BY ONLY <1>14, <1>15, <1>16, <1>17 DEF divide4
<1> QED
  BY ONLY <1>9, <1>18, <1>19

\* The entry of the CRC-32 table for the second byte.
LEMMA Entry32b ==
  divide4(divide4({1, 4, 5, 6}, crc32Poly), crc32Poly)
    = {4, 12, 16, 17, 19, 25, 26, 27, 28, 29, 31}
<1> DEFINE P == {5, 8, 9, 15, 19, 20, 21, 23, 24, 26, 27, 29, 30, 31}
<1>1. Divided1({1, 4, 5, 6}, P, {0, 3, 4, 5})
  BY SMT DEF Divided1
<1>2. Divided1({0, 3, 4, 5}, P, {2, 3, 4, 5, 8, 9, 15, 19, 20, 21, 23, 24, 26, 27, 29, 30, 31})
  BY SMT DEF Divided1
<1>3. Divided1({2, 3, 4, 5, 8, 9, 15, 19, 20, 21, 23, 24, 26, 27, 29, 30, 31}, P, {1, 2, 3, 4, 7, 8, 14, 18, 19, 20, 22, 23, 25, 26, 28, 29, 30})
  BY SMT DEF Divided1
<1>4. Divided1({1, 2, 3, 4, 7, 8, 14, 18, 19, 20, 22, 23, 25, 26, 28, 29, 30}, P, {0, 1, 2, 3, 6, 7, 13, 17, 18, 19, 21, 22, 24, 25, 27, 28, 29})
  BY SMT DEF Divided1
<1>5. Divided1({0, 1, 2, 3, 6, 7, 13, 17, 18, 19, 21, 22, 24, 25, 27, 28, 29}, P, {0, 1, 2, 6, 8, 9, 12, 15, 16, 17, 18, 19, 28, 29, 30, 31})
  BY SMT DEF Divided1
<1>6. Divided1({0, 1, 2, 6, 8, 9, 12, 15, 16, 17, 18, 19, 28, 29, 30, 31}, P, {0, 1, 7, 9, 11, 14, 16, 17, 18, 19, 20, 21, 23, 24, 26, 28, 31})
  BY SMT DEF Divided1
<1>7. Divided1({0, 1, 7, 9, 11, 14, 16, 17, 18, 19, 20, 21, 23, 24, 26, 28, 31}, P, {0, 5, 6, 9, 10, 13, 16, 17, 18, 21, 22, 24, 25, 26, 29, 31})
  BY SMT DEF Divided1
<1>8. Divided1({0, 5, 6, 9, 10, 13, 16, 17, 18, 21, 22, 24, 25, 26, 29, 31}, P, {4, 12, 16, 17, 19, 25, 26, 27, 28, 29, 31})
  BY SMT DEF Divided1
<1>9. crc32Poly = P
  BY Constants32
<1> HIDE DEF P
<1>10. divide({1, 4, 5, 6}, P) = {0, 3, 4, 5}
  BY ONLY <1>1, Divides
<1>11. divide({0, 3, 4, 5}, P) = {2, 3, 4, 5, 8, 9, 15, 19, 20, 21, 23, 24, 26, 27, 29, 30, 31}
  BY ONLY <1>2, Divides
<1>12. divide({2, 3, 4, 5, 8, 9, 15, 19, 20, 21, 23, 24, 26, 27, 29, 30, 31}, P) = {1, 2, 3, 4, 7, 8, 14, 18, 19, 20, 22, 23, 25, 26, 28, 29, 30}
  BY ONLY <1>3, Divides
<1>13. divide({1, 2, 3, 4, 7, 8, 14, 18, 19, 20, 22, 23, 25, 26, 28, 29, 30}, P) = {0, 1, 2, 3, 6, 7, 13, 17, 18, 19, 21, 22, 24, 25, 27, 28, 29}
  BY ONLY <1>4, Divides
<1>14. divide({0, 1, 2, 3, 6, 7, 13, 17, 18, 19, 21, 22, 24, 25, 27, 28, 29}, P) = {0, 1, 2, 6, 8, 9, 12, 15, 16, 17, 18, 19, 28, 29, 30, 31}
  BY ONLY <1>5, Divides
<1>15. divide({0, 1, 2, 6, 8, 9, 12, 15, 16, 17, 18, 19, 28, 29, 30, 31}, P) = {0, 1, 7, 9, 11, 14, 16, 17, 18, 19, 20, 21, 23, 24, 26, 28, 31}
  BY ONLY <1>6, Divides
<1>16. divide({0, 1, 7, 9, 11, 14, 16, 17, 18, 19, 20, 21, 23, 24, 26, 28, 31}, P) = {0, 5, 6, 9, 10, 13, 16, 17, 18, 21, 22, 24, 25, 26, 29, 31}
  BY ONLY <1>7, Divides
<1>17. divide({0, 5, 6, 9, 10, 13, 16, 17, 18, 21, 22, 24, 25, 26, 29, 31}, P) = {4, 12, 16, 17, 19, 25, 26, 27, 28, 29, 31}
  BY ONLY <1>8, Divides
<1>18. divide4({1, 4, 5, 6}, P) = {0, 1, 2, 3, 6, 7, 13, 17, 18, 19, 21, 22, 24, 25, 27, 28, 29}
  BY ONLY <1>10, <1>11, <1>12, <1>13 DEF divide4
<1>19. divide4({0, 1, 2, 3, 6, 7, 13, 17, 18, 19, 21, 22, 24, 25, 27, 28, 29}, P) = {4, 12, 16, 17, 19, 25, 26, 27, 28, 29, 31}
  BY ONLY <1>14, <1>15, <1>16, <1>17 DEF divide4
<1> QED
  BY ONLY <1>9, <1>18, <1>19

\* The entry of the CRC-32 table for the last byte.
LEMMA Entry32d ==
  divide4(divide4({0, 2, 3, 5, 6, 7}, crc32Poly), crc32Poly)
    = {0, 2, 6, 7, 9, 10, 11, 12, 15, 16, 17, 19, 20, 21, 23, 25, 26, 27, 28, 30, 31}
<1> DEFINE P == {5, 8, 9, 15, 19, 20, 21, 23, 24, 26, 27, 29, 30, 31}
<1>1. Divided1({0, 2, 3, 5, 6, 7}, P, {1, 2, 4, 6, 8, 9, 15, 19, 20, 21, 23, 24, 26, 27, 29, 30, 31})
  BY SMT DEF Divided1
<1>2. Divided1({1, 2, 4, 6, 8, 9, 15, 19, 20, 21, 23, 24, 26, 27, 29, 30, 31}, P, {0, 1, 3, 5, 7, 8, 14, 18, 19, 20, 22, 23, 25, 26, 28, 29, 30})
  BY SMT DEF Divided1
<1>3. Divided1({0, 1, 3, 5, 7, 8, 14, 18, 19, 20, 22, 23, 25, 26, 28, 29, 30}, P, {0, 2, 4, 5, 6, 7, 8, 9, 13, 15, 17, 18, 20, 22, 23, 25, 26, 28, 30, 31})
  BY SMT DEF Divided1
<1>4. Divided1({0, 2, 4, 5, 6, 7, 8, 9, 13, 15, 17, 18, 20, 22, 23, 25, 26, 28, 30, 31}, P, {1, 3, 4, 6, 7, 9, 12, 14, 15, 16, 17, 20, 22, 23, 25, 26, 31})
  BY SMT DEF Divided1
<1>5. Divided1({1, 3, 4, 6, 7, 9, 12, 14, 15, 16, 17, 20, 22, 23, 25, 26, 31}, P, {0, 2, 3, 5, 6, 8, 11, 13, 14, 15, 16, 19, 21, 22, 24, 25, 30})
  BY SMT DEF Divided1
<1>6. Divided1({0, 2, 3, 5, 6, 8, 11, 13, 14, 15, 16, 19, 21, 22, 24, 25, 30}, P, {1, 2, 4, 7, 8, 9, 10, 12, 13, 14, 18, 19, 26, 27, 30, 31})
  BY SMT DEF Divided1
<1>7. Divided1({1, 2, 4, 7, 8, 9, 10, 12, 13, 14, 18, 19, 26, 27, 30, 31}, P, {0, 1, 3, 6, 7, 8, 9, 11, 12, 13, 17, 18, 25, 26, 29, 30})
  BY SMT DEF Divided1
<1>8. Divided1({0, 1, 3, 6, 7, 8, 9, 11, 12, 13, 17, 18, 25, 26, 29, 30}, P, {0, 2, 6, 7, 9, 10, 11, 12, 15, 16, 17, 19, 20, 21, 23, 25, 26, 27, 28, 30, 31})
  BY SMT DEF Divided1
<1>9. crc32Poly = P
  BY Constants32
<1> HIDE DEF P
<1>10. divide({0, 2, 3, 5, 6, 7}, P) = {1, 2, 4, 6, 8, 9, 15, 19, 20, 21, 23, 24, 26, 27, 29, 30, 31}
  BY ONLY <1>1, Divides
<1>11. divide({1, 2, 4, 6, 8, 9, 15, 19, 20, 21, 23, 24, 26, 27, 29, 30, 31}, P) = {0, 1, 3, 5, 7, 8, 14, 18, 19, 20, 22, 23, 25, 26, 28, 29, 30}
  BY ONLY <1>2, Divides
<1>12. divide({0, 1, 3, 5, 7, 8, 14, 18, 19, 20, 22, 23, 25, 26, 28, 29, 30}, P) = {0, 2, 4, 5, 6, 7, 8, 9, 13, 15, 17, 18, 20, 22, 23, 25, 26, 28, 30, 31}
  BY ONLY <1>3, Divides
<1>13. divide({0, 2, 4, 5, 6, 7, 8, 9, 13, 15, 17, 18, 20, 22, 23, 25, 26, 28, 30, 31}, P) = {1, 3, 4, 6, 7, 9, 12, 14, 15, 16, 17, 20, 22, 23, 25, 26, 31}
  BY ONLY <1>4, Divides
<1>14. divide({1, 3, 4, 6, 7, 9, 12, 14, 15, 16, 17, 20, 22, 23, 25, 26, 31}, P) = {0, 2, 3, 5, 6, 8, 11, 13, 14, 15, 16, 19, 21, 22, 24, 25, 30}
  BY ONLY <1>5, Divides
<1>15. divide({0, 2, 3, 5, 6, 8, 11, 13, 14, 15, 16, 19, 21, 22, 24, 25, 30}, P) = {1, 2, 4, 7, 8, 9, 10, 12, 13, 14, 18, 19, 26, 27, 30, 31}
  BY ONLY <1>6, Divides
<1>16. divide({1, 2, 4, 7, 8, 9, 10, 12, 13, 14, 18, 19, 26, 27, 30, 31}, P) = {0, 1, 3, 6, 7, 8, 9, 11, 12, 13, 17, 18, 25, 26, 29, 30}
  BY ONLY <1>7, Divides
<1>17. divide({0, 1, 3, 6, 7, 8, 9, 11, 12, 13, 17, 18, 25, 26, 29, 30}, P) = {0, 2, 6, 7, 9, 10, 11, 12, 15, 16, 17, 19, 20, 21, 23, 25, 26, 27, 28, 30, 31}
  BY ONLY <1>8, Divides
<1>18. divide4({0, 2, 3, 5, 6, 7}, P) = {1, 3, 4, 6, 7, 9, 12, 14, 15, 16, 17, 20, 22, 23, 25, 26, 31}
  BY ONLY <1>10, <1>11, <1>12, <1>13 DEF divide4
<1>19. divide4({1, 3, 4, 6, 7, 9, 12, 14, 15, 16, 17, 20, 22, 23, 25, 26, 31}, P) = {0, 2, 6, 7, 9, 10, 11, 12, 15, 16, 17, 19, 20, 21, 23, 25, 26, 27, 28, 30, 31}
  BY ONLY <1>14, <1>15, <1>16, <1>17 DEF divide4
<1> QED
  BY ONLY <1>9, <1>18, <1>19

\* A byte's bits are the places 0 to 7.
LEMMA ByteBits ==
  ASSUME NEW v \in Byte
  PROVE  bits(v) \in SUBSET (0..7)
<1> DEFINE half(i) == (v \div 2^i) % 2
<1>1. v \in Nat /\ v < 256
  BY DEF Byte
<1>2. /\ v \div 256 = 0 /\ v \div 512 = 0 /\ v \div 1024 = 0 /\ v \div 2048 = 0
      /\ v \div 4096 = 0 /\ v \div 8192 = 0 /\ v \div 16384 = 0 /\ v \div 32768 = 0
  BY ONLY <1>1, SMT
<1>3. /\ 2^8 = 256 /\ 2^9 = 512 /\ 2^10 = 1024 /\ 2^11 = 2048
      /\ 2^12 = 4096 /\ 2^13 = 8192 /\ 2^14 = 16384 /\ 2^15 = 32768 /\ 0 % 2 = 0
  BY ONLY SMT
<1>4. /\ half(8) = 0 /\ half(9) = 0 /\ half(10) = 0 /\ half(11) = 0
      /\ half(12) = 0 /\ half(13) = 0 /\ half(14) = 0 /\ half(15) = 0
  BY ONLY <1>2, <1>3, SMT DEF half
<1>5. bits(v) = {i \in 0..15 : half(i) = 1}
  BY DEF bits
<1> HIDE DEF half
<1>6. \A i \in 0..15 : i \in 0..7 \/ i = 8 \/ i = 9 \/ i = 10 \/ i = 11 \/ i = 12 \/ i = 13 \/ i = 14 \/ i = 15
  BY ONLY SMT
<1> QED
  BY ONLY <1>4, <1>5, <1>6

\* The register runs over the bytes.
CrcRun(c, table, start, p, n) ==
    c = [i \in 0..n |-> IF i = 0 THEN start ELSE crcUpdate(table, c[i - 1], p[i])]

CrcStepped(c, table, start, p, n, w) ==
    /\ c[0] = start
    /\ \A i \in 0..n : c[i] \in SUBSET (0..(w - 1))
    /\ \A i \in 1..n : c[i] = crcUpdate(table, c[i - 1], p[i])

\* crcUpdate leaves a register of the same width.
LEMMA CrcUpdateTyped ==
  ASSUME NEW w \in Nat, NEW table \in [SUBSET (0..7) -> SUBSET (0..(w - 1))],
         NEW crc \in SUBSET (0..(w - 1)), NEW b \in Byte
  PROVE  crcUpdate(table, crc, b) \in SUBSET (0..(w - 1))
<1>1. SymDiff(crc \cap 0..7, bits(b)) \in SUBSET (0..7)
  BY ByteBits DEF SymDiff
<1>2. table[SymDiff(crc \cap 0..7, bits(b))] \in SUBSET (0..(w - 1))
  BY <1>1
<1>3. shiftRight(crc, 8) \in SUBSET (0..(w - 1))
  <2> SUFFICES ASSUME NEW y \in shiftRight(crc, 8) PROVE y \in 0..(w - 1)
    OBVIOUS
  <2>1. PICK i \in crc : i >= 8 /\ y = i - 8
    BY DEF shiftRight
  <2>2. i \in 0..(w - 1)
    OBVIOUS
  <2> QED
    BY <2>1, <2>2
<1> QED
  BY <1>2, <1>3 DEF crcUpdate, SymDiff

\* The CRC has a run over any sequence of bytes.
LEMMA CrcRuns ==
  ASSUME NEW w \in Nat, NEW table \in [SUBSET (0..7) -> SUBSET (0..(w - 1))],
         NEW start \in SUBSET (0..(w - 1)), NEW n \in Nat, NEW p \in [1..n -> Byte]
  PROVE  \E c : CrcRun(c, table, start, p, n)
<1> DEFINE S == SUBSET (0..(w - 1))
           step == [x \in (1..n) \X S |-> crcUpdate(table, x[2], p[x[1]])]
<1>1. step \in [(1..n) \X S -> S]
  <2>1. \A x \in (1..n) \X S : x[2] \in S /\ p[x[1]] \in Byte
    OBVIOUS
  <2> QED
    BY <2>1, CrcUpdateTyped
<1>2. \A i \in 1..n, s \in S : step[<<i, s>>] = crcUpdate(table, s, p[i])
  OBVIOUS
<1>3. start \in S
  OBVIOUS
<1> HIDE DEF step, S
<1>4. PICK d \in [0..n -> S] : History(d, step, start, n)
  BY <1>1, <1>3, HistoryExists
<1>5. ASSUME NEW i \in 0..n
      PROVE  d[i] = IF i = 0 THEN start ELSE crcUpdate(table, d[i - 1], p[i])
  <2>1. d[i] = IF i = 0 THEN start ELSE step[<<i, d[i - 1]>>]
    BY <1>4 DEF History
  <2>2. i # 0 => i \in 1..n /\ d[i - 1] \in S
    BY <1>4
  <2> QED
    BY <1>2, <2>1, <2>2
<1>6. d = [i \in 0..n |-> d[i]]
  BY <1>4
<1> QED
  BY <1>5, <1>6 DEF CrcRun

\* crcCompute is where that run ends.
LEMMA CrcComputes ==
  ASSUME NEW w \in Nat, NEW table \in [SUBSET (0..7) -> SUBSET (0..(w - 1))],
         NEW start \in SUBSET (0..(w - 1)), NEW p \in Seq(Byte), NEW n \in Nat, n = Len(p)
  PROVE  \E c : crcCompute(table, start, p) = c[n] /\ CrcStepped(c, table, start, p, n, w)
<1> DEFINE c == CHOOSE c : CrcRun(c, table, start, p, n)
           S == SUBSET (0..(w - 1))
<1>0. p \in [1..n -> Byte]
  OBVIOUS
<1>1. CrcRun(c, table, start, p, n)
  BY <1>0, CrcRuns
<1>2. crcCompute(table, start, p) = c[n]
  BY DEF crcCompute, CrcRun
<1> HIDE DEF c
<1>3. c[0] = start /\ \A i \in 1..n : c[i] = crcUpdate(table, c[i - 1], p[i])
  BY <1>1 DEF CrcRun
<1> DEFINE T == {i \in 0..n : c[i] \in S}
<1>4. 0 \in T
  <2>1. 0 \in 0..n
    BY ONLY n \in Nat
  <2> QED
    BY ONLY <1>3, <2>1, start \in SUBSET (0..(w - 1))
<1>5. ASSUME NEW i \in 1..n, i - 1 \in T
      PROVE  i \in T
  <2>1. c[i - 1] \in S /\ p[i] \in Byte
    BY <1>0, <1>5
  <2>2. crcUpdate(table, c[i - 1], p[i]) \in S
    BY <2>1, CrcUpdateTyped
  <2> QED
    BY <1>3, <2>2
<1> HIDE DEF T
<1>6. 0..n \subseteq T
  BY <1>4, <1>5, UpTo
<1>7. \A i \in 0..n : c[i] \in S
  BY <1>6 DEF T
<1> QED
  BY <1>2, <1>3, <1>7 DEF CrcStepped

\* Past the body, the register goes through the bytes of the complement.
Tail1(f, table, R, k) ==
    /\ f[0] = R
    /\ \A j \in 1..k : f[j] = crcUpdate(table, f[j - 1], lacking(R, 8 * (j - 1)))

\* The bytes of the complement of a register.
LEMMA ComplementTyped ==
  ASSUME NEW R, NEW k \in Nat
  PROVE  /\ complement(R, k) \in Seq(Byte) /\ k = Len(complement(R, k))
         /\ \A j \in 1..k : complement(R, k)[j] = lacking(R, 8 * (j - 1))
<1>1. \A j \in 1..k : lacking(R, 8 * (j - 1)) \in Byte
  <2> TAKE j \in 1..k
  <2>1. 8 * (j - 1) \in Nat
    OBVIOUS
  <2> QED
    BY <2>1, LackingBits
<1>2. complement(R, k) \in [1..k -> Byte]
  BY <1>1 DEF complement
<1>3. \A j \in 1..k : complement(R, k)[j] = lacking(R, 8 * (j - 1))
  BY DEF complement
<1>4. complement(R, k) \in Seq(Byte) /\ k = Len(complement(R, k))
  BY ONLY <1>2, k \in Nat
<1> QED
  BY <1>3, <1>4

Tailed(table, start, body, R, k, w) ==
    /\ R \in SUBSET (0..(w - 1))
    /\ \E f : /\ Tail1(f, table, R, k)
              /\ crcCompute(table, start, body \o complement(R, k)) = f[k]

\* Behind the body, the CRC goes on from the body's over the trailer.
LEMMA CrcTail ==
  ASSUME NEW w \in Nat, NEW table \in [SUBSET (0..7) -> SUBSET (0..(w - 1))],
         NEW start \in SUBSET (0..(w - 1)), NEW body \in Seq(Byte), NEW L \in Nat, L = Len(body), NEW k \in Nat,
         NEW R, R = crcCompute(table, start, body)
  PROVE  Tailed(table, start, body, R, k, w)
<1> DEFINE C == complement(R, k)
<1>1. C \in Seq(Byte) /\ k = Len(C) /\ \A j \in 1..k : C[j] = lacking(R, 8 * (j - 1))
  BY ComplementTyped
<1>2. PICK g : g = body \o C
  OBVIOUS
<1> HIDE DEF C
<1>3. Joined(g, Byte, body, L, C, k)
  BY <1>1, <1>2, Concatenated
<1>4. PICK n \in Nat : n = L + k
  OBVIOUS
<1>5. /\ g \in Seq(Byte) /\ n = Len(g)
      /\ \A j \in 1..L : g[j] = body[j]
      /\ \A j \in 1..k : g[L + j] = C[j]
  BY <1>3, <1>4 DEF Joined
<1>6. PICK b : crcCompute(table, start, body) = b[L] /\ CrcStepped(b, table, start, body, L, w)
  BY CrcComputes
<1>7. PICK c : crcCompute(table, start, g) = c[n] /\ CrcStepped(c, table, start, g, n, w)
  BY <1>5, CrcComputes
<1>8. /\ b[0] = start /\ \A i \in 0..L : b[i] \in SUBSET (0..(w - 1))
      /\ \A i \in 1..L : b[i] = crcUpdate(table, b[i - 1], body[i])
  BY <1>6 DEF CrcStepped
<1>9. /\ c[0] = start /\ \A i \in 1..n : c[i] = crcUpdate(table, c[i - 1], g[i])
  BY <1>7 DEF CrcStepped
<1> DEFINE T == {i \in 0..L : c[i] = b[i]}
<1>10. 0 \in T
  <2>1. 0 \in 0..L
    OBVIOUS
  <2> QED
    BY <1>8, <1>9, <2>1
<1>11. ASSUME NEW i \in 1..L, i - 1 \in T
       PROVE  i \in T
  <2>1. i \in 1..n /\ i \in 0..L
    BY ONLY i \in 1..L, L \in Nat, k \in Nat, <1>4
  <2>2. c[i - 1] = b[i - 1]
    BY <1>11
  <2> QED
    BY ZenonT(30), <1>5, <1>8, <1>9, <2>1, <2>2
<1> HIDE DEF T
<1>12. 0..L \subseteq T
  BY <1>10, <1>11, UpTo
<1>13. c[L] = R
  <2>1. L \in T
    BY <1>12
  <2> QED
    BY <1>6, <2>1 DEF T
<1> DEFINE f == [j \in 0..k |-> c[L + j]]
<1>14. f[0] = R /\ c[n] = f[k]
  <2>1. 0 \in 0..k /\ k \in 0..k /\ L + 0 = L
    OBVIOUS
  <2> QED
    BY <1>4, <1>13, <2>1
<1>15. ASSUME NEW j \in 1..k
       PROVE  f[j] = crcUpdate(table, f[j - 1], lacking(R, 8 * (j - 1)))
  <2>1. /\ L + j \in 1..n /\ (L + j) - 1 = L + (j - 1) /\ j \in 0..k /\ j - 1 \in 0..k
    BY ONLY j \in 1..k, k \in Nat, L \in Nat, <1>4
  <2>2. f[j] = c[L + j] /\ f[j - 1] = c[L + (j - 1)]
    BY ONLY <2>1 DEF f
  <2>3. c[L + j] = crcUpdate(table, c[L + (j - 1)], g[L + j])
    BY <1>9, <2>1
  <2>4. g[L + j] = lacking(R, 8 * (j - 1))
    BY <1>1, <1>5
  <2> QED
    BY ONLY <2>2, <2>3, <2>4
<1> HIDE DEF f
<1>16. Tail1(f, table, R, k)
  BY <1>14, <1>15 DEF Tail1
<1>17. L \in 0..L
  OBVIOUS
<1> QED
  BY <1>2, <1>6, <1>7, <1>8, <1>14, <1>16, <1>17 DEF C, Tailed

\* What the first byte of a trailer finds: the register, and nothing folded in.
LEMMA SymDiffs ==
  ASSUME NEW R, R \subseteq Nat
  PROVE  shiftRight(R, 0) = R /\ SymDiff({}, R) = R /\ SymDiff(R, {}) = R
<1>1. shiftRight(R, 0) = R
  <2>1. 0 \in Nat /\ \A x \in Nat : x + 0 = x
    OBVIOUS
  <2>2. shiftRight(R, 0) \subseteq Nat /\ \A x \in Nat : x \in shiftRight(R, 0) <=> x + 0 \in R
    BY <2>1, Shifted
  <2> QED
    BY <2>1, <2>2
<1> QED
  BY <1>1 DEF SymDiff

\* A byte of the complement takes K to K2, by the table entry T of index i.
Folds1(table, K, i, T, K2) ==
    /\ K \subseteq Nat /\ T \subseteq Nat /\ K2 \subseteq Nat
    /\ i = (0..7) \ K /\ table[i] = T
    /\ \A x \in Nat : x \in K2 <=> ~(x \in T <=> x + 8 \in K)

Folded(R, n, table, K, K2) ==
    crcUpdate(table, SymDiff(K, shiftRight(R, n)), lacking(R, n)) = SymDiff(K2, shiftRight(R, n + 8))

\* A byte of the trailer takes a byte of the register off and leaves what is
\* known of the table.
LEMMA FoldStep ==
  ASSUME NEW R, R \subseteq Nat, NEW n \in Nat, NEW table, NEW K, NEW i, NEW T, NEW K2, Folds1(table, K, i, T, K2)
  PROVE  Folded(R, n, table, K, K2)
<1>1. /\ K \subseteq Nat /\ T \subseteq Nat /\ K2 \subseteq Nat
      /\ i = (0..7) \ K /\ table[i] = T
      /\ \A x \in Nat : x \in K2 <=> ~(x \in T <=> x + 8 \in K)
  BY DEF Folds1
<1>2. shiftRight(K, 8) \subseteq Nat /\ \A x \in Nat : x \in shiftRight(K, 8) <=> x + 8 \in K
  BY <1>1, Shifted
<1>3. SymDiff(T, shiftRight(K, 8)) = K2
  BY ONLY <1>1, <1>2 DEF SymDiff
<1> QED
  BY <1>1, <1>3, CrcStep DEF Folded

\* crcTable has an entry for every byte.
LEMMA TableTyped ==
  ASSUME NEW w \in Nat, w >= 8, NEW poly \in SUBSET (0..(w - 1))
  PROVE  /\ crcTable(poly) \in [SUBSET (0..7) -> SUBSET (0..(w - 1))]
         /\ \A b \in SUBSET (0..7) : crcTable(poly)[b] = divide4(divide4(b, poly), poly)
<1> DEFINE S == SUBSET (0..(w - 1))
<1>1. ASSUME NEW c \in S
      PROVE  divide(c, poly) \in S
  <2>1. shiftRight(c, 1) \in S
    <3> SUFFICES ASSUME NEW y \in shiftRight(c, 1) PROVE y \in 0..(w - 1)
      OBVIOUS
    <3>1. PICK i \in c : i >= 1 /\ y = i - 1
      BY DEF shiftRight
    <3>2. i \in 0..(w - 1)
      OBVIOUS
    <3> QED
      BY <3>1, <3>2
  <2> QED
    BY <2>1 DEF divide, SymDiff
<1>2. poly \in S
  OBVIOUS
<1> HIDE DEF S
<1>3. \A c \in S : divide4(c, poly) \in S
  BY <1>1 DEF divide4
<1>4. SUBSET (0..7) \subseteq S
  BY DEF S
<1>5. \A b \in SUBSET (0..7) : divide4(divide4(b, poly), poly) \in S
  BY <1>3, <1>4
<1> QED
  BY <1>5 DEF crcTable, S

\* crc16 (crc.go): every body followed by the complement of its CRC, low byte first,
\* leaves the value that finishPacket tests for.
THEOREM Crc16Good ==
  ASSUME NEW body \in Seq(Byte)
  PROVE  crc16Compute(body \o complement(crc16Compute(body), 2)) = crc16Test
<1> DEFINE start == 0..15
           R == crcCompute(crc16Table, start, body)
<1>0. PICK w \in Nat : w = 16
  OBVIOUS
<1>1. start \in SUBSET (0..(w - 1)) /\ w >= 8 /\ crc16Poly \in SUBSET (0..(w - 1))
  BY <1>0, Constants16
<1>2. /\ crc16Table \in [SUBSET (0..7) -> SUBSET (0..(w - 1))]
      /\ \A b \in SUBSET (0..7) : crc16Table[b] = divide4(divide4(b, crc16Poly), crc16Poly)
  BY <1>1, TableTyped DEF crc16Table
<1>3. PICK L \in Nat : L = Len(body)
  BY LenProperties
<1> HIDE DEF start
<1>4. R = crcCompute(crc16Table, start, body)
  OBVIOUS
<1> HIDE DEF R
<1>5. PICK k \in Nat : k = 2
  OBVIOUS
<1>6. Tailed(crc16Table, start, body, R, k, w)
  BY <1>1, <1>2, <1>3, <1>4, CrcTail
<1>7. PICK f : Tail1(f, crc16Table, R, k) /\ crcCompute(crc16Table, start, body \o complement(R, k)) = f[k]
  BY <1>6 DEF Tailed
<1>8. R \in SUBSET (0..(w - 1)) /\ R \subseteq Nat
  BY <1>6 DEF Tailed
<1>9. f[0] = SymDiff({}, shiftRight(R, 0))
  BY <1>7, <1>8, SymDiffs DEF Tail1
<1>10. crc16Table[{0, 1, 2, 3, 4, 5, 6, 7}] = {3, 4, 5, 6, 8, 9, 10, 11}
  <2>1. {0, 1, 2, 3, 4, 5, 6, 7} \in SUBSET (0..7)
    OBVIOUS
  <2> QED
    BY <1>2, <2>1, Entry16a
<1>11. Folds1(crc16Table, {}, {0, 1, 2, 3, 4, 5, 6, 7}, {3, 4, 5, 6, 8, 9, 10, 11}, {3, 4, 5, 6, 8, 9, 10, 11})
  BY <1>10, SMT DEF Folds1
<1>12. f[1] = SymDiff({3, 4, 5, 6, 8, 9, 10, 11}, shiftRight(R, 8))
  <2>1. 0 \in Nat /\ 0 + 8 = 8 /\ 8 * (1 - 1) = 0 /\ 1 \in 1..k /\ 1 - 1 = 0
    BY <1>5
  <2>2. f[1] = crcUpdate(crc16Table, f[0], lacking(R, 0))
    BY <1>7, <2>1 DEF Tail1
  <2>3. PICK n \in Nat : n = 0
    OBVIOUS
  <2>4. Folded(R, n, crc16Table, {}, {3, 4, 5, 6, 8, 9, 10, 11})
    BY ONLY <1>8, <1>11, n \in Nat, FoldStep
  <2> QED
    BY ONLY <1>9, <2>1, <2>2, <2>3, <2>4 DEF Folded
<1>13. crc16Table[{0, 1, 2, 7}] = {0, 1, 2, 4, 5, 7, 12, 13, 14, 15}
  <2>1. {0, 1, 2, 7} \in SUBSET (0..7)
    OBVIOUS
  <2> QED
    BY <1>2, <2>1, Entry16b
<1>14. Folds1(crc16Table, {3, 4, 5, 6, 8, 9, 10, 11}, {0, 1, 2, 7}, {0, 1, 2, 4, 5, 7, 12, 13, 14, 15}, {3, 4, 5, 7, 12, 13, 14, 15})
  BY <1>13, SMT DEF Folds1
<1>15. f[2] = SymDiff({3, 4, 5, 7, 12, 13, 14, 15}, shiftRight(R, 16))
  <2>1. 8 \in Nat /\ 8 + 8 = 16 /\ 8 * (2 - 1) = 8 /\ 2 \in 1..k /\ 2 - 1 = 1
    BY <1>5
  <2>2. f[2] = crcUpdate(crc16Table, f[1], lacking(R, 8))
    BY <1>7, <2>1 DEF Tail1
  <2>3. PICK n \in Nat : n = 8
    OBVIOUS
  <2>4. Folded(R, n, crc16Table, {3, 4, 5, 6, 8, 9, 10, 11}, {3, 4, 5, 7, 12, 13, 14, 15})
    BY ONLY <1>8, <1>14, n \in Nat, FoldStep
  <2> QED
    BY ONLY <1>12, <2>1, <2>2, <2>3, <2>4 DEF Folded
<1>16. shiftRight(R, 16) = {}
  <2>1. \A i \in 0..(w - 1) : ~(i >= 16)
    BY <1>0
  <2> QED
    BY <1>8, <2>1 DEF shiftRight
<1>17. f[2] = {3, 4, 5, 7, 12, 13, 14, 15}
  BY <1>15, <1>16, SymDiffs
<1> QED
  BY <1>4, <1>5, <1>7, <1>17, Constants16 DEF crc16Compute, start

\* crc32 (crc.go): the same with four bytes.
THEOREM Crc32Good ==
  ASSUME NEW body \in Seq(Byte)
  PROVE  crc32Compute(body \o complement(crc32Compute(body), 4)) = crc32Test
<1> DEFINE start == 0..31
           R == crcCompute(crc32Table, start, body)
<1>0. PICK w \in Nat : w = 32
  OBVIOUS
<1>1. start \in SUBSET (0..(w - 1)) /\ w >= 8 /\ crc32Poly \in SUBSET (0..(w - 1))
  BY <1>0, Constants32
<1>2. /\ crc32Table \in [SUBSET (0..7) -> SUBSET (0..(w - 1))]
      /\ \A b \in SUBSET (0..7) : crc32Table[b] = divide4(divide4(b, crc32Poly), crc32Poly)
  BY <1>1, TableTyped DEF crc32Table
<1>3. PICK L \in Nat : L = Len(body)
  BY LenProperties
<1> HIDE DEF start
<1>4. R = crcCompute(crc32Table, start, body)
  OBVIOUS
<1> HIDE DEF R
<1>5. PICK k \in Nat : k = 4
  OBVIOUS
<1>6. Tailed(crc32Table, start, body, R, k, w)
  BY <1>1, <1>2, <1>3, <1>4, CrcTail
<1>7. PICK f : Tail1(f, crc32Table, R, k) /\ crcCompute(crc32Table, start, body \o complement(R, k)) = f[k]
  BY <1>6 DEF Tailed
<1>8. R \in SUBSET (0..(w - 1)) /\ R \subseteq Nat
  BY <1>6 DEF Tailed
<1>9. f[0] = SymDiff({}, shiftRight(R, 0))
  BY <1>7, <1>8, SymDiffs DEF Tail1
<1>10. crc32Table[{0, 1, 2, 3, 4, 5, 6, 7}] = {0, 2, 3, 7, 8, 9, 10, 11, 13, 14, 15, 17, 24, 26, 27, 29}
  <2>1. {0, 1, 2, 3, 4, 5, 6, 7} \in SUBSET (0..7)
    OBVIOUS
  <2> QED
    BY <1>2, <2>1, Entry32a
<1>11. Folds1(crc32Table, {}, {0, 1, 2, 3, 4, 5, 6, 7}, {0, 2, 3, 7, 8, 9, 10, 11, 13, 14, 15, 17, 24, 26, 27, 29}, {0, 2, 3, 7, 8, 9, 10, 11, 13, 14, 15, 17, 24, 26, 27, 29})
  BY <1>10, SMT DEF Folds1
<1>12. f[1] = SymDiff({0, 2, 3, 7, 8, 9, 10, 11, 13, 14, 15, 17, 24, 26, 27, 29}, shiftRight(R, 8))
  <2>1. 0 \in Nat /\ 0 + 8 = 8 /\ 8 * (1 - 1) = 0 /\ 1 \in 1..k /\ 1 - 1 = 0
    BY <1>5
  <2>2. f[1] = crcUpdate(crc32Table, f[0], lacking(R, 0))
    BY <1>7, <2>1 DEF Tail1
  <2>3. PICK n \in Nat : n = 0
    OBVIOUS
  <2>4. Folded(R, n, crc32Table, {}, {0, 2, 3, 7, 8, 9, 10, 11, 13, 14, 15, 17, 24, 26, 27, 29})
    BY ONLY <1>8, <1>11, n \in Nat, FoldStep
  <2> QED
    BY ONLY <1>9, <2>1, <2>2, <2>3, <2>4 DEF Folded
<1>13. crc32Table[{1, 4, 5, 6}] = {4, 12, 16, 17, 19, 25, 26, 27, 28, 29, 31}
  <2>1. {1, 4, 5, 6} \in SUBSET (0..7)
    OBVIOUS
  <2> QED
    BY <1>2, <2>1, Entry32b
<1>14. Folds1(crc32Table, {0, 2, 3, 7, 8, 9, 10, 11, 13, 14, 15, 17, 24, 26, 27, 29}, {1, 4, 5, 6}, {4, 12, 16, 17, 19, 25, 26, 27, 28, 29, 31}, {0, 1, 2, 3, 4, 5, 6, 7, 9, 12, 17, 18, 21, 25, 26, 27, 28, 29, 31})
  BY <1>13, SMT DEF Folds1
<1>15. f[2] = SymDiff({0, 1, 2, 3, 4, 5, 6, 7, 9, 12, 17, 18, 21, 25, 26, 27, 28, 29, 31}, shiftRight(R, 16))
  <2>1. 8 \in Nat /\ 8 + 8 = 16 /\ 8 * (2 - 1) = 8 /\ 2 \in 1..k /\ 2 - 1 = 1
    BY <1>5
  <2>2. f[2] = crcUpdate(crc32Table, f[1], lacking(R, 8))
    BY <1>7, <2>1 DEF Tail1
  <2>3. PICK n \in Nat : n = 8
    OBVIOUS
  <2>4. Folded(R, n, crc32Table, {0, 2, 3, 7, 8, 9, 10, 11, 13, 14, 15, 17, 24, 26, 27, 29}, {0, 1, 2, 3, 4, 5, 6, 7, 9, 12, 17, 18, 21, 25, 26, 27, 28, 29, 31})
    BY ONLY <1>8, <1>14, n \in Nat, FoldStep
  <2> QED
    BY ONLY <1>12, <2>1, <2>2, <2>3, <2>4 DEF Folded
<1>16. crc32Table[{}] = {}
  <2>1. divide({}, crc32Poly) = {}
    BY DEF divide, shiftRight
  <2> QED
    BY <1>2, <2>1 DEF divide4
<1>17. Folds1(crc32Table, {0, 1, 2, 3, 4, 5, 6, 7, 9, 12, 17, 18, 21, 25, 26, 27, 28, 29, 31}, {}, {}, {1, 4, 9, 10, 13, 17, 18, 19, 20, 21, 23})
  <2> DEFINE K == {0, 1, 2, 3, 4, 5, 6, 7, 9, 12, 17, 18, 21, 25, 26, 27, 28, 29, 31}
  <2>1. {} = (0..7) \ K
    BY SMT
  <2>2. \A x \in Nat : x \in {1, 4, 9, 10, 13, 17, 18, 19, 20, 21, 23} <=> x + 8 \in K
    BY SMT
  <2>3. K \subseteq Nat /\ {1, 4, 9, 10, 13, 17, 18, 19, 20, 21, 23} \subseteq Nat
    BY SMT
  <2> QED
    BY <1>16, <2>1, <2>2, <2>3 DEF Folds1
<1>18. f[3] = SymDiff({1, 4, 9, 10, 13, 17, 18, 19, 20, 21, 23}, shiftRight(R, 24))
  <2>1. 16 \in Nat /\ 16 + 8 = 24 /\ 8 * (3 - 1) = 16 /\ 3 \in 1..k /\ 3 - 1 = 2
    BY <1>5
  <2>2. f[3] = crcUpdate(crc32Table, f[2], lacking(R, 16))
    BY <1>7, <2>1 DEF Tail1
  <2>3. PICK n \in Nat : n = 16
    OBVIOUS
  <2>4. Folded(R, n, crc32Table, {0, 1, 2, 3, 4, 5, 6, 7, 9, 12, 17, 18, 21, 25, 26, 27, 28, 29, 31}, {1, 4, 9, 10, 13, 17, 18, 19, 20, 21, 23})
    BY ONLY <1>8, <1>17, n \in Nat, FoldStep
  <2> QED
    BY ONLY <1>15, <2>1, <2>2, <2>3, <2>4 DEF Folded
<1>19. crc32Table[{0, 2, 3, 5, 6, 7}] = {0, 2, 6, 7, 9, 10, 11, 12, 15, 16, 17, 19, 20, 21, 23, 25, 26, 27, 28, 30, 31}
  <2>1. {0, 2, 3, 5, 6, 7} \in SUBSET (0..7)
    OBVIOUS
  <2> QED
    BY <1>2, <2>1, Entry32d
<1>20. Folds1(crc32Table, {1, 4, 9, 10, 13, 17, 18, 19, 20, 21, 23}, {0, 2, 3, 5, 6, 7}, {0, 2, 6, 7, 9, 10, 11, 12, 15, 16, 17, 19, 20, 21, 23, 25, 26, 27, 28, 30, 31}, {0, 1, 5, 6, 7, 13, 16, 17, 19, 20, 21, 23, 25, 26, 27, 28, 30, 31})
  BY SMTT(30), <1>19, SMT DEF Folds1
<1>21. f[4] = SymDiff({0, 1, 5, 6, 7, 13, 16, 17, 19, 20, 21, 23, 25, 26, 27, 28, 30, 31}, shiftRight(R, 32))
  <2>1. 24 \in Nat /\ 24 + 8 = 32 /\ 8 * (4 - 1) = 24 /\ 4 \in 1..k /\ 4 - 1 = 3
    BY <1>5
  <2>2. f[4] = crcUpdate(crc32Table, f[3], lacking(R, 24))
    BY <1>7, <2>1 DEF Tail1
  <2>3. PICK n \in Nat : n = 24
    OBVIOUS
  <2>4. Folded(R, n, crc32Table, {1, 4, 9, 10, 13, 17, 18, 19, 20, 21, 23}, {0, 1, 5, 6, 7, 13, 16, 17, 19, 20, 21, 23, 25, 26, 27, 28, 30, 31})
    BY ONLY <1>8, <1>20, n \in Nat, FoldStep
  <2> QED
    BY ONLY <1>18, <2>1, <2>2, <2>3, <2>4 DEF Folded
<1>22. shiftRight(R, 32) = {}
  <2>1. \A i \in 0..(w - 1) : ~(i >= 32)
    BY <1>0
  <2> QED
    BY <1>8, <2>1 DEF shiftRight
<1>23. f[4] = {0, 1, 5, 6, 7, 13, 16, 17, 19, 20, 21, 23, 25, 26, 27, 28, 30, 31}
  <2>1. \A X : SymDiff(X, {}) = X
    BY ONLY TRUE DEF SymDiff
  <2> QED
    BY ONLY <1>21, <1>22, <2>1
<1> QED
  BY <1>4, <1>5, <1>7, <1>23, Constants32 DEF crc32Compute, start

=============================================================================
