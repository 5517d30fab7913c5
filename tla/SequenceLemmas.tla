--------------------------- MODULE SequenceLemmas ---------------------------
(***************************************************************************)
(* What the proofs use of sequences and of numbers, whatever they model:   *)
(* queues, parts and concatenations, sequences without repetition, the     *)
(* least of a set of numbers, and that what is given step by step exists.  *)
(***************************************************************************)
EXTENDS Integers, Sequences, SequencesExt, SequenceTheorems, FiniteSetTheorems,
        WellFoundedInduction, TLAPS

(* Taking the head of a queue and adding one at its end. *)
LEMMA TailIndex ==
  ASSUME NEW S, NEW s \in Seq(S), s # <<>>
  PROVE  /\ Tail(s) \in Seq(S) /\ Head(s) \in S /\ Head(s) = s[1]
         /\ Len(s) \in Nat /\ Len(s) >= 1 /\ Len(Tail(s)) = Len(s) - 1
         /\ \A i \in 1..Len(Tail(s)) : Tail(s)[i] = s[i + 1]
  BY HeadTailProperties, LenProperties, EmptySeq, ElementOfSeq

LEMMA AppendIndex ==
  ASSUME NEW S, NEW s \in Seq(S), NEW m \in S
  PROVE  /\ Append(s, m) \in Seq(S)
         /\ Len(s) \in Nat /\ Len(Append(s, m)) = Len(s) + 1
         /\ \A i \in 1..Len(s) : Append(s, m)[i] = s[i]
         /\ Append(s, m)[Len(s) + 1] = m
  BY AppendProperties, LenProperties

LEMMA ConcatOne ==
  ASSUME NEW S, NEW s \in Seq(S), NEW e \in Seq(S), e # <<>>, Len(e) <= 1
  PROVE  /\ e[1] \in S /\ Len(e) = 1 /\ s \o e \in Seq(S)
         /\ Len(s) \in Nat /\ Len(s \o e) = Len(s) + 1
         /\ \A i \in 1..Len(s) : (s \o e)[i] = s[i]
         /\ (s \o e)[Len(s) + 1] = e[1]
<1>0. Len(e) \in Nat /\ Len(e) >= 1
  BY TailIndex
<1>1. Len(e) = 1
  <2>1. \A n \in Nat : n >= 1 /\ n <= 1 => n = 1
    OBVIOUS
  <2> QED
    BY <1>0, <2>1, Zenon
<1>2. e[1] \in S
  BY <1>1, ElementOfSeq
<1> QED
  BY <1>1, <1>2, ConcatProperties, LenProperties, SMTT(60)

-----------------------------------------------------------------------------
(* A set of numbers that is not empty has a least one. *)
LEMMA LeastNat ==
  ASSUME NEW T \in SUBSET Nat, T # {}
  PROVE  \E m \in T : \A k \in T : m <= k
<1> DEFINE R == {ss \in Nat \X Nat : ss[1] < ss[2]}
<1>1. R = OpToRel(<, Nat)
  BY Zenon DEF OpToRel
<1>2. IsWellFoundedOn(R, Nat)
  BY <1>1, NatLessThanWellFounded, Zenon
<1>3. \A x, y \in Nat : x < y => <<x, y>> \in R
  OBVIOUS
<1> HIDE DEF R
<1>4. PICK m \in T : \A y \in T : ~(<<y, m>> \in R)
  BY <1>2, WFMin, Zenon
<1>5. \A y \in T : ~(y < m)
  BY <1>3, <1>4
<1> QED
  BY <1>5

LEMMA LeastElement ==
  ASSUME NEW T \in SUBSET Nat, T # {}
  PROVE  \E m \in T : \A k \in Nat : k < m => k \notin T
<1>1. PICK m \in T : \A k \in T : m <= k
  BY LeastNat
<1>2. \A k \in Nat : k < m => k \notin T
  BY <1>1
<1> QED
  BY <1>2

LEMMA MinIsLeast ==
  ASSUME NEW T \in SUBSET Nat, T # {}
  PROVE  Min(T) \in T /\ \A k \in T : Min(T) <= k
BY LeastNat DEF Min

LEMMA MinIs ==
  ASSUME NEW T \in SUBSET Nat, NEW m \in T, \A k \in T : m <= k
  PROVE  Min(T) = m
<1>1. PICK n \in T : n = Min(T) /\ n <= m
  BY MinIsLeast
<1>2. n \in Nat /\ m \in Nat /\ m <= n
  BY <1>1
<1> QED
  BY <1>1, <1>2

LEMMA PartOfPrefix ==
  ASSUME NEW S, NEW s \in Seq(S), NEW t \in Seq(S),
         NEW m \in Nat, NEW n \in Nat, m >= 1, n <= Len(s)
  PROVE  SubSeq(s \o t, m, n) = SubSeq(s, m, n)
<1>1. CASE n < m
  BY <1>1, SubSeqEmpty
<1>2. CASE m <= n
  BY <1>2, SubSeqOfConcat1, LenProperties
<1> QED
  BY <1>1, <1>2

LEMMA PartType ==
  ASSUME NEW S, NEW s \in Seq(S), NEW m \in Nat, NEW n \in Nat, m >= 1, n <= Len(s)
  PROVE  /\ SubSeq(s, m, n) \in Seq(S)
         /\ Len(SubSeq(s, m, n)) = IF m <= n THEN n - m + 1 ELSE 0
         /\ \A i \in 1..(n - m + 1) : SubSeq(s, m, n)[i] = s[m + i - 1]
<1>1. \A i \in m..n : s[i] \in S
  BY ElementOfSeq, LenProperties
<1> QED
  BY <1>1, SubSeqProperties

LEMMA PartIs ==
  ASSUME NEW S, NEW s \in Seq(S), NEW t \in Seq(S), NEW m \in Nat, NEW n \in Nat,
         m >= 1, n <= Len(s), Len(t) = n - m + 1,
         \A i \in 1..Len(t) : t[i] = s[m + i - 1]
  PROVE  SubSeq(s, m, n) = t
<1> DEFINE u == SubSeq(s, m, n)
<1>1. Len(t) \in Nat
  BY LenProperties
<1>2. u \in Seq(S) /\ Len(u) = Len(t) /\ \A i \in 1..Len(t) : u[i] = s[m + i - 1]
  BY <1>1, PartType
<1> HIDE DEF u
<1>3. u = t
  BY <1>2, SeqEqual
<1> QED
  BY <1>3 DEF u

LEMMA ConcatIs ==
  ASSUME NEW S, NEW s \in Seq(S), NEW t \in Seq(S), NEW u \in Seq(S),
         Len(u) = Len(s) + Len(t),
         \A i \in 1..Len(s) : u[i] = s[i],
         \A i \in 1..Len(t) : u[Len(s) + i] = t[i]
  PROVE  s \o t = u
<1>0. Len(s) \in Nat /\ Len(t) \in Nat
  BY LenProperties
<1>1. /\ s \o t \in Seq(S) /\ Len(s \o t) = Len(u)
      /\ \A i \in 1..Len(u) : (s \o t)[i] = IF i <= Len(s) THEN s[i] ELSE t[i - Len(s)]
  BY ConcatProperties
<1>2. ASSUME NEW i \in 1..Len(u) PROVE (s \o t)[i] = u[i]
  <2>1. CASE i <= Len(s)
    BY <1>0, <1>1, <2>1
  <2>2. CASE ~(i <= Len(s))
    <3>1. i - Len(s) \in 1..Len(t) /\ Len(s) + (i - Len(s)) = i
      BY <1>0, <2>2
    <3> QED
      BY <1>1, <2>2, <3>1
  <2> QED
    BY <2>1, <2>2
<1> QED
  BY <1>1, <1>2, SeqEqual

(* What is left after the first n, with more behind it. *)
LEMMA RestOfConcat ==
  ASSUME NEW S, NEW s \in Seq(S), NEW t \in Seq(S), NEW n \in Nat, n <= Len(s)
  PROVE  /\ SubSeq(s, n + 1, Len(s)) \in Seq(S)
         /\ SubSeq(s \o t, n + 1, Len(s \o t)) = SubSeq(s, n + 1, Len(s)) \o t
<1> DEFINE u == SubSeq(s, n + 1, Len(s))
           v == SubSeq(s \o t, n + 1, Len(s \o t))
<1>0. Len(s) \in Nat /\ Len(t) \in Nat
  BY LenProperties
<1>1. s \o t \in Seq(S) /\ Len(s \o t) = Len(s) + Len(t)
  BY ConcatProperties
<1>2. u \in Seq(S) /\ Len(u) = Len(s) - n /\ \A i \in 1..(Len(s) - n) : u[i] = s[n + i]
  BY <1>0, PartType
<1>3. /\ v \in Seq(S) /\ Len(v) = Len(s) + Len(t) - n
      /\ \A i \in 1..(Len(s) + Len(t) - n) : v[i] = (s \o t)[n + i]
  BY <1>0, <1>1, PartType
<1>4. /\ u \o t \in Seq(S) /\ Len(u \o t) = Len(s) - n + Len(t)
      /\ \A i \in 1..(Len(s) - n + Len(t)) :
           (u \o t)[i] = IF i <= Len(s) - n THEN u[i] ELSE t[i - (Len(s) - n)]
  <2> HIDE DEF u
  <2>1. /\ u \o t \in Seq(S) /\ Len(u \o t) = Len(u) + Len(t)
        /\ \A i \in 1..(Len(u) + Len(t)) :
             (u \o t)[i] = IF i <= Len(u) THEN u[i] ELSE t[i - Len(u)]
    BY <1>2, ConcatProperties
  <2>2. Len(u) = Len(s) - n
    BY <1>2
  <2> QED
    BY <2>1, <2>2
<1> HIDE DEF u, v
<1>5. \A i \in 1..(Len(s) + Len(t) - n) : v[i] = (u \o t)[i]
  BY <1>0, <1>2, <1>3, <1>4, ConcatProperties
<1>6. u \o t = v
  <2>1. Len(u \o t) = Len(v)
    BY <1>0, <1>3, <1>4
  <2>2. \A i \in 1..Len(v) : v[i] = (u \o t)[i]
    BY <1>3, <1>5
  <2> QED
    BY <1>3, <1>4, <2>1, <2>2, SeqEqual, Zenon
<1> QED
  BY <1>2, <1>6 DEF u, v

-----------------------------------------------------------------------------
(* f begins with x, and step takes it from one value to the next. *)
Follows(f, x, step) == f[0] = x /\ \A n \in Nat : f[n + 1] = step[n][f[n]]

(* What is given by its beginning and by each step from one value to the   *)
(* next, exists.                                                           *)
LEMMA Recursion ==
  ASSUME NEW S, NEW x \in S, NEW step \in [Nat -> [S -> S]]
  PROVE  \E f \in [Nat -> S] : Follows(f, x, step)
<1> DEFINE Run(k, g) == g[0] = x /\ \A n \in Nat : n < k => g[n + 1] = step[n][g[n]]
<1>0. \A n \in Nat, y \in S : step[n][y] \in S
  OBVIOUS
<1>1. \A k \in Nat : \E g \in [Nat -> S] : Run(k, g)
  <2> DEFINE T == {k \in Nat : ~\E g \in [Nat -> S] : Run(k, g)}
  <2> SUFFICES ASSUME T # {} PROVE FALSE
    OBVIOUS
  <2>1. PICK m \in T : \A k \in Nat : k < m => k \notin T
    <3>1. T \in SUBSET Nat
      OBVIOUS
    <3> HIDE DEF T
    <3> QED
      BY <3>1, LeastElement
  <2>2. m # 0
    <3>1. [n \in Nat |-> x] \in [Nat -> S] /\ Run(0, [n \in Nat |-> x])
      OBVIOUS
    <3> QED
      BY <3>1, <2>1
  <2>3. m - 1 \in Nat /\ m - 1 \notin T
    <3>1. m \in Nat
      OBVIOUS
    <3> HIDE DEF T
    <3> QED
      BY <2>1, <2>2, <3>1
  <2>4. PICK g \in [Nat -> S] : Run(m - 1, g)
    BY <2>3
  <2> DEFINE h == [n \in Nat |-> IF n = m THEN step[m - 1][g[m - 1]] ELSE g[n]]
  <2>5. h \in [Nat -> S]
    BY <1>0, <2>3, <2>4
  <2>6. Run(m, h)
    <3>1. h[0] = x
      BY <2>2, <2>4
    <3>2. ASSUME NEW n \in Nat, n < m PROVE h[n + 1] = step[n][h[n]]
      <4>1. CASE n = m - 1
        BY <2>3, <3>2, <4>1
      <4>2. CASE n < m - 1
        <5>1. h[n + 1] = g[n + 1] /\ h[n] = g[n] /\ g[n + 1] = step[n][g[n]]
          BY <2>3, <2>4, <3>2, <4>2
        <5> QED
          BY <5>1
      <4> QED
        BY <2>3, <3>2, <4>1, <4>2
    <3> QED
      BY <3>1, <3>2
  <2> QED
    BY <2>1, <2>5, <2>6
<1>2. ASSUME NEW k \in Nat, NEW g \in [Nat -> S], NEW h \in [Nat -> S], Run(k, g), Run(k, h)
      PROVE  g[k] = h[k]
  <2> DEFINE T == {n \in Nat : n <= k /\ g[n] # h[n]}
  <2> SUFFICES ASSUME T # {} PROVE FALSE
    OBVIOUS
  <2>1. PICK m \in T : \A n \in Nat : n < m => n \notin T
    <3>1. T \in SUBSET Nat
      OBVIOUS
    <3> HIDE DEF T
    <3> QED
      BY <3>1, LeastElement
  <2>2. m # 0
    BY <1>2, <2>1
  <2>3. m - 1 \in Nat /\ m - 1 \notin T /\ m - 1 < k /\ m - 1 + 1 = m
    BY <2>1, <2>2
  <2>4. g[m - 1] = h[m - 1]
    BY <2>3
  <2>5. g[m] = step[m - 1][g[m - 1]] /\ h[m] = step[m - 1][h[m - 1]]
    BY <1>2, <2>3
  <2> QED
    BY <2>1, <2>4, <2>5
<1> DEFINE run(k) == CHOOSE g \in [Nat -> S] : Run(k, g)
           f == [n \in Nat |-> run(n)[n]]
<1>3. ASSUME NEW n \in Nat
      PROVE  run(n) \in [Nat -> S] /\ Run(n, run(n))
  BY <1>1, Zenon
<1> HIDE DEF run
<1>4. f \in [Nat -> S] /\ \A n \in Nat : f[n] = run(n)[n]
  BY <1>3
<1>5. f[0] = x
  BY <1>3, <1>4
<1>6. ASSUME NEW n \in Nat PROVE f[n + 1] = step[n][f[n]]
  <2>1. n + 1 \in Nat /\ n < n + 1
    OBVIOUS
  <2>2. Run(n, run(n + 1)) /\ run(n + 1)[n + 1] = step[n][run(n + 1)[n]]
    BY <1>3, <2>1
  <2>3. run(n + 1)[n] = run(n)[n]
    BY <1>2, <1>3, <2>1, <2>2
  <2> QED
    BY <1>4, <2>1, <2>2, <2>3
<1> QED
  BY <1>4, <1>5, <1>6 DEF Follows

----------------------------------------------------------------------------
(* f is the concatenation of the first so many of seqs. *)
Joins(S, f, seqs) ==
  /\ f[0] = <<>> /\ \A n \in Nat : f[n] \in Seq(S)
  /\ \A n \in Nat : n < Len(seqs) => f[n + 1] = f[n] \o seqs[n + 1]

LEMMA FlattenSteps ==
  ASSUME NEW S, NEW seqs \in Seq(Seq(S))
  PROVE  \E f : /\ Joins(S, f, seqs)
              /\ \A k \in Nat : k <= Len(seqs) => FlattenSeq(SubSeq(seqs, 1, k)) = f[k]
<1> DEFINE step == [n \in Nat |-> [s \in Seq(S) |->
                      IF n < Len(seqs) THEN s \o seqs[n + 1] ELSE s]]
<1>0. Len(seqs) \in Nat /\ <<>> \in Seq(S) /\ \A i \in 1..Len(seqs) : seqs[i] \in Seq(S)
  BY LenProperties, EmptySeq, ElementOfSeq
<1>1. step \in [Nat -> [Seq(S) -> Seq(S)]]
  <2> SUFFICES ASSUME NEW n \in Nat, NEW s \in Seq(S), n < Len(seqs)
               PROVE  s \o seqs[n + 1] \in Seq(S)
    OBVIOUS
  <2> QED
    BY <1>0, ConcatProperties
<1>2. \A n \in Nat, s \in Seq(S) :
        step[n][s] = IF n < Len(seqs) THEN s \o seqs[n + 1] ELSE s
  OBVIOUS
<1> HIDE DEF step
<1>3. PICK f \in [Nat -> Seq(S)] : Follows(f, <<>>, step)
  BY <1>0, <1>1, Recursion
<1>6. f[0] = <<>> /\ \A n \in Nat : f[n + 1] = step[n][f[n]]
  BY <1>3 DEF Follows
<1>4. \A n \in Nat : n < Len(seqs) => f[n + 1] = f[n] \o seqs[n + 1]
  BY <1>2, <1>6
<1>5. ASSUME NEW k \in Nat, k <= Len(seqs) PROVE FlattenSeq(SubSeq(seqs, 1, k)) = f[k]
  <2> DEFINE part == SubSeq(seqs, 1, k)
  <2>1. /\ part \in Seq(Seq(S)) /\ Len(part) = k
        /\ \A i \in 1..k : part[i] = seqs[i]
    BY <1>0, <1>5, PartType, SMTT(60)
  <2> HIDE DEF part
  <2>2. CASE k = 0
    BY <1>6, <2>1, <2>2, EmptySeq DEF FlattenSeq
  <2>3. CASE k # 0
    <3> DEFINE Is(g) == g = [i \in 1..Len(part) |-> IF i = 1 THEN part[i] ELSE g[i - 1] \o part[i]]
               whole == CHOOSE g : Is(g)
               g0 == [i \in 1..k |-> f[i]]
    <3>1. FlattenSeq(part) = whole[k]
      BY <2>1, <2>3, Zenon DEF FlattenSeq
    <3>2. ASSUME NEW i \in 1..k
          PROVE  f[i] = IF i = 1 THEN part[i] ELSE f[i - 1] \o part[i]
      <4>1. i - 1 \in Nat /\ i - 1 < Len(seqs) /\ i - 1 + 1 = i
        BY <1>0, <1>5
      <4>2. f[i] = f[i - 1] \o part[i]
        BY <1>4, <2>1, <4>1
      <4>3. CASE i = 1
        <5>1. f[i - 1] = <<>>
          BY <1>6, <4>3
        <5>2. part[i] \in Seq(S)
          BY <2>1, ElementOfSeq
        <5>3. <<>> \o part[i] = part[i]
          BY <5>2, ConcatEmptySeq
        <5> QED
          BY <4>2, <4>3, <5>1, <5>3
      <4> QED
        BY <4>2, <4>3
    <3>6. Is(g0)
      <4>1. \A i \in 1..k : i # 1 => g0[i - 1] = f[i - 1]
        OBVIOUS
      <4> QED
        BY <2>1, <3>2, <4>1, SMTT(60)
    <3>3. Is(whole)
      BY <3>6, Zenon
    <3> HIDE DEF whole
    <3>4. \A i \in 1..k : whole[i] = IF i = 1 THEN part[i] ELSE whole[i - 1] \o part[i]
      BY <2>1, <3>3
    <3> DEFINE T == {i \in Nat : i \in 1..k /\ whole[i] # f[i]}
    <3>5. T = {}
      <4> SUFFICES ASSUME T # {} PROVE FALSE
        OBVIOUS
      <4>1. PICK m \in T : \A i \in Nat : i < m => i \notin T
        <5>1. T \in SUBSET Nat
          OBVIOUS
        <5> HIDE DEF T
        <5> QED
          BY <5>1, LeastElement
      <4>2. m \in 1..k /\ whole[m] # f[m]
        BY <4>1
      <4>3. f[m] = IF m = 1 THEN part[m] ELSE f[m - 1] \o part[m]
        BY <3>2, <4>2
      <4>4. m # 1
        BY <3>4, <4>2, <4>3
      <4>5. m - 1 \in 1..k /\ m - 1 \in Nat /\ m - 1 < m
        BY <4>2, <4>4
      <4>6. whole[m - 1] = f[m - 1]
        BY <4>1, <4>5
      <4>7. whole[m] = whole[m - 1] \o part[m]
        BY <3>4, <4>2, <4>4
      <4> QED
        BY <4>2, <4>3, <4>4, <4>6, <4>7
    <3>7. k \in 1..k
      BY <2>3
    <3>8. whole[k] = f[k]
      BY <3>5, <3>7
    <3> QED
      BY <3>1, <3>8, Zenon DEF part
  <2> QED
    BY <2>2, <2>3 DEF part
<1> QED
  BY <1>4, <1>5, <1>6 DEF Joins

(* b begins with a. *)
Begins(S, a, b) == \E z \in Seq(S) : b = a \o z

LEMMA BeginsSame ==
  ASSUME NEW S, NEW a \in Seq(S)
  PROVE  Begins(S, a, a)
<1>1. a = a \o <<>> /\ <<>> \in Seq(S)
  BY ConcatEmptySeq, EmptySeq
<1> QED
  BY <1>1 DEF Begins

LEMMA BeginsLonger ==
  ASSUME NEW S, NEW a \in Seq(S), NEW b, NEW p \in Seq(S), Begins(S, a, b)
  PROVE  Begins(S, a, b \o p)
<1>1. PICK z \in Seq(S) : b = a \o z
  BY DEF Begins
<1>2. z \o p \in Seq(S)
  BY ConcatProperties
<1>3. (a \o z) \o p = a \o (z \o p)
  BY ConcatAssociative
<1> QED
  BY <1>1, <1>2, <1>3 DEF Begins

(* The concatenation of more of seqs begins with the one of fewer. *)
LEMMA JoinsGrows ==
  ASSUME NEW S, NEW seqs \in Seq(Seq(S)), NEW f, Joins(S, f, seqs),
         NEW k \in Nat, NEW m \in Nat, k <= m, m <= Len(seqs)
  PROVE  Begins(S, f[k], f[m])
<1> DEFINE T == {n \in Nat : k <= n /\ n <= Len(seqs) /\ ~Begins(S, f[k], f[n])}
<1> SUFFICES ASSUME T # {} PROVE FALSE
  OBVIOUS
<1>0. Len(seqs) \in Nat
  BY LenProperties
<1>1. PICK n \in T : \A i \in Nat : i < n => i \notin T
  <2>1. T \in SUBSET Nat
    OBVIOUS
  <2> HIDE DEF T
  <2> QED
    BY <2>1, LeastElement
<1>2. n \in Nat /\ k <= n /\ n <= Len(seqs) /\ ~Begins(S, f[k], f[n])
  BY <1>1
<1>3. f[k] \in Seq(S)
  BY DEF Joins
<1>4. n # k
  BY <1>2, <1>3, BeginsSame
<1>5. /\ n - 1 \in Nat /\ n - 1 < n /\ k <= n - 1 /\ n - 1 < Len(seqs) /\ n - 1 <= Len(seqs)
      /\ n - 1 + 1 = n
  <2>1. \A a, b, c \in Nat : a <= b /\ b <= c /\ b # a =>
          /\ b - 1 \in Nat /\ b - 1 < b /\ a <= b - 1 /\ b - 1 < c /\ b - 1 <= c
          /\ b - 1 + 1 = b
    OBVIOUS
  <2> QED
    BY <1>0, <1>2, <1>4, <2>1, Zenon
<1>6. Begins(S, f[k], f[n - 1])
  BY <1>1, <1>5
<1>7. f[n] = f[n - 1] \o seqs[n] /\ seqs[n] \in Seq(S)
  <2>1. f[n - 1 + 1] = f[n - 1] \o seqs[n - 1 + 1]
    BY <1>5 DEF Joins
  <2>2. n \in 1..Len(seqs)
    BY <1>0, <1>2, <1>5
  <2>3. seqs[n] \in Seq(S)
    BY <2>2, ElementOfSeq
  <2> QED
    BY <1>5, <2>1, <2>3
<1> HIDE DEF T
<1>8. Begins(S, f[k], f[n - 1] \o seqs[n])
  BY <1>3, <1>6, <1>7, BeginsLonger, Zenon
<1> QED
  BY <1>2, <1>7, <1>8

LEMMA PrefixIs ==
  ASSUME NEW S, NEW s \in Seq(S), NEW t \in Seq(S)
  PROVE  IsPrefix(s, t) <=> Begins(S, s, t)
<1>0. Len(s) \in Nat /\ Len(t) \in Nat
  BY LenProperties
<1>1. SubSeq(s, 1, Len(s)) = s
  BY SubSeqFull
<1>2. ASSUME IsPrefix(s, t) PROVE \E z \in Seq(S) : t = s \o z
  <2>1. Len(s) <= Len(t) /\ SubSeq(t, 1, Len(s)) = s
    BY <1>1, <1>2 DEF IsPrefix
  <2>2. SubSeq(t, Len(s) + 1, Len(t)) \in Seq(S)
    BY <1>0, <2>1, PartType
  <2>3. t = SubSeq(t, 1, Len(s)) \o SubSeq(t, Len(s) + 1, Len(t))
    <3>1. /\ 1 \in 1..(Len(t) + 1) /\ Len(s) \in (1 - 1)..Len(t)
          /\ Len(t) \in Len(s)..Len(t)
      BY <1>0, <2>1
    <3>2. SubSeq(t, 1, Len(s)) \o SubSeq(t, Len(s) + 1, Len(t)) = SubSeq(t, 1, Len(t))
      BY <3>1, ConcatAdjacentSubSeq
    <3> QED
      BY <3>2, SubSeqFull
  <2> QED
    BY <2>1, <2>2, <2>3
<1>3. ASSUME NEW z \in Seq(S), t = s \o z PROVE IsPrefix(s, t)
  <2>1. Len(t) = Len(s) + Len(z) /\ Len(z) \in Nat
    BY <1>3, ConcatProperties, LenProperties
  <2>2. SubSeq(s \o z, 1, Len(s)) = SubSeq(s, 1, Len(s))
    BY <1>0, PartOfPrefix
  <2> QED
    BY <1>0, <1>3, <2>1, <2>2 DEF IsPrefix
<1> QED
  BY <1>2, <1>3 DEF Begins

LEMMA SuffixIs ==
  ASSUME NEW S, NEW s \in Seq(S), NEW z \in Seq(S)
  PROVE  IsSuffix(s, z \o s)
<1>0. Len(s) \in Nat /\ Len(z) \in Nat
  BY LenProperties
<1>1. z \o s \in Seq(S) /\ Len(z \o s) = Len(z) + Len(s)
  BY ConcatProperties
<1> DEFINE r == Reverse(s)
           w == Reverse(z \o s)
<1>2. /\ r \in Seq(S) /\ Len(r) = Len(s)
      /\ \A i \in 1..Len(s) : r[i] = s[Len(s) - i + 1]
  BY <1>0, ElementOfSeq DEF Reverse
<1>3. /\ w \in Seq(S) /\ Len(w) = Len(z) + Len(s)
      /\ \A i \in 1..(Len(z) + Len(s)) : w[i] = (z \o s)[Len(z) + Len(s) - i + 1]
  BY <1>0, <1>1, ElementOfSeq DEF Reverse
<1>4. \A i \in 1..Len(s) : w[i] = r[i]
  <2> TAKE i \in 1..Len(s)
  <2> DEFINE j == Len(z) + Len(s) - i + 1
  <2>1. j \in 1..(Len(z) + Len(s)) /\ ~(j <= Len(z)) /\ j - Len(z) = Len(s) - i + 1
    BY <1>0
  <2>2. w[i] = (z \o s)[j]
    BY <1>0, <1>3
  <2> HIDE DEF j
  <2>3. (z \o s)[j] = s[j - Len(z)]
    BY <2>1, ConcatProperties
  <2> QED
    BY <1>2, <2>1, <2>2, <2>3
<1> HIDE DEF r, w
<1>5. SubSeq(w, 1, Len(r)) = r
  BY <1>0, <1>2, <1>3, <1>4, PartIs
<1>6. SubSeq(r, 1, Len(r)) = r
  BY <1>2, SubSeqFull
<1> QED
  BY <1>0, <1>2, <1>3, <1>5, <1>6 DEF IsSuffix, IsPrefix, r, w

LEMMA FlattenedParts ==
  ASSUME NEW S, NEW seqs \in Seq(Seq(S))
  PROVE  /\ FlattenSeq(SubSeq(seqs, 1, 0)) = <<>>
         /\ \A k \in 0..Len(seqs) : FlattenSeq(SubSeq(seqs, 1, k)) \in Seq(S)
         /\ \A k \in 1..Len(seqs) :
              FlattenSeq(SubSeq(seqs, 1, k)) = FlattenSeq(SubSeq(seqs, 1, k - 1)) \o seqs[k]
         /\ \A k, m \in 0..Len(seqs) : k <= m =>
              Begins(S, FlattenSeq(SubSeq(seqs, 1, k)), FlattenSeq(SubSeq(seqs, 1, m)))
<1>0. Len(seqs) \in Nat
  BY LenProperties
<1>1. PICK f : /\ Joins(S, f, seqs)
               /\ \A k \in Nat : k <= Len(seqs) => FlattenSeq(SubSeq(seqs, 1, k)) = f[k]
  BY FlattenSteps
<1>2. \A k \in 0..Len(seqs) : FlattenSeq(SubSeq(seqs, 1, k)) = f[k]
  BY <1>0, <1>1
<1>3. f[0] = <<>> /\ \A k \in 0..Len(seqs) : f[k] \in Seq(S)
  BY <1>1 DEF Joins
<1>4. ASSUME NEW k \in 1..Len(seqs) PROVE f[k] = f[k - 1] \o seqs[k]
  <2>1. k - 1 \in Nat /\ k - 1 < Len(seqs) /\ k - 1 + 1 = k
    BY <1>0
  <2>2. f[k - 1 + 1] = f[k - 1] \o seqs[k - 1 + 1]
    BY <1>1, <2>1 DEF Joins
  <2> QED
    BY <2>1, <2>2
<1>5. ASSUME NEW k \in 0..Len(seqs), NEW m \in 0..Len(seqs), k <= m
      PROVE  Begins(S, f[k], f[m])
  <2>1. k \in Nat /\ m \in Nat /\ m <= Len(seqs)
    BY <1>0
  <2> QED
    BY <1>1, <1>5, <2>1, JoinsGrows
<1>6. \A k \in 1..Len(seqs) : k \in 0..Len(seqs) /\ k - 1 \in 0..Len(seqs)
  BY <1>0
<1>7. 0 \in 0..Len(seqs)
  BY <1>0
<1> QED
  BY <1>2, <1>3, <1>4, <1>5, <1>6, <1>7
----------------------------------------------------------------------------
(* What is in a concatenation. *)
LEMMA ConcatSet ==
  ASSUME NEW S, NEW s \in Seq(S), NEW t \in Seq(S)
  PROVE  ToSet(s \o t) = ToSet(s) \cup ToSet(t)
<1>0. /\ Len(s) \in Nat /\ Len(t) \in Nat
      /\ DOMAIN s = 1..Len(s) /\ DOMAIN t = 1..Len(t)
  BY LenProperties
<1> DEFINE w == s \o t
<1>1. /\ w \in Seq(S) /\ Len(w) = Len(s) + Len(t) /\ DOMAIN w = 1..Len(w)
      /\ \A i \in 1..(Len(s) + Len(t)) : w[i] = IF i <= Len(s) THEN s[i] ELSE t[i - Len(s)]
  BY ConcatProperties, LenProperties
<1> HIDE DEF w
<1>2. ASSUME NEW i \in DOMAIN w PROVE w[i] \in ToSet(s) \cup ToSet(t)
  <2>1. CASE i <= Len(s)
    BY <1>0, <1>1, <2>1 DEF ToSet
  <2>2. CASE ~(i <= Len(s))
    <3>1. i - Len(s) \in 1..Len(t) /\ w[i] = t[i - Len(s)]
      BY <1>0, <1>1, <2>2
    <3> QED
      BY <1>0, <3>1 DEF ToSet
  <2> QED
    BY <2>1, <2>2
<1>3. ASSUME NEW i \in DOMAIN s PROVE s[i] \in ToSet(w)
  <2>1. i \in DOMAIN w /\ w[i] = s[i]
    BY <1>0, <1>1
  <2> QED
    BY <2>1 DEF ToSet
<1>4. ASSUME NEW i \in DOMAIN t PROVE t[i] \in ToSet(w)
  <2>1. Len(s) + i \in DOMAIN w /\ ~(Len(s) + i <= Len(s)) /\ Len(s) + i - Len(s) = i
    BY <1>0, <1>1
  <2>2. w[Len(s) + i] = t[i]
    BY <1>0, <1>1, <2>1
  <2> QED
    BY <2>1, <2>2 DEF ToSet
<1>5. ToSet(w) \subseteq ToSet(s) \cup ToSet(t)
  BY <1>2 DEF ToSet
<1>6. ToSet(s) \subseteq ToSet(w) /\ ToSet(t) \subseteq ToSet(w)
  BY <1>3, <1>4 DEF ToSet
<1>7. ToSet(w) = ToSet(s) \cup ToSet(t)
  BY <1>5, <1>6
<1> QED
  BY <1>7 DEF w

(* The whole is made of its parts, the first so many at a time. *)
LEMMA FlattenedWhole ==
  ASSUME NEW S, NEW seqs \in Seq(Seq(S))
  PROVE  /\ FlattenSeq(seqs) \in Seq(S) /\ Len(seqs) \in Nat
         /\ FlattenSeq(SubSeq(seqs, 1, Len(seqs))) = FlattenSeq(seqs)
<1>1. SubSeq(seqs, 1, Len(seqs)) = seqs /\ Len(seqs) \in Nat
  BY SubSeqFull, LenProperties
<1>2. Len(seqs) \in 0..Len(seqs)
  BY <1>1
<1>3. FlattenSeq(SubSeq(seqs, 1, Len(seqs))) \in Seq(S)
  BY <1>2, FlattenedParts
<1> QED
  BY <1>1, <1>3

LEMMA FlattenedSet ==
  ASSUME NEW S, NEW seqs \in Seq(Seq(S))
  PROVE  ToSet(FlattenSeq(seqs)) = UNION {ToSet(seqs[i]) : i \in 1..Len(seqs)}
<1> DEFINE part(k) == FlattenSeq(SubSeq(seqs, 1, k))
           all(k) == UNION {ToSet(seqs[i]) : i \in 1..k}
           T == {k \in Nat : k <= Len(seqs) /\ ToSet(part(k)) # all(k)}
<1>0. /\ Len(seqs) \in Nat /\ part(Len(seqs)) = FlattenSeq(seqs) /\ part(0) = <<>>
      /\ \A k \in 0..Len(seqs) : part(k) \in Seq(S)
      /\ \A k \in 1..Len(seqs) : part(k) = part(k - 1) \o seqs[k]
      /\ \A k \in 1..Len(seqs) : seqs[k] \in Seq(S)
  BY FlattenedWhole, FlattenedParts, ElementOfSeq
<1> HIDE DEF part
<1>1. T = {}
  <2> SUFFICES ASSUME T # {} PROVE FALSE
    OBVIOUS
  <2>1. PICK k \in T : \A i \in Nat : i < k => i \notin T
    <3>1. T \in SUBSET Nat
      OBVIOUS
    <3> HIDE DEF T
    <3> QED
      BY <3>1, LeastElement
  <2>2. k \in Nat /\ k <= Len(seqs) /\ ToSet(part(k)) # all(k)
    BY <2>1
  <2>3. k # 0
    <3>1. ToSet(<<>>) = {} /\ all(0) = {}
      BY DEF ToSet
    <3> QED
      BY <1>0, <2>2, <3>1
  <2>4. /\ k - 1 \in Nat /\ k - 1 < k /\ k - 1 <= Len(seqs) /\ k \in 1..Len(seqs)
        /\ k - 1 \in 0..Len(seqs)
    <3>1. \A a, b \in Nat : a # 0 /\ a <= b =>
            /\ a - 1 \in Nat /\ a - 1 < a /\ a - 1 <= b /\ a \in 1..b /\ a - 1 \in 0..b
      OBVIOUS
    <3> QED
      BY <1>0, <2>2, <2>3, <3>1, Zenon
  <2>5. ToSet(part(k - 1)) = all(k - 1)
    BY <2>1, <2>4
  <2>6. ToSet(part(k)) = ToSet(part(k - 1)) \cup ToSet(seqs[k])
    <3>1. part(k - 1) \in Seq(S) /\ seqs[k] \in Seq(S) /\ part(k) = part(k - 1) \o seqs[k]
      BY <1>0, <2>4
    <3> QED
      BY <3>1, ConcatSet
  <2>7. all(k) = all(k - 1) \cup ToSet(seqs[k])
    <3>1. 1..k = 1..(k - 1) \cup {k}
      BY <2>2, <2>3
    <3> QED
      BY <3>1
  <2> QED
    BY <2>2, <2>5, <2>6, <2>7
<1>2. ToSet(part(Len(seqs))) = all(Len(seqs))
  BY <1>0, <1>1
<1> QED
  BY <1>0, <1>2

(* Parts of one element each are the elements. *)
LEMMA FlattenedSingles ==
  ASSUME NEW S, NEW s \in Seq(S)
  PROVE  FlattenSeq([i \in 1..Len(s) |-> <<s[i]>>]) = s
<1> DEFINE seqs == [i \in 1..Len(s) |-> <<s[i]>>]
           part(k) == FlattenSeq(SubSeq(seqs, 1, k))
           P(k) == Len(part(k)) = k /\ \A i \in 1..k : part(k)[i] = s[i]
           T == {k \in Nat : k <= Len(s) /\ ~P(k)}
<1>1. Len(s) \in Nat /\ \A i \in 1..Len(s) : s[i] \in S
  BY LenProperties, ElementOfSeq
<1>2. seqs \in Seq(Seq(S)) /\ Len(seqs) = Len(s) /\ \A i \in 1..Len(s) : seqs[i] = <<s[i]>>
  BY <1>1
<1> HIDE DEF seqs
<1>0. /\ part(Len(s)) = FlattenSeq(seqs) /\ part(0) = <<>>
      /\ \A k \in 0..Len(s) : part(k) \in Seq(S)
      /\ \A k \in 1..Len(s) : part(k) = part(k - 1) \o seqs[k]
  BY <1>2, FlattenedWhole, FlattenedParts
<1> HIDE DEF part
<1>3. T = {}
  <2> SUFFICES ASSUME T # {} PROVE FALSE
    OBVIOUS
  <2>1. PICK k \in T : \A i \in Nat : i < k => i \notin T
    <3>1. T \in SUBSET Nat
      OBVIOUS
    <3> HIDE DEF T
    <3> QED
      BY <3>1, LeastElement
  <2>2. k \in Nat /\ k <= Len(s) /\ ~P(k)
    BY <2>1
  <2>3. k # 0
    BY <1>0, <2>2, EmptySeq
  <2>4. /\ k - 1 \in Nat /\ k - 1 < k /\ k - 1 <= Len(s) /\ k \in 1..Len(s)
        /\ k - 1 \in 0..Len(s) /\ k - 1 + 1 = k
        /\ \A i \in 1..k : i \in 1..(k - 1) \/ i = k
    BY <1>1, <2>2, <2>3
  <2>5. P(k - 1)
    BY <2>1, <2>4
  <2> DEFINE p == part(k - 1)
             e == <<s[k]>>
  <2>6. p \in Seq(S) /\ part(k) = p \o e
    BY <1>0, <1>2, <2>4
  <2>7. e \in Seq(S) /\ e # <<>> /\ Len(e) <= 1 /\ e[1] = s[k]
    BY <1>1, <2>4
  <2>8. Len(p) = k - 1 /\ \A i \in 1..(k - 1) : p[i] = s[i]
    BY <2>5
  <2> HIDE DEF p, e
  <2>9. /\ Len(p \o e) = Len(p) + 1 /\ \A i \in 1..Len(p) : (p \o e)[i] = p[i]
        /\ (p \o e)[Len(p) + 1] = e[1]
    BY <2>6, <2>7, ConcatOne
  <2>10. Len(part(k)) = k
    BY <2>4, <2>6, <2>8, <2>9
  <2>11. ASSUME NEW i \in 1..k PROVE part(k)[i] = s[i]
    <3>1. CASE i \in 1..(k - 1)
      BY <2>6, <2>8, <2>9, <3>1
    <3>2. CASE i = k
      BY <2>4, <2>6, <2>7, <2>8, <2>9, <3>2
    <3> QED
      BY <2>4, <3>1, <3>2
  <2> QED
    BY <2>2, <2>10, <2>11
<1>4. P(Len(s))
  BY <1>1, <1>3
<1>5. part(Len(s)) \in Seq(S)
  BY <1>0, <1>1
<1>6. part(Len(s)) = s
  BY <1>4, <1>5, SeqEqual
<1> QED
  BY <1>0, <1>6 DEF seqs
----------------------------------------------------------------------------
(* s lists the elements of T, each once. *)
Enumerates(s, T) ==
  /\ s \in Seq(T) /\ Len(s) \in Nat
  /\ \A x \in T : \E i \in 1..Len(s) : s[i] = x
  /\ \A i, j \in 1..Len(s) : s[i] = s[j] => i = j

LEMMA EnumeratesSet ==
  ASSUME NEW s, NEW T, Enumerates(s, T)
  PROVE  /\ ToSet(s) = T /\ DOMAIN s = 1..Len(s)
         /\ \A i \in 1..Len(s) : s[i] \in T
         /\ IsFiniteSet(T) /\ Len(s) = Cardinality(T)
<1>1. /\ s \in Seq(T) /\ DOMAIN s = 1..Len(s) /\ \A i \in 1..Len(s) : s[i] \in T
      /\ s \in [1..Len(s) -> T] /\ Len(s) \in Nat
  BY LenProperties, ElementOfSeq DEF Enumerates
<1>2. ToSet(s) = T
  BY <1>1 DEF Enumerates, ToSet
<1>3. s \in Bijection(1..Len(s), T)
  BY <1>1 DEF Enumerates, Bijection, Injection, Surjection, IsInjective
<1>4. ExistsBijection(1..Len(s), T)
  BY <1>3 DEF ExistsBijection
<1>5. Cardinality(T) = Len(s) /\ IsFiniteSet(T)
  BY <1>1, <1>4, FS_CountingElements, FS_NatBijection
<1> QED
  BY <1>1, <1>2, <1>5

(* An injection of a finite set's numbers into it lists it. *)
LEMMA InjectionEnumerates ==
  ASSUME NEW T, IsFiniteSet(T), NEW f \in [1..Cardinality(T) -> T],
         \A i, j \in 1..Cardinality(T) : f[i] = f[j] => i = j
  PROVE  Enumerates(f, T)
<1> DEFINE n == Cardinality(T)
<1>1. n \in Nat
  BY FS_CardinalityType
<1>2. IsFiniteSet(1..n) /\ Cardinality(1..n) = n
  <2> HIDE DEF n
  <2> QED
    BY <1>1, FS_Interval
<1>3. f \in Injection(1..n, T)
  BY DEF Injection, IsInjective
<1>4. f \in Surjection(1..n, T)
  BY <1>2, <1>3, FS_Injection
<1>5. f \in Seq(T) /\ Len(f) = n
  BY <1>1, LenProperties
<1>6. \A x \in T : \E i \in 1..n : f[i] = x
  BY <1>4 DEF Surjection
<1> QED
  BY <1>1, <1>5, <1>6 DEF Enumerates

LEMMA SeqOfSet ==
  ASSUME NEW T, IsFiniteSet(T)
  PROVE  Enumerates(SetToSeq(T), T)
<1> DEFINE n == Cardinality(T)
<1>1. \E f : f \in [1..n -> T] /\ IsInjective(f)
  <2>1. PICK f \in Bijection(1..n, T) : TRUE
    BY FS_CardinalityType DEF ExistsBijection
  <2>2. f \in [1..n -> T] /\ \A i, j \in 1..n : f[i] = f[j] => i = j
    BY <2>1 DEF Bijection, Injection, IsInjective
  <2> QED
    BY <2>2 DEF IsInjective
<1>2. SetToSeq(T) \in [1..n -> T] /\ IsInjective(SetToSeq(T))
  BY <1>1, Zenon DEF SetToSeq
<1>3. \A i, j \in 1..n : SetToSeq(T)[i] = SetToSeq(T)[j] => i = j
  BY <1>2 DEF IsInjective
<1> QED
  BY <1>2, <1>3, InjectionEnumerates

LEMMA SeqsOfSet ==
  ASSUME NEW T, IsFiniteSet(T), NEW s \in SetToSeqs(T)
  PROVE  Enumerates(s, T)
<1>1. /\ s \in [1..Cardinality(T) -> T]
      /\ \A i, j \in 1..Cardinality(T) : s[i] = s[j] => i = j
  BY DEF SetToSeqs
<1> QED
  BY <1>1, InjectionEnumerates

LEMMA ConcatEnumerates ==
  ASSUME NEW T, NEW U, NEW s, NEW t, Enumerates(s, T), Enumerates(t, U), T \cap U = {}
  PROVE  Enumerates(s \o t, T \cup U)
<1> DEFINE S == T \cup U
<1>1. /\ s \in Seq(S) /\ t \in Seq(S) /\ Len(s) \in Nat /\ Len(t) \in Nat
      /\ \A i \in 1..Len(s) : s[i] \in T
      /\ \A i \in 1..Len(t) : t[i] \in U
  <2>1. s \in Seq(T) /\ t \in Seq(U)
    BY DEF Enumerates
  <2>2. s \in Seq(S) /\ t \in Seq(S)
    BY <2>1
  <2> QED
    BY <2>1, <2>2, LenProperties, ElementOfSeq
<1>2. /\ s \o t \in Seq(S) /\ Len(s \o t) = Len(s) + Len(t)
      /\ \A i \in 1..(Len(s) + Len(t)) :
           (s \o t)[i] = IF i <= Len(s) THEN s[i] ELSE t[i - Len(s)]
  BY <1>1, ConcatProperties
<1> DEFINE w == s \o t
<1> HIDE DEF w
<1>3. /\ w \in Seq(S) /\ Len(w) = Len(s) + Len(t)
      /\ \A i \in 1..Len(s) : w[i] = s[i]
      /\ \A i \in 1..Len(t) : w[Len(s) + i] = t[i]
      /\ \A i \in 1..Len(w) : i \in 1..Len(s) \/ \E k \in 1..Len(t) : i = Len(s) + k
  <2>1. w \in Seq(S) /\ Len(w) = Len(s) + Len(t)
    BY <1>2 DEF w
  <2>2. \A i \in 1..Len(s) : w[i] = s[i]
    BY <1>1, <1>2 DEF w
  <2>3. ASSUME NEW i \in 1..Len(t) PROVE w[Len(s) + i] = t[i]
    <3>1. Len(s) + i \in 1..(Len(s) + Len(t)) /\ ~(Len(s) + i <= Len(s))
          /\ Len(s) + i - Len(s) = i
      BY <1>1
    <3> QED
      BY <1>2, <3>1 DEF w
  <2>4. ASSUME NEW i \in 1..Len(w), i \notin 1..Len(s)
        PROVE  \E k \in 1..Len(t) : i = Len(s) + k
    <3>1. i - Len(s) \in 1..Len(t) /\ i = Len(s) + (i - Len(s))
      BY <1>1, <2>1, <2>4
    <3> QED
      BY <3>1
  <2> QED
    BY <2>1, <2>2, <2>3, <2>4
<1>4. ASSUME NEW x \in S PROVE \E i \in 1..Len(w) : w[i] = x
  <2>1. CASE x \in T
    <3>1. PICK i \in 1..Len(s) : s[i] = x
      BY <2>1 DEF Enumerates
    <3> QED
      BY <1>1, <1>3, <3>1
  <2>2. CASE x \in U
    <3>1. PICK i \in 1..Len(t) : t[i] = x
      BY <2>2 DEF Enumerates
    <3>2. Len(s) + i \in 1..Len(w)
      BY <1>1, <1>3
    <3> QED
      BY <1>3, <3>1, <3>2
  <2> QED
    BY <2>1, <2>2
<1>5. ASSUME NEW i \in 1..Len(w), NEW j \in 1..Len(w), w[i] = w[j] PROVE i = j
  <2>1. CASE i \in 1..Len(s) /\ j \in 1..Len(s)
    BY <1>3, <1>5, <2>1 DEF Enumerates
  <2>2. ASSUME NEW k \in 1..Len(t), i = Len(s) + k, j \in 1..Len(s) PROVE FALSE
    BY <1>1, <1>3, <1>5, <2>2
  <2>3. ASSUME NEW k \in 1..Len(t), j = Len(s) + k, i \in 1..Len(s) PROVE FALSE
    BY <1>1, <1>3, <1>5, <2>3
  <2>4. ASSUME NEW k \in 1..Len(t), i = Len(s) + k, NEW l \in 1..Len(t), j = Len(s) + l
        PROVE  i = j
    <3>1. t[k] = t[l]
      BY <1>3, <1>5, <2>4
    <3> QED
      BY <2>4, <3>1 DEF Enumerates
  <2> QED
    BY <1>3, <2>1, <2>2, <2>3, <2>4
<1>6. Len(w) \in Nat
  BY <1>1, <1>3
<1> QED
  BY <1>3, <1>4, <1>5, <1>6 DEF Enumerates, w

(* Without its last element. *)
LEMMA FrontEnumerates ==
  ASSUME NEW T, NEW s, Enumerates(s, T), s # <<>>
  PROVE  Last(s) \in T /\ Enumerates(Front(s), T \ {Last(s)})
<1> DEFINE n == Len(s) - 1
           f == Front(s)
           U == T \ {s[Len(s)]}
<1>1. s \in Seq(T) /\ Len(s) \in Nat /\ \A i \in 1..Len(s) : s[i] \in T
  BY LenProperties, ElementOfSeq DEF Enumerates
<1>2. Len(s) >= 1 /\ n \in Nat /\ Len(s) \in 1..Len(s) /\ n <= Len(s)
  BY <1>1, EmptySeq
<1>3. f \in Seq(T) /\ Len(f) = n /\ \A i \in 1..n : f[i] = s[i]
  <2>1. f = SubSeq(s, 1, n)
    BY DEF Front
  <2>2. SubSeq(s, 1, n) \in Seq(T)
    BY <1>1, <1>2, PartType
  <2>3. Len(SubSeq(s, 1, n)) = n
    <3> HIDE DEF n
    <3>1. Len(SubSeq(s, 1, n)) = IF 1 <= n THEN n - 1 + 1 ELSE 0
      BY <1>1, <1>2, PartType
    <3> QED
      BY <1>2, <3>1
  <2>4. \A i \in 1..n : SubSeq(s, 1, n)[i] = s[i]
    <3>1. \A i \in 1..(n - 1 + 1) : SubSeq(s, 1, n)[i] = s[1 + i - 1]
      BY <1>1, <1>2, PartType
    <3>2. n - 1 + 1 = n /\ \A i \in 1..n : 1 + i - 1 = i
      BY <1>2
    <3> QED
      BY <3>1, <3>2
  <2> QED
    BY <2>1, <2>2, <2>3, <2>4
<1>4. \A i \in 1..n : i \in 1..Len(s) /\ i # Len(s)
  BY <1>1, <1>2
<1>5. \A i \in 1..Len(s) : i # Len(s) => i \in 1..n
  BY <1>1, <1>2
<1> HIDE DEF f, n
<1>6. \A i \in 1..n : f[i] \in U
  BY <1>1, <1>2, <1>3, <1>4 DEF Enumerates
<1>7. f \in Seq(U)
  <2>1. f = [i \in 1..n |-> f[i]]
    BY <1>3, LenProperties
  <2> QED
    BY <1>2, <1>6, <2>1
<1>8. \A x \in U : \E i \in 1..n : f[i] = x
  BY <1>3, <1>5 DEF Enumerates
<1>9. \A i, j \in 1..n : f[i] = f[j] => i = j
  BY <1>3, <1>4 DEF Enumerates
<1> QED
  BY <1>1, <1>2, <1>3, <1>7, <1>8, <1>9 DEF Enumerates, Last, f
=============================================================================
