--------------------------- MODULE StartupProofs ---------------------------
(***************************************************************************)
(* Proofs about the whole of start-up, for any disk and any set-up: that   *)
(* it is a start of the server as Readiness has it, whose theorems hold of *)
(* it then, and what is checked before it is spawned.                      *)
(***************************************************************************)
EXTENDS Startup, ReadinessProofs, SequenceLemmas

(* Start-up implements Readiness: what run does before the server is       *)
(* started is a stutter of it, what it does then a step of it.             *)
THEOREM StartupImplementsReadiness == StartSpec => Spec
<1>1. StartInit => Init
  BY DEF StartInit
<1>2. [StartNext]_allVars => [Next]_vars
  BY DEF StartNext, allVars
<1> QED
  BY <1>1, <1>2, PTL DEF StartSpec, Spec

(* What start-up leaves of a server, its types, how late it may end and    *)
(* which files it asks about: the theorems of Readiness, for the program.  *)
THEOREM StartupIsSafe ==
  StartSpec => [](TypeOK /\ ServerIsOwned /\ KilledOnce /\ EndsNearDeadline /\ SampleIsSpread)
BY StartupImplementsReadiness, TypeCorrect, ServerNotLeaked, StartupIsTimely,
   SampleAlwaysSpread, PTL

----------------------------------------------------------------------------
(* What is known of the configuration by how far start-up has come. *)
Chosen ==
  /\ config = Resolve
  /\ config # "none"

Resolved ==
  /\ stage = "read" => Chosen
  /\ stage \in {"walk", "go"} => Chosen /\ setup.files[config] = "language"
  /\ stage = "go" => setup.terminal
  /\ stage # "go" => at = "spawn" /\ proc = "none"

(* Nothing comes before what resolve_servers_toml finds. *)
LEMMA ResolveFinds ==
  /\ setup.override /\ Resolve # "none" => Resolve = "override"
  /\ Resolve = "user" => ~IsFile("cwd")
BY DEF Resolve, Searched

(* A server is spawned only for a well-formed configuration, the most      *)
(* specific one there is, that defines the language, and on a terminal.    *)
THEOREM SpawnIsChecked == StartSpec => []CheckedBeforeSpawn
<1>1. StartInit => Resolved
  BY DEF StartInit, Init, ServerInit, Resolved
<1>2. Resolved /\ [StartNext]_allVars => Resolved'
  <2> SUFFICES ASSUME Resolved, [StartNext]_allVars PROVE Resolved'
    OBVIOUS
  <2>1. CASE FindConfig /\ UNCHANGED vars
    <3>1. /\ UNCHANGED <<disk, setup>> /\ config' = Resolve
          /\ stage' = "failed" \/ (stage' = "read" /\ Resolve # "none")
      BY <2>1 DEF FindConfig, Fail
    <3>2. Resolve' = Resolve
      BY <3>1 DEF Resolve, Searched, IsFile
    <3>3. stage' = "read" => Chosen'
      BY <3>1, <3>2 DEF Chosen
    <3>4. at' = "spawn" /\ proc' = "none"
      BY <2>1 DEF FindConfig, Resolved, vars, serverVars
    <3> QED
      BY <3>1, <3>3, <3>4 DEF Resolved
  <2>2. CASE ReadConfig /\ UNCHANGED vars
    BY <2>2
    DEF ReadConfig, FromToml, Defines, Fail, Resolved, Chosen, Resolve, Searched, IsFile, vars, serverVars
  <2>3. CASE VisitDir /\ UNCHANGED vars
    BY <2>3
    DEF VisitDir, Resolved, Chosen, Resolve, Searched, IsFile, vars, serverVars
  <2>4. CASE Listing /\ UNCHANGED vars
    BY <2>4
    DEF Listing, Fail, Resolved, Chosen, Resolve, Searched, IsFile, vars, serverVars
  <2>5. CASE MayStart /\ Next /\ UNCHANGED startVars
    BY <2>5
    DEF MayStart, startVars, Resolved, Chosen, Resolve, Searched, IsFile
  <2>6. CASE UNCHANGED allVars
    BY <2>6
    DEF allVars, vars, serverVars, startVars, Resolved, Chosen, Resolve, Searched, IsFile
  <2> QED
    BY <2>1, <2>2, <2>3, <2>4, <2>5, <2>6 DEF StartNext, StartStep
<1>3. Resolved => CheckedBeforeSpawn
  <2> SUFFICES ASSUME Resolved, proc # "none" PROVE CheckedBeforeSpawn
    BY DEF CheckedBeforeSpawn
  <2>1. stage = "go" /\ Chosen /\ setup.files[config] = "language" /\ setup.terminal
    BY DEF Resolved
  <2> QED
    BY <2>1, ResolveFinds DEF Chosen, CheckedBeforeSpawn
<1> QED
  BY <1>1, <1>2, <1>3, PTL DEF StartSpec
----------------------------------------------------------------------------
(* The order of paths.  p and q agree on the first k names, and that is    *)
(* all there is of p, or its next name is the lesser.                      *)
BeforeAt(p, q, k) ==
  /\ k \in Nat /\ k <= Len(p) /\ k < Len(q)
  /\ \A i \in 1..k : p[i] = q[i]
  /\ k < Len(p) => p[k + 1] < q[k + 1]

LEMMA BeforeIs ==
  ASSUME NEW p \in Seq(Nat), NEW q \in Seq(Nat)
  PROVE  Before(p, q) <=> \E k \in Nat : BeforeAt(p, q, k)
<1>0. /\ Len(p) \in Nat /\ Len(q) \in Nat
      /\ DOMAIN p = 1..Len(p) /\ DOMAIN q = 1..Len(q)
  BY LenProperties
<1>1. ASSUME NEW k \in Nat, k <= Len(p), k <= Len(q)
      PROVE  SubSeq(p, 1, k) = SubSeq(q, 1, k) <=> \A i \in 1..k : p[i] = q[i]
  <2>1. /\ SubSeq(p, 1, k) \in Seq(Nat) /\ SubSeq(q, 1, k) \in Seq(Nat)
        /\ Len(SubSeq(p, 1, k)) = k /\ Len(SubSeq(q, 1, k)) = k
        /\ \A i \in 1..k : SubSeq(p, 1, k)[i] = p[i] /\ SubSeq(q, 1, k)[i] = q[i]
    BY <1>0, <1>1, PartType
  <2> QED
    BY <2>1, SeqEqual
<1>2. SubSeq(p, 1, Len(p)) = p
  BY SubSeqFull
<1>3. IsStrictPrefix(p, q) <=> BeforeAt(p, q, Len(p))
  <2>1. IsPrefix(p, q) <=> Len(p) <= Len(q) /\ \A i \in 1..Len(p) : p[i] = q[i]
    BY <1>0, <1>1 DEF IsPrefix
  <2>2. (\A i \in 1..Len(p) : p[i] = q[i]) /\ Len(p) <= Len(q) => (p # q <=> Len(p) < Len(q))
    BY <1>0, SeqEqual
  <2> QED
    BY <1>0, <2>1, <2>2 DEF IsStrictPrefix, BeforeAt
<1>4. ASSUME NEW i \in DOMAIN p \cap DOMAIN q
      PROVE  SubSeq(p, 1, i - 1) = SubSeq(q, 1, i - 1) /\ p[i] < q[i]
               <=> i - 1 < Len(p) /\ BeforeAt(p, q, i - 1)
  <2>1. i - 1 \in Nat /\ i - 1 < Len(p) /\ i - 1 < Len(q) /\ i - 1 + 1 = i
    BY <1>0
  <2> QED
    BY <1>0, <1>1, <2>1, SMTT(60) DEF BeforeAt
<1>5. ASSUME NEW k \in Nat, BeforeAt(p, q, k) PROVE Before(p, q)
  <2>1. CASE k = Len(p)
    BY <1>3, <1>5, <2>1 DEF Before
  <2>2. CASE k # Len(p)
    <3>1. k <= Len(p) /\ k < Len(q)
      BY <1>5 DEF BeforeAt
    <3>0. \A a, b, c \in Nat : c <= a /\ c < b /\ c # a =>
            c + 1 \in 1..a /\ c + 1 \in 1..b /\ c + 1 - 1 = c /\ c < a
      OBVIOUS
    <3>2. k + 1 \in 1..Len(p) /\ k + 1 \in 1..Len(q) /\ k + 1 - 1 = k /\ k < Len(p)
      BY <1>0, <2>2, <3>0, <3>1, Zenon
    <3>3. PICK i \in DOMAIN p \cap DOMAIN q : i = k + 1 /\ i - 1 = k
      BY <1>0, <3>2
    <3>4. SubSeq(p, 1, k) = SubSeq(q, 1, k) /\ p[k + 1] < q[k + 1]
      BY <1>1, <1>5, <3>1, <3>2 DEF BeforeAt
    <3> QED
      BY <3>3, <3>4, Zenon DEF Before
  <2> QED
    BY <2>1, <2>2
<1>6. ASSUME Before(p, q) PROVE \E k \in Nat : BeforeAt(p, q, k)
  BY <1>0, <1>3, <1>4, <1>6 DEF Before, BeforeAt
<1> QED
  BY <1>5, <1>6

LEMMA BeforeTransitive ==
  ASSUME NEW p \in Seq(Nat), NEW q \in Seq(Nat), NEW r \in Seq(Nat),
         Before(p, q), Before(q, r)
  PROVE  Before(p, r)
<1>1. PICK k \in Nat : BeforeAt(p, q, k)
  BY BeforeIs
<1>2. PICK l \in Nat : BeforeAt(q, r, l)
  BY BeforeIs
<1>0. /\ Len(p) \in Nat /\ Len(q) \in Nat /\ Len(r) \in Nat
      /\ \A i \in 1..Len(p) : p[i] \in Nat
      /\ \A i \in 1..Len(q) : q[i] \in Nat
      /\ \A i \in 1..Len(r) : r[i] \in Nat
  BY LenProperties, ElementOfSeq
<1>3. CASE k < l
  <2>1. BeforeAt(p, r, k)
    BY <1>0, <1>1, <1>2, <1>3 DEF BeforeAt
  <2> QED
    BY <2>1, BeforeIs
<1>6. /\ k <= Len(p) /\ k < Len(q) /\ \A i \in 1..k : p[i] = q[i]
      /\ k < Len(p) => p[k + 1] < q[k + 1]
      /\ l <= Len(q) /\ l < Len(r) /\ \A i \in 1..l : q[i] = r[i]
      /\ l < Len(q) => q[l + 1] < r[l + 1]
  BY <1>1, <1>2 DEF BeforeAt
<1>4. CASE k = l
  <2>1. k <= Len(p) /\ k < Len(r) /\ \A i \in 1..k : p[i] = r[i]
    BY <1>4, <1>6
  <2>2. ASSUME k < Len(p) PROVE p[k + 1] < r[k + 1]
    <3>1. k + 1 \in 1..Len(p) /\ k + 1 \in 1..Len(q) /\ k + 1 \in 1..Len(r)
      BY <1>0, <1>4, <1>6, <2>2, SMTT(60)
    <3>2. p[k + 1] < q[k + 1] /\ q[k + 1] < r[k + 1]
      BY <1>4, <1>6, <2>2
    <3>3. p[k + 1] \in Nat /\ q[k + 1] \in Nat /\ r[k + 1] \in Nat
      BY <1>0, <3>1
    <3> QED
      BY <3>2, <3>3
  <2>3. BeforeAt(p, r, k)
    BY <2>1, <2>2 DEF BeforeAt
  <2> QED
    BY <2>3, BeforeIs
<1>5. CASE l < k
  <2>1. /\ l <= Len(p) /\ l < Len(r) /\ l + 1 \in 1..k /\ l < Len(q)
        /\ \A i \in 1..l : i \in 1..k
    BY <1>0, <1>5, <1>6, SMTT(60)
  <2>2. p[l + 1] = q[l + 1] /\ \A i \in 1..l : p[i] = r[i]
    BY <1>6, <2>1
  <2>3. BeforeAt(p, r, l)
    BY <1>6, <2>1, <2>2 DEF BeforeAt
  <2> QED
    BY <2>3, BeforeIs
<1> QED
  BY <1>3, <1>4, <1>5

LEMMA BeforeIrreflexive ==
  ASSUME NEW p \in Seq(Nat)
  PROVE  ~Before(p, p)
<1>1. \A k \in Nat : ~BeforeAt(p, p, k)
  <2> SUFFICES ASSUME NEW k \in Nat, BeforeAt(p, p, k) PROVE FALSE
    OBVIOUS
  <2>1. Len(p) \in Nat /\ \A i \in 1..Len(p) : p[i] \in Nat
    BY LenProperties, ElementOfSeq
  <2>2. k + 1 \in 1..Len(p) /\ p[k + 1] < p[k + 1]
    BY <2>1 DEF BeforeAt
  <2> QED
    BY <2>1, <2>2
<1> QED
  BY <1>1, BeforeIs

LEMMA BeforeTotal ==
  ASSUME NEW p \in Seq(Nat), NEW q \in Seq(Nat), p # q
  PROVE  Before(p, q) \/ Before(q, p)
<1> DEFINE T == {k \in Nat : k >= Len(p) \/ k >= Len(q) \/ p[k + 1] # q[k + 1]}
<1>0. /\ Len(p) \in Nat /\ Len(q) \in Nat
      /\ \A i \in 1..Len(p) : p[i] \in Nat
      /\ \A i \in 1..Len(q) : q[i] \in Nat
  BY LenProperties, ElementOfSeq
<1>1. PICK k \in T : \A i \in Nat : i < k => i \notin T
  <2>1. T \in SUBSET Nat /\ T # {}
    BY <1>0
  <2> HIDE DEF T
  <2> QED
    BY <2>1, LeastElement
<1>2. ASSUME NEW i \in Nat, i < k
      PROVE  i < Len(p) /\ i < Len(q) /\ p[i + 1] = q[i + 1]
  <2>1. ~(i >= Len(p) \/ i >= Len(q) \/ p[i + 1] # q[i + 1])
    BY <1>1, <1>2
  <2> QED
    BY <1>0, <2>1
<1>3. k \in Nat /\ (k >= Len(p) \/ k >= Len(q) \/ p[k + 1] # q[k + 1])
  BY <1>1
<1> HIDE DEF T
<1>4. k <= Len(p) /\ k <= Len(q)
  <2>1. CASE k = 0
    BY <1>0, <2>1
  <2>2. CASE k # 0
    <3>1. k - 1 \in Nat /\ k - 1 < k
      BY <1>3, <2>2
    <3>2. k - 1 < Len(p) /\ k - 1 < Len(q)
      BY <1>2, <3>1
    <3> QED
      BY <1>0, <1>3, <3>2
  <2> QED
    BY <2>1, <2>2
<1>5. \A i \in 1..k : p[i] = q[i]
  <2> TAKE i \in 1..k
  <2>1. i - 1 \in Nat /\ i - 1 < k /\ i - 1 + 1 = i
    BY <1>3
  <2> QED
    BY <1>2, <2>1
<1>6. ~(k = Len(p) /\ k = Len(q))
  BY <1>5, SeqEqual
<1>7. BeforeAt(p, q, k) \/ BeforeAt(q, p, k)
  <2>1. CASE k = Len(p)
    BY <1>0, <1>3, <1>4, <1>5, <1>6, <2>1 DEF BeforeAt
  <2>2. CASE k = Len(q)
    BY <1>0, <1>3, <1>4, <1>5, <1>6, <2>2 DEF BeforeAt
  <2>3. CASE k < Len(p) /\ k < Len(q)
    <3>1. k + 1 \in 1..Len(p) /\ k + 1 \in 1..Len(q)
      BY <1>0, <1>3, <2>3
    <3>2. p[k + 1] \in Nat /\ q[k + 1] \in Nat /\ p[k + 1] # q[k + 1]
      BY <1>0, <1>3, <2>3, <3>1
    <3>3. p[k + 1] < q[k + 1] \/ q[k + 1] < p[k + 1]
      BY <3>2
    <3> QED
      BY <1>3, <1>4, <1>5, <2>3, <3>3 DEF BeforeAt
  <2> QED
    BY <1>0, <1>3, <1>4, <2>1, <2>2, <2>3
<1> QED
  BY <1>3, <1>7, BeforeIs

(* out.sort() on paths that differ: the same paths, in order. *)
LEMMA SortedIs ==
  ASSUME NEW T \in SUBSET Seq(Nat), NEW s, Enumerates(s, T)
  PROVE  /\ Enumerates(Sorted(s), T)
         /\ \A k \in 1..(Len(s) - 1) : Before(Sorted(s)[k], Sorted(s)[k + 1])
<1> DEFINE n == Len(s)
           Less(i) == {j \in 1..n : Before(s[j], s[i])}
           rank == [i \in 1..n |-> Cardinality(Less(i))]
<1>0. /\ n \in Nat /\ DOMAIN s = 1..n /\ \A i \in 1..n : s[i] \in T /\ s[i] \in Seq(Nat)
      /\ \A i, j \in 1..n : s[i] = s[j] => i = j
      /\ \A x \in T : \E i \in 1..n : s[i] = x
      /\ IsFiniteSet(T) /\ n = Cardinality(T)
  BY EnumeratesSet DEF Enumerates
<1> HIDE DEF n
<1>1. ASSUME NEW i \in 1..n PROVE Rank(s, i) = rank[i]
  <2>1. {j \in DOMAIN s : Before(s[j], s[i]) \/ (s[j] = s[i] /\ j < i)} = Less(i)
    BY <1>0
  <2> QED
    BY <2>1 DEF Rank
<1>2. /\ IsFiniteSet(1..n) /\ Cardinality(1..n) = n
      /\ IsFiniteSet(0..(n - 1)) /\ Cardinality(0..(n - 1)) = n
  <2>1. \A a, b \in Int : /\ IsFiniteSet(a..b)
                          /\ Cardinality(a..b) = IF a > b THEN 0 ELSE b - a + 1
    BY FS_Interval
  <2>2. 0 \in Int /\ 1 \in Int /\ n \in Int /\ n - 1 \in Int
    BY <1>0
  <2>3. IsFiniteSet(1..n) /\ Cardinality(1..n) = IF 1 > n THEN 0 ELSE n - 1 + 1
    BY <2>1, <2>2
  <2>4. /\ IsFiniteSet(0..(n - 1))
        /\ Cardinality(0..(n - 1)) = IF 0 > n - 1 THEN 0 ELSE n - 1 - 0 + 1
    BY <2>1, <2>2
  <2> QED
    BY <1>0, <2>3, <2>4
<1>3. ASSUME NEW i \in 1..n
      PROVE  IsFiniteSet(Less(i)) /\ rank[i] \in 0..(n - 1)
  <2>1. Less(i) \in SUBSET ((1..n) \ {i})
    BY <1>0, BeforeIrreflexive
  <2>2. IsFiniteSet((1..n) \ {i}) /\ Cardinality((1..n) \ {i}) = n - 1
    BY <1>2, FS_RemoveElement
  <2> HIDE DEF Less
  <2>3. IsFiniteSet(Less(i)) /\ Cardinality(Less(i)) <= n - 1
    BY <2>1, <2>2, FS_Subset
  <2>4. Cardinality(Less(i)) \in Nat
    BY <2>3, FS_CardinalityType
  <2> QED
    BY <1>0, <2>3, <2>4
<1>4. ASSUME NEW i \in 1..n, NEW j \in 1..n, Before(s[i], s[j])
      PROVE  rank[i] < rank[j]
  <2>1. Less(i) \in SUBSET Less(j)
    BY <1>0, <1>4, BeforeTransitive
  <2>2. i \in Less(j) /\ i \notin Less(i)
    BY <1>0, <1>4, BeforeIrreflexive
  <2>3. IsFiniteSet(Less(i)) /\ IsFiniteSet(Less(j))
    BY <1>3
  <2> HIDE DEF Less
  <2>4. Cardinality(Less(i)) <= Cardinality(Less(j)) /\ Cardinality(Less(i)) # Cardinality(Less(j))
    BY <2>1, <2>2, <2>3, FS_Subset
  <2>5. Cardinality(Less(i)) \in Nat /\ Cardinality(Less(j)) \in Nat
    BY <2>3, FS_CardinalityType
  <2> QED
    BY <2>4, <2>5
<1>5. rank \in [1..n -> 0..(n - 1)]
  BY <1>3
<1> HIDE DEF rank
<1>6. \A i, j \in 1..n : rank[i] = rank[j] => i = j
  <2> SUFFICES ASSUME NEW i \in 1..n, NEW j \in 1..n, rank[i] = rank[j], i # j PROVE FALSE
    OBVIOUS
  <2>1. s[i] # s[j] /\ s[i] \in Seq(Nat) /\ s[j] \in Seq(Nat)
    BY <1>0
  <2>2. Before(s[i], s[j]) \/ Before(s[j], s[i])
    BY <2>1, BeforeTotal
  <2>3. rank[i] \in Nat /\ rank[j] \in Nat
    BY <1>5
  <2> QED
    BY <1>4, <2>2, <2>3
<1>7. \A r \in 0..(n - 1) : \E i \in 1..n : rank[i] = r
  <2>1. rank \in Injection(1..n, 0..(n - 1))
    BY <1>5, <1>6 DEF Injection, IsInjective
  <2>2. rank \in Surjection(1..n, 0..(n - 1))
    BY <1>2, <2>1, FS_Injection
  <2> QED
    BY <2>2 DEF Surjection
<1> DEFINE at_(k) == CHOOSE i \in DOMAIN s : Rank(s, i) = k - 1
<1>8. ASSUME NEW k \in 1..n PROVE at_(k) \in 1..n /\ rank[at_(k)] = k - 1
  <2>1. k - 1 \in 0..(n - 1)
    BY <1>0
  <2>2. PICK i \in 1..n : rank[i] = k - 1
    BY <1>7, <2>1
  <2>4. \E j \in DOMAIN s : Rank(s, j) = k - 1
    BY <1>0, <1>1, <2>2
  <2>3. at_(k) \in DOMAIN s /\ Rank(s, at_(k)) = k - 1
    BY <2>4, Zenon
  <2> QED
    BY <1>0, <1>1, <2>3
<1>9. Sorted(s) = [k \in 1..n |-> s[at_(k)]]
  BY <1>0 DEF Sorted
<1> HIDE DEF at_
<1> DEFINE t == Sorted(s)
<1>10. t \in [1..n -> T] /\ \A k \in 1..n : t[k] = s[at_(k)]
  BY <1>0, <1>8, <1>9
<1> HIDE DEF t
<1>11. ASSUME NEW k \in 1..n, NEW l \in 1..n, t[k] = t[l] PROVE k = l
  <2>1. at_(k) = at_(l)
    BY <1>0, <1>8, <1>10, <1>11
  <2>2. k - 1 = l - 1
    BY <1>8, <2>1
  <2> QED
    BY <1>0, <2>2
<1>12. Enumerates(t, T)
  BY <1>0, <1>10, <1>11, InjectionEnumerates
<1>13. ASSUME NEW k \in 1..(n - 1) PROVE Before(t[k], t[k + 1])
  <2>1. k \in 1..n /\ k + 1 \in 1..n /\ k + 1 - 1 = k
    BY <1>0
  <2>2. /\ at_(k) \in 1..n /\ at_(k + 1) \in 1..n
        /\ rank[at_(k)] = k - 1 /\ rank[at_(k + 1)] = k
    <3>1. at_(k) \in 1..n /\ rank[at_(k)] = k - 1
      BY <1>8, <2>1
    <3>2. at_(k + 1) \in 1..n /\ rank[at_(k + 1)] = k + 1 - 1
      BY <1>8, <2>1, SMTT(60)
    <3> QED
      BY <2>1, <3>1, <3>2
  <2>3. at_(k) # at_(k + 1) /\ ~(rank[at_(k + 1)] < rank[at_(k)])
    BY <2>1, <2>2
  <2>4. s[at_(k)] # s[at_(k + 1)] /\ ~Before(s[at_(k + 1)], s[at_(k)])
    BY <1>0, <1>4, <2>2, <2>3
  <2>5. Before(s[at_(k)], s[at_(k + 1)])
    BY <1>0, <2>2, <2>4, BeforeTotal
  <2> QED
    BY <1>10, <2>1, <2>5
<1> QED
  BY <1>12, <1>13 DEF t, n
----------------------------------------------------------------------------
(* q is p or a path below it. *)
Under(p, q) == Len(p) <= Len(q) /\ \A i \in 1..Len(p) : p[i] = q[i]

LEMMA UnderIsOrder ==
  ASSUME NEW p \in Seq(Nat), NEW q \in Seq(Nat), NEW r \in Seq(Nat)
  PROVE  /\ Under(p, p)
         /\ Under(p, q) /\ Under(q, r) => Under(p, r)
         /\ Under(p, q) /\ (Under(q, p) \/ Len(p) = Len(q)) => p = q
<1>0. Len(p) \in Nat /\ Len(q) \in Nat /\ Len(r) \in Nat
  BY LenProperties
<1>1. Under(p, p)
  BY <1>0 DEF Under
<1>2. ASSUME Under(p, q), Under(q, r) PROVE Under(p, r)
  BY <1>0, <1>2 DEF Under
<1>3. ASSUME Under(p, q), Under(q, p) \/ Len(p) = Len(q) PROVE p = q
  <2>1. Len(p) = Len(q)
    BY <1>0, <1>3 DEF Under
  <2> QED
    BY <1>3, <2>1, SeqEqual DEF Under
<1> QED
  BY <1>1, <1>2, <1>3

LEMMA SameAppended ==
  \A p, q \in Seq(Nat), a, b \in Nat : Append(p, a) = Append(q, b) => p = q /\ a = b
BY AppendInjective

LEMMA UnderAppend ==
  ASSUME NEW p \in Seq(Nat), NEW q \in Seq(Nat), NEW a \in Nat, NEW b \in Nat
  PROVE  /\ Append(p, a) \in Seq(Nat) /\ Append(p, a) # <<>>
         /\ Len(Append(p, a)) = Len(p) + 1
         /\ Under(p, Append(p, a)) /\ ~Under(Append(p, a), p)
         /\ Under(p, q) => Under(p, Append(q, b))
         /\ Under(p, Append(q, b)) => Under(p, q) \/ p = Append(q, b)
<1>0. Len(p) \in Nat /\ Len(q) \in Nat
  BY LenProperties
<1>1. /\ Append(p, a) \in Seq(Nat) /\ Append(p, a) # <<>>
      /\ Len(Append(p, a)) = Len(p) + 1
      /\ \A i \in 1..Len(p) : Append(p, a)[i] = p[i]
  BY AppendProperties
<1>2. /\ Append(q, b) \in Seq(Nat)
      /\ Len(Append(q, b)) = Len(q) + 1
      /\ \A i \in 1..Len(q) : Append(q, b)[i] = q[i]
  BY AppendProperties
<1> DEFINE pa == Append(p, a)
           qb == Append(q, b)
<1> HIDE DEF pa, qb
<1>4. Under(p, pa) /\ ~Under(pa, p)
  BY <1>0, <1>1 DEF Under, pa
<1>5. ASSUME Under(p, q) PROVE Under(p, qb)
  BY <1>0, <1>2, <1>5 DEF Under, qb
<1>6. ASSUME Under(p, qb), p # qb PROVE Under(p, q)
  <2>1. Len(p) # Len(qb)
    BY <1>2, <1>6, UnderIsOrder DEF qb
  <2>2. Len(qb) = Len(q) + 1 /\ Len(p) <= Len(qb) /\ \A i \in 1..Len(p) : p[i] = qb[i]
    BY <1>2, <1>6 DEF Under, qb
  <2>3. Len(p) <= Len(q) /\ \A i \in 1..Len(p) : i \in 1..Len(q)
    BY <1>0, <2>1, <2>2
  <2>4. \A i \in 1..Len(p) : p[i] = q[i]
    BY <1>2, <2>2, <2>3 DEF qb
  <2> QED
    BY <2>3, <2>4 DEF Under
<1> QED
  BY <1>1, <1>4, <1>5, <1>6 DEF pa, qb

----------------------------------------------------------------------------
(* What the walk can come to.  A visit is a directory under a path. *)
Places(d) == {d.root} \cup {e.to : e \in UNION {d.entries[dir] : dir \in d.readable}}
Visits(d) == [path : Seq(Nat), dir : Places(d), links : Nat]

LEMMA ChildIs ==
  ASSUME NEW d \in Disks, NEW x \in Visits(d), NEW e \in Entries(d, x)
  PROVE  /\ Child(x, e) \in Visits(d) /\ Child(x, e).path = Append(x.path, e.name)
         /\ x.path \in Seq(Nat) /\ e.name \in Nat
<1>1. x.dir \in d.readable /\ e \in d.entries[x.dir]
  BY DEF Entries
<1>2. e.name \in Nat /\ e.to \in Places(d) /\ x.path \in Seq(Nat) /\ x.links \in Nat
  BY <1>1, DisksAssumption DEF Places, Visits
<1>3. Append(x.path, e.name) \in Seq(Nat)
  BY <1>2, AppendProperties
<1>4. (x.links + IF e.link THEN 1 ELSE 0) \in Nat
  BY <1>2
<1> QED
  BY <1>2, <1>3, <1>4 DEF Child, Visits

(* The levels of the reference exist: one after the other. *)
LEMMA DirsAre ==
  ASSUME NEW d \in Disks
  PROVE  /\ Dirs(d)[0] = {Root(d)}
         /\ \A n \in 1..MaxDepth : Dirs(d)[n] = UNION {Inside(d, x) : x \in Dirs(d)[n - 1]}
         /\ \A n \in 0..MaxDepth : Dirs(d)[n] \in SUBSET Visits(d)
<1> DEFINE S == SUBSET Visits(d)
           next_(s) == UNION {Inside(d, x) : x \in s}
           step == [n \in Nat |-> [s \in S |-> next_(s)]]
           Is(g) == g = [n \in 0..MaxDepth |-> IF n = 0 THEN {Root(d)} ELSE next_(g[n - 1])]
<1>0. MaxDepth \in Nat
  BY DepthAssumption
<1>1. {Root(d)} \in S
  BY EmptySeq DEF Root, Visits, Places
<1>2. \A s \in S : next_(s) \in S
  BY ChildIs DEF Inside
<1> HIDE DEF S, next_
<1>3. step \in [Nat -> [S -> S]] /\ \A n \in Nat, s \in S : step[n][s] = next_(s)
  BY <1>2
<1> HIDE DEF step
<1>4. PICK f \in [Nat -> S] : Follows(f, {Root(d)}, step)
  BY <1>1, <1>3, Recursion
<1>5. f[0] = {Root(d)} /\ \A n \in Nat : f[n + 1] = next_(f[n])
  BY <1>3, <1>4 DEF Follows
<1> DEFINE g0 == [n \in 0..MaxDepth |-> f[n]]
<1>6. Is(g0)
  <2>1. ASSUME NEW n \in 0..MaxDepth, n # 0 PROVE f[n] = next_(g0[n - 1])
    <3>1. n - 1 \in Nat /\ n - 1 + 1 = n /\ n - 1 \in 0..MaxDepth
      BY <1>0, <2>1
    <3>2. f[n - 1 + 1] = next_(f[n - 1])
      BY <1>5, <3>1
    <3> QED
      BY <3>1, <3>2
  <2> QED
    BY <1>5, <2>1
<1> DEFINE deep == CHOOSE g : Is(g)
<1>7. Is(deep)
  BY <1>6, Zenon
<1>8. Dirs(d) = deep
  BY DEF Dirs, next_
<1> HIDE DEF deep
<1>9. /\ deep[0] = {Root(d)}
      /\ \A n \in 1..MaxDepth : deep[n] = next_(deep[n - 1])
  <2>1. \A n \in 0..MaxDepth : deep[n] = IF n = 0 THEN {Root(d)} ELSE next_(deep[n - 1])
    BY <1>7
  <2> QED
    BY <1>0, <2>1
<1>10. \A n \in 0..MaxDepth : deep[n] \in S
  <2> DEFINE T == {n \in Nat : n <= MaxDepth /\ deep[n] \notin S}
  <2> SUFFICES ASSUME T # {} PROVE FALSE
    BY <1>0
  <2>1. PICK m \in T : \A k \in Nat : k < m => k \notin T
    <3>1. T \in SUBSET Nat
      OBVIOUS
    <3> HIDE DEF T
    <3> QED
      BY <3>1, LeastElement
  <2>2. m # 0
    BY <1>1, <1>9
  <2>3. m - 1 \in Nat /\ m - 1 < m /\ m - 1 <= MaxDepth /\ m \in 1..MaxDepth
    BY <1>0, <2>2
  <2>4. deep[m - 1] \in S
    BY <2>1, <2>3
  <2> QED
    BY <1>2, <1>9, <2>1, <2>3, <2>4
<1> QED
  BY <1>8, <1>9, <1>10 DEF next_, S

(* The root is reached, with all that is inside what is reached, and       *)
(* nothing else.                                                           *)
LEMMA ReachedAre ==
  ASSUME NEW d \in Disks
  PROVE  /\ Root(d) \in Reached(d) /\ Reached(d) \in SUBSET Visits(d)
         /\ \A x \in Reached(d) : Inside(d, x) \in SUBSET Reached(d)
         /\ \A y \in Reached(d) : y = Root(d) \/ \E x \in Reached(d) : y \in Inside(d, x)
<1>0. MaxDepth \in Nat /\ \A x \in Dirs(d)[MaxDepth] : Inside(d, x) = {}
  BY DepthAssumption
<1>1. Root(d) \in Reached(d)
  BY <1>0, DirsAre DEF Reached
<1>2. Reached(d) \in SUBSET Visits(d)
  BY DirsAre DEF Reached
<1>3. ASSUME NEW x \in Reached(d) PROVE Inside(d, x) \in SUBSET Reached(d)
  <2>1. PICK n \in 0..MaxDepth : x \in Dirs(d)[n]
    BY <1>3 DEF Reached
  <2>2. CASE n = MaxDepth
    BY <1>0, <2>1, <2>2
  <2>3. CASE n # MaxDepth
    <3>1. n + 1 \in 1..MaxDepth /\ n + 1 - 1 = n /\ n + 1 \in 0..MaxDepth
      BY <1>0, <2>3
    <3>2. Dirs(d)[n + 1] = UNION {Inside(d, y) : y \in Dirs(d)[n + 1 - 1]}
      BY <3>1, DirsAre
    <3>3. Inside(d, x) \in SUBSET Dirs(d)[n + 1]
      BY <2>1, <3>1, <3>2
    <3> QED
      BY <3>1, <3>3 DEF Reached
  <2> QED
    BY <2>2, <2>3
<1>4. ASSUME NEW y \in Reached(d), y # Root(d)
      PROVE  \E x \in Reached(d) : y \in Inside(d, x)
  <2>1. PICK n \in 0..MaxDepth : y \in Dirs(d)[n]
    BY <1>4 DEF Reached
  <2>2. n # 0
    BY <1>4, <2>1, DirsAre
  <2>3. n \in 1..MaxDepth /\ n - 1 \in 0..MaxDepth
    BY <1>0, <2>2
  <2>4. PICK x \in Dirs(d)[n - 1] : y \in Inside(d, x)
    BY <2>1, <2>3, DirsAre
  <2> QED
    BY <2>3, <2>4 DEF Reached
<1> QED
  BY <1>1, <1>2, <1>3, <1>4

(* One directory is a child of another, by one of its entries. *)
LEMMA InsideIs ==
  ASSUME NEW d \in Disks, NEW x \in Reached(d), NEW y \in Inside(d, x)
  PROVE  /\ x.path \in Seq(Nat) /\ y.path \in Seq(Nat) /\ y \in Reached(d)
         /\ \E e \in Entries(d, x) :
              y = Child(x, e) /\ e.name \in Nat /\ y.path = Append(x.path, e.name)
<1>1. x \in Visits(d) /\ y \in Visits(d) /\ y \in Reached(d)
  BY ReachedAre
<1>2. PICK e \in Entries(d, x) : y = Child(x, e)
  BY DEF Inside
<1> QED
  BY <1>1, <1>2, ChildIs DEF Visits

(* A path leads to one directory. *)
LEMMA PathsDiffer ==
  ASSUME NEW d \in Disks
  PROVE  \A x, y \in Reached(d) : x.path = y.path => x = y
<1> DEFINE T == {n \in Nat : \E x, y \in Reached(d) :
                               Len(x.path) = n /\ x.path = y.path /\ x # y}
<1>0. \A x \in Reached(d) : x.path \in Seq(Nat) /\ Len(x.path) \in Nat
  BY ReachedAre, LenProperties DEF Visits
<1> SUFFICES ASSUME T # {} PROVE FALSE
  BY <1>0
<1>1. PICK n \in T : \A i \in Nat : i < n => i \notin T
  <2>1. T \in SUBSET Nat
    OBVIOUS
  <2> HIDE DEF T
  <2> QED
    BY <2>1, LeastElement
<1>2. PICK x \in Reached(d), y \in Reached(d) : Len(x.path) = n /\ x.path = y.path /\ x # y
  BY <1>1
<1>3. ASSUME NEW v \in Reached(d), NEW w \in Reached(d), v.path = w.path, v = Root(d)
      PROVE  w = Root(d)
  <2> SUFFICES ASSUME w # Root(d) PROVE FALSE
    OBVIOUS
  <2>1. PICK z \in Reached(d) : w \in Inside(d, z)
    BY ReachedAre
  <2>2. PICK e \in Entries(d, z) : e.name \in Nat /\ w.path = Append(z.path, e.name)
    BY <2>1, InsideIs
  <2>3. w.path # <<>>
    <3>1. z.path \in Seq(Nat)
      BY <1>0
    <3>2. Append(z.path, e.name) # <<>>
      BY <2>2, <3>1, UnderAppend, Zenon
    <3> QED
      BY <2>2, <3>2
  <2> QED
    BY <1>3, <2>3 DEF Root
<1>4. x # Root(d) /\ y # Root(d)
  BY <1>2, <1>3
<1>5. PICK v \in Reached(d) : x \in Inside(d, v)
  BY <1>4, ReachedAre
<1>6. PICK w \in Reached(d) : y \in Inside(d, w)
  BY <1>4, ReachedAre
<1>7. PICK e \in Entries(d, v) :
        x = Child(v, e) /\ e.name \in Nat /\ x.path = Append(v.path, e.name)
  BY <1>5, InsideIs
<1>8. PICK f \in Entries(d, w) :
        y = Child(w, f) /\ f.name \in Nat /\ y.path = Append(w.path, f.name)
  BY <1>6, InsideIs
<1>9. v.path = w.path /\ e.name = f.name
  <2>1. v.path \in Seq(Nat) /\ w.path \in Seq(Nat) /\ e.name \in Nat /\ f.name \in Nat
    BY <1>0, <1>7, <1>8
  <2>2. Append(v.path, e.name) = Append(w.path, f.name)
    BY <1>2, <1>7, <1>8
  <2> QED
    BY <2>1, <2>2, SameAppended
<1>10. Len(v.path) \in Nat /\ Len(v.path) < n
  BY <1>0, <1>2, <1>7, UnderAppend
<1>11. Len(v.path) \notin T
  BY <1>1, <1>10
<1>12. v = w
  BY <1>9, <1>10, <1>11
<1>13. e = f
  <2>1. v.dir \in d.readable /\ e \in d.entries[v.dir] /\ f \in d.entries[v.dir]
    BY <1>7, <1>8, <1>12 DEF Entries
  <2> QED
    BY <1>9, <2>1, DisksAssumption
<1> QED
  BY <1>2, <1>7, <1>8, <1>12, <1>13

(* What is reached below a directory is in one of the directories in it. *)
LEMMA BelowIsInside ==
  ASSUME NEW d \in Disks, NEW x \in Reached(d)
  PROVE  \A y \in Reached(d) :
           Under(x.path, y.path) /\ x # y => \E c \in Inside(d, x) : Under(c.path, y.path)
<1> DEFINE T == {n \in Nat : \E y \in Reached(d) :
                   /\ Len(y.path) = n /\ Under(x.path, y.path) /\ x # y
                   /\ ~\E c \in Inside(d, x) : Under(c.path, y.path)}
<1>0. \A y \in Reached(d) : y.path \in Seq(Nat) /\ Len(y.path) \in Nat
  BY ReachedAre, LenProperties DEF Visits
<1> SUFFICES ASSUME T # {} PROVE FALSE
  BY <1>0
<1>1. PICK n \in T : \A i \in Nat : i < n => i \notin T
  <2>1. T \in SUBSET Nat
    OBVIOUS
  <2> HIDE DEF T
  <2> QED
    BY <2>1, LeastElement
<1>2. PICK y \in Reached(d) :
        /\ Len(y.path) = n /\ Under(x.path, y.path) /\ x # y
        /\ ~\E c \in Inside(d, x) : Under(c.path, y.path)
  BY <1>1
<1>3. y # Root(d)
  <2> SUFFICES ASSUME y = Root(d) PROVE FALSE
    OBVIOUS
  <2>1. y.path = <<>> /\ Len(y.path) = 0
    BY EmptySeq DEF Root
  <2>2. Len(x.path) = Len(y.path)
    BY <1>0, <1>2, <2>1 DEF Under
  <2>3. x.path = y.path
    BY <1>0, <1>2, <2>2, UnderIsOrder
  <2> QED
    BY <1>2, <2>3, PathsDiffer
<1>4. PICK z \in Reached(d) : y \in Inside(d, z)
  BY <1>3, ReachedAre
<1>5. PICK e \in Entries(d, z) : e.name \in Nat /\ y.path = Append(z.path, e.name)
  BY <1>4, InsideIs
<1>6. x.path # y.path
  BY <1>2, PathsDiffer
<1>7. Under(x.path, z.path)
  <2>1. x.path \in Seq(Nat) /\ z.path \in Seq(Nat) /\ e.name \in Nat
    BY <1>0, <1>5
  <2>2. Under(x.path, Append(z.path, e.name)) /\ x.path # Append(z.path, e.name)
    BY <1>2, <1>5, <1>6
  <2> QED
    BY <2>1, <2>2, UnderAppend, Zenon
<1>8. x # z
  BY <1>0, <1>2, <1>4, UnderIsOrder
<1>9. Len(z.path) \in Nat /\ Len(z.path) < n
  BY <1>0, <1>2, <1>5, UnderAppend
<1>10. Len(z.path) \notin T
  BY <1>1, <1>9
<1>11. PICK c \in Inside(d, x) : Under(c.path, z.path)
  BY <1>7, <1>8, <1>9, <1>10
<1>12. c.path \in Seq(Nat)
  BY InsideIs
<1>13. Under(c.path, y.path)
  <2>1. z.path \in Seq(Nat) /\ e.name \in Nat
    BY <1>0, <1>5
  <2>2. Under(c.path, Append(z.path, e.name))
    BY <1>11, <1>12, <2>1, UnderAppend, Zenon
  <2> QED
    BY <1>5, <2>2
<1> QED
  BY <1>2, <1>13

(* The directories in one are finitely many, as are its files. *)
LEMMA InsideIsFinite ==
  ASSUME NEW d \in Disks, NEW x \in Reached(d)
  PROVE  IsFiniteSet(Inside(d, x)) /\ IsFiniteSet(FilesIn(d, x))
<1>1. IsFiniteSet(Entries(d, x))
  BY DisksAssumption, FS_EmptySet DEF Entries
<1> DEFINE D == {e \in Entries(d, x) : IsDir(x, e) /\ e.name \notin Skipped}
           F == {e \in Entries(d, x) : Listed(x, e)}
           child == [e \in D |-> Child(x, e)]
           path_ == [e \in F |-> Child(x, e).path]
<1>2. IsFiniteSet(D) /\ IsFiniteSet(F)
  BY <1>1, FS_Subset
<1>3. child \in Surjection(D, Inside(d, x))
  BY DEF Surjection, Inside
<1>4. path_ \in Surjection(F, FilesIn(d, x))
  BY DEF Surjection, FilesIn
<1> HIDE DEF D, F, child, path_
<1> QED
  BY <1>2, <1>3, <1>4, FS_Surjection

(* Files of different directories have different paths. *)
LEMMA FilesDiffer ==
  ASSUME NEW d \in Disks, NEW x \in Reached(d), NEW y \in Reached(d), x # y
  PROVE  FilesIn(d, x) \cap FilesIn(d, y) = {}
<1> SUFFICES ASSUME NEW f \in FilesIn(d, x), f \in FilesIn(d, y) PROVE FALSE
  OBVIOUS
<1>0. x \in Visits(d) /\ y \in Visits(d)
  BY ReachedAre
<1>1. PICK e \in Entries(d, x) : f = Child(x, e).path
  BY DEF FilesIn
<1>2. PICK g \in Entries(d, y) : f = Child(y, g).path
  BY DEF FilesIn
<1>3. /\ f = Append(x.path, e.name) /\ x.path \in Seq(Nat) /\ e.name \in Nat
      /\ f = Append(y.path, g.name) /\ y.path \in Seq(Nat) /\ g.name \in Nat
  BY <1>0, <1>1, <1>2, ChildIs
<1>4. x.path = y.path
  <2>1. Append(x.path, e.name) = Append(y.path, g.name)
    BY <1>3
  <2> QED
    BY <1>3, <2>1, SameAppended
<1> QED
  BY <1>4, PathsDiffer

LEMMA FilesArePaths ==
  ASSUME NEW d \in Disks
  PROVE  Sources(d) \in SUBSET Seq(Nat)
<1>1. ASSUME NEW x \in Reached(d), NEW f \in FilesIn(d, x) PROVE f \in Seq(Nat)
  <2>1. PICK e \in Entries(d, x) : f = Child(x, e).path
    BY <1>1 DEF FilesIn
  <2> QED
    BY <2>1, ReachedAre, ChildIs DEF Visits
<1> QED
  BY <1>1 DEF Sources
----------------------------------------------------------------------------
(* The walk.  What is still to be visited is what is reached under a       *)
(* pending directory; no pending directory is under another.               *)
Ahead(d, P) == {x \in Reached(d) : \E p \in P : Under(p.path, x.path)}
Behind(d, P) == Reached(d) \ Ahead(d, P)
Apart(P) == \A p, q \in P : Under(p.path, q.path) => p = q
Pending(d, P) == P \in SUBSET Reached(d) /\ Apart(P)
FilesOf(d, X) == UNION {FilesIn(d, x) : x \in X}

(* In place of a directory, those inside it. *)
LEMMA VisitingOne ==
  ASSUME NEW d \in Disks, NEW P, Pending(d, P), NEW top \in P
  PROVE  LET Q == (P \ {top}) \cup Inside(d, top) IN
         /\ Pending(d, Q) /\ (P \ {top}) \cap Inside(d, top) = {}
         /\ top \in Reached(d) /\ top \notin Behind(d, P)
         /\ Behind(d, Q) = Behind(d, P) \cup {top}
<1> DEFINE Q == (P \ {top}) \cup Inside(d, top)
<1>0. /\ P \in SUBSET Reached(d) /\ top \in Reached(d) /\ Apart(P)
      /\ Inside(d, top) \in SUBSET Reached(d)
      /\ \A x \in Reached(d) : x.path \in Seq(Nat)
  BY ReachedAre DEF Pending, Visits
<1>1. ASSUME NEW c \in Inside(d, top)
      PROVE  /\ c \in Reached(d) /\ c.path \in Seq(Nat) /\ Len(c.path) = Len(top.path) + 1
             /\ Under(top.path, c.path) /\ ~Under(c.path, top.path)
             /\ \A x \in Reached(d) : Under(x.path, c.path) => Under(x.path, top.path) \/ x.path = c.path
  <2>1. PICK e \in Entries(d, top) : e.name \in Nat /\ c.path = Append(top.path, e.name)
    BY <1>0, InsideIs
  <2>2. /\ Append(top.path, e.name) \in Seq(Nat)
        /\ Len(Append(top.path, e.name)) = Len(top.path) + 1
        /\ Under(top.path, Append(top.path, e.name)) /\ ~Under(Append(top.path, e.name), top.path)
    BY <1>0, <2>1, UnderAppend, Zenon
  <2>3. ASSUME NEW x \in Reached(d), Under(x.path, Append(top.path, e.name))
        PROVE  Under(x.path, top.path) \/ x.path = Append(top.path, e.name)
    <3>1. x.path \in Seq(Nat) /\ top.path \in Seq(Nat) /\ e.name \in Nat
      BY <1>0, <2>1
    <3> QED
      BY <2>3, <3>1, UnderAppend, ZenonT(30)
  <2> QED
    BY <1>0, <2>1, <2>2, <2>3
<1>2. ASSUME NEW p \in P, p # top, NEW c \in Inside(d, top)
      PROVE  ~Under(p.path, c.path) /\ ~Under(c.path, p.path)
  <2>1. ~Under(p.path, top.path) /\ ~Under(top.path, p.path)
    BY <1>0, <1>2 DEF Apart
  <2>2. p.path \in Seq(Nat) /\ c.path \in Seq(Nat) /\ top.path \in Seq(Nat)
    BY <1>0, <1>1
  <2>3. Under(c.path, p.path) => Under(top.path, p.path)
    BY <1>1, <2>2, UnderIsOrder, Zenon
  <2>4. Under(p.path, c.path) => p.path = c.path
    BY <1>0, <1>1, <2>1
  <2>5. p.path = c.path => Under(top.path, p.path)
    BY <1>1
  <2> QED
    BY <2>1, <2>3, <2>4, <2>5
<1>3. Apart(Q)
  <2> SUFFICES ASSUME NEW p \in Q, NEW q \in Q, Under(p.path, q.path) PROVE p = q
    BY DEF Apart
  <2>1. CASE p \in P \ {top} /\ q \in P \ {top}
    BY <1>0, <2>1 DEF Apart
  <2>2. CASE p \in Inside(d, top) /\ q \in Inside(d, top)
    <3>1. p.path \in Seq(Nat) /\ q.path \in Seq(Nat) /\ Len(p.path) = Len(q.path)
      BY <1>1, <2>2
    <3>2. p.path = q.path
      BY <3>1, UnderIsOrder, Zenon
    <3> QED
      BY <1>0, <2>2, <3>2, PathsDiffer
  <2>3. CASE p \in P \ {top} /\ q \in Inside(d, top)
    BY <1>2, <2>3
  <2>4. CASE p \in Inside(d, top) /\ q \in P \ {top}
    BY <1>2, <2>4
  <2> QED
    BY <2>1, <2>2, <2>3, <2>4
<1>4. (P \ {top}) \cap Inside(d, top) = {}
  <2> SUFFICES ASSUME NEW c \in Inside(d, top), c \in P \ {top} PROVE FALSE
    OBVIOUS
  <2> QED
    BY <1>0, <1>1, <1>2, UnderIsOrder
<1>5. Pending(d, Q)
  BY <1>0, <1>3 DEF Pending
<1>6. top \in Ahead(d, P)
  BY <1>0, UnderIsOrder DEF Ahead
<1>7. top \notin Ahead(d, Q)
  <2>1. \A p \in P \ {top} : ~Under(p.path, top.path)
    BY <1>0 DEF Apart
  <2> QED
    BY <1>1, <2>1 DEF Ahead
<1>8. ASSUME NEW x \in Reached(d), x # top PROVE x \in Ahead(d, P) <=> x \in Ahead(d, Q)
  <2>1. ASSUME x \in Ahead(d, P) PROVE x \in Ahead(d, Q)
    <3>1. PICK p \in P : Under(p.path, x.path)
      BY <2>1 DEF Ahead
    <3>2. CASE p = top
      <4>1. \E c \in Inside(d, top) : Under(c.path, x.path)
        BY <1>0, <1>8, <3>1, <3>2, BelowIsInside
      <4> QED
        BY <4>1 DEF Ahead
    <3>3. CASE p # top
      BY <3>1, <3>3 DEF Ahead
    <3> QED
      BY <3>2, <3>3
  <2>2. ASSUME x \in Ahead(d, Q) PROVE x \in Ahead(d, P)
    <3>1. PICK p \in Q : Under(p.path, x.path)
      BY <2>2 DEF Ahead
    <3>2. CASE p \in Inside(d, top)
      <4>1. Under(top.path, p.path) /\ p.path \in Seq(Nat) /\ top.path \in Seq(Nat) /\ x.path \in Seq(Nat)
        BY <1>0, <1>1, <3>2
      <4>2. Under(top.path, x.path)
        BY <3>1, <4>1, UnderIsOrder, Zenon
      <4> QED
        BY <4>2 DEF Ahead
    <3>3. CASE p \in P \ {top}
      BY <3>1, <3>3 DEF Ahead
    <3> QED
      BY <3>2, <3>3
  <2> QED
    BY <2>1, <2>2
<1>9. Behind(d, Q) = Behind(d, P) \cup {top}
  BY <1>0, <1>6, <1>7, <1>8 DEF Behind
<1> QED
  BY <1>0, <1>4, <1>5, <1>6, <1>9 DEF Behind

(* The stack lists what is pending, and the files those of what is behind. *)
Walking(d, s, f) ==
  \E P : /\ Pending(d, P) /\ Enumerates(s, P)
         /\ Enumerates(f, FilesOf(d, Behind(d, P)))

LEMMA WalkStarts ==
  ASSUME NEW d \in Disks
  PROVE  Walking(d, <<Root(d)>>, <<>>)
<1> DEFINE P == {Root(d)}
<1>0. /\ Root(d) \in Reached(d) /\ Root(d).path \in Seq(Nat) /\ Root(d).path = <<>>
      /\ \A x \in Reached(d) : x.path \in Seq(Nat)
  BY ReachedAre, EmptySeq DEF Visits, Root
<1>1. Pending(d, P)
  BY <1>0 DEF Pending, Apart
<1>2. Enumerates(<<Root(d)>>, P)
  BY DEF Enumerates
<1>3. Behind(d, P) = {}
  <2>1. \A x \in Reached(d) : Under(Root(d).path, x.path)
    BY <1>0, EmptySeq, LenProperties DEF Under
  <2> QED
    BY <2>1 DEF Behind, Ahead
<1>4. FilesOf(d, Behind(d, P)) = {}
  BY <1>3 DEF FilesOf
<1>5. Enumerates(<<>>, {})
  BY EmptySeq DEF Enumerates
<1> QED
  BY <1>1, <1>2, <1>4, <1>5 DEF Walking

LEMMA WalkGoesOn ==
  ASSUME NEW d \in Disks, NEW s, NEW f, Walking(d, s, f), s # <<>>,
         NEW more \in SetToSeqs(Inside(d, Last(s)))
  PROVE  Walking(d, Front(s) \o more, f \o SetToSeq(FilesIn(d, Last(s))))
<1> DEFINE top == Last(s)
<1>1. PICK P : /\ Pending(d, P) /\ Enumerates(s, P)
               /\ Enumerates(f, FilesOf(d, Behind(d, P)))
  BY DEF Walking
<1>2. top \in P /\ Enumerates(Front(s), P \ {top})
  BY <1>1, FrontEnumerates
<1> HIDE DEF top
<1> DEFINE Q == (P \ {top}) \cup Inside(d, top)
<1>3. /\ Pending(d, Q) /\ (P \ {top}) \cap Inside(d, top) = {}
      /\ top \in Reached(d) /\ top \notin Behind(d, P)
      /\ Behind(d, Q) = Behind(d, P) \cup {top}
  BY <1>1, <1>2, VisitingOne
<1>4. IsFiniteSet(Inside(d, top)) /\ IsFiniteSet(FilesIn(d, top))
  BY <1>3, InsideIsFinite
<1>5. Enumerates(Front(s) \o more, Q)
  <2>1. Enumerates(more, Inside(d, top))
    BY <1>4, SeqsOfSet DEF top
  <2> QED
    BY <1>2, <1>3, <2>1, ConcatEnumerates
<1>6. FilesOf(d, Behind(d, P)) \cap FilesIn(d, top) = {}
  <2>1. \A x \in Behind(d, P) : x \in Reached(d) /\ x # top
    BY <1>3 DEF Behind
  <2>2. \A x \in Behind(d, P) : FilesIn(d, x) \cap FilesIn(d, top) = {}
    BY <1>3, <2>1, FilesDiffer
  <2> QED
    BY <2>2 DEF FilesOf
<1>7. FilesOf(d, Behind(d, Q)) = FilesOf(d, Behind(d, P)) \cup FilesIn(d, top)
  BY <1>3 DEF FilesOf
<1>8. Enumerates(SetToSeq(FilesIn(d, top)), FilesIn(d, top))
  BY <1>4, SeqOfSet
<1>9. Enumerates(f \o SetToSeq(FilesIn(d, top)), FilesOf(d, Behind(d, Q)))
  <2>1. Enumerates(f \o SetToSeq(FilesIn(d, top)),
                   FilesOf(d, Behind(d, P)) \cup FilesIn(d, top))
    BY <1>1, <1>6, <1>8, ConcatEnumerates, Zenon
  <2> QED
    BY <1>7, <2>1, Zenon
<1> QED
  BY <1>3, <1>5, <1>9 DEF Walking, top

(* With nothing left to visit, all the files are found. *)
LEMMA WalkEnds ==
  ASSUME NEW d \in Disks, NEW f, Walking(d, <<>>, f)
  PROVE  /\ Enumerates(f, Sources(d)) /\ Enumerates(Sorted(f), Sources(d))
         /\ ToSet(Sorted(f)) = Sources(d) /\ Len(Sorted(f)) = Cardinality(Sources(d))
         /\ \A i \in 1..(Len(Sorted(f)) - 1) : Before(Sorted(f)[i], Sorted(f)[i + 1])
<1>1. PICK P : /\ Pending(d, P) /\ Enumerates(<<>>, P)
               /\ Enumerates(f, FilesOf(d, Behind(d, P)))
  BY DEF Walking
<1>2. P = {}
  BY <1>1 DEF Enumerates
<1>3. Behind(d, P) = Reached(d)
  BY <1>2 DEF Behind, Ahead
<1>4. Enumerates(f, Sources(d))
  BY <1>1, <1>3 DEF FilesOf, Sources
<1>5. Enumerates(Sorted(f), Sources(d))
  BY <1>4, FilesArePaths, SortedIs
<1>6. Len(f) = Cardinality(Sources(d))
  BY <1>4, EnumeratesSet
<1>7. ToSet(Sorted(f)) = Sources(d) /\ Len(Sorted(f)) = Cardinality(Sources(d))
  BY <1>5, EnumeratesSet
<1>8. \A i \in 1..(Len(f) - 1) : Before(Sorted(f)[i], Sorted(f)[i + 1])
  BY <1>4, FilesArePaths, SortedIs
<1> QED
  BY <1>4, <1>5, <1>6, <1>7, <1>8

(* The invariant of the walk: until it is listed, what the files and the   *)
(* stack hold between them is all there is.                                *)
Walked ==
  /\ disk \in Disks /\ repo = Cardinality(Sources(disk))
  /\ stage \in {"find", "read", "walk"} => Walking(disk, stack, files)
  /\ WalkIsExact

(* The files sampled from and asked about are those the walk lists: every  *)
(* source file that can be reached without entering a skipped directory,   *)
(* under every path that leads to it, once, and sorted, in whatever order  *)
(* the directories were read.                                              *)
THEOREM WalkLists == StartSpec => []WalkIsExact
<1>1. StartInit => Walked
  BY WalkStarts DEF StartInit, Walked, WalkIsExact
<1>2. Walked /\ [StartNext]_allVars => Walked'
  <2> SUFFICES ASSUME Walked, [StartNext]_allVars PROVE Walked'
    OBVIOUS
  <2>0. disk \in Disks /\ repo = Cardinality(Sources(disk))
    BY DEF Walked
  <2>1. CASE FindConfig /\ UNCHANGED vars
    <3>1. /\ UNCHANGED <<disk, stack, files, repo>> /\ stage = "find"
          /\ stage' \in {"read", "failed"}
      BY <2>1 DEF FindConfig, Fail, vars, readyVars
    <3> QED
      BY <3>1 DEF Walked, WalkIsExact
  <2>2. CASE ReadConfig /\ UNCHANGED vars
    <3>1. /\ UNCHANGED <<disk, stack, files, repo>> /\ stage = "read"
          /\ stage' \in {"walk", "failed"}
      BY <2>2 DEF ReadConfig, Fail, vars, readyVars
    <3> QED
      BY <3>1 DEF Walked, WalkIsExact
  <2>3. CASE VisitDir /\ UNCHANGED vars
    <3>1. /\ UNCHANGED <<disk, stage, repo>> /\ stage = "walk" /\ stack # <<>>
      BY <2>3 DEF VisitDir, vars, readyVars
    <3>2. Walking(disk, stack, files)
      BY <3>1 DEF Walked
    <3>3. \E more \in SetToSeqs(Inside(disk, Last(stack))) : stack' = Front(stack) \o more
      BY <2>3 DEF VisitDir, Inside, Pushed
    <3>4. files' = files \o SetToSeq(FilesIn(disk, Last(stack)))
      BY <2>3 DEF VisitDir, FilesIn
    <3>5. Walking(disk, stack', files')
      BY <2>0, <3>1, <3>2, <3>3, <3>4, WalkGoesOn
    <3> QED
      BY <2>0, <3>1, <3>5 DEF Walked, WalkIsExact
  <2>4. CASE Listing /\ UNCHANGED vars
    <3>1. /\ UNCHANGED <<disk, repo>> /\ stage = "walk" /\ stack = <<>>
          /\ files' = Sorted(files) /\ stage' \in {"go", "failed"}
      BY <2>4 DEF Listing, Fail, vars, readyVars
    <3>2. Walking(disk, <<>>, files)
      BY <3>1 DEF Walked
    <3>3. WalkIsExact'
      BY <2>0, <3>1, <3>2, WalkEnds DEF WalkIsExact
    <3> QED
      BY <2>0, <3>1, <3>3 DEF Walked
  <2>5. CASE MayStart /\ Next /\ UNCHANGED startVars
    <3>1. UNCHANGED <<disk, stage, stack, files>>
      BY <2>5 DEF startVars
    <3>2. repo' = repo
      BY <2>5
      DEF Next, ReadyStep, Done, OpenFile, OpenFails, SymbolsFound, SymbolsFail, Gathered,
          Round, OutOfTime, Ask, RoundOver, Rest, Answered, NotThisOne, Modified,
          vars, readyVars
    <3> QED
      BY <3>1, <3>2 DEF Walked, WalkIsExact
  <2>6. CASE UNCHANGED allVars
    BY <2>6 DEF allVars, vars, readyVars, startVars, Walked, WalkIsExact
  <2> QED
    BY <2>1, <2>2, <2>3, <2>4, <2>5, <2>6 DEF StartNext, StartStep
<1>3. Walked => WalkIsExact
  BY DEF Walked
<1> QED
  BY <1>1, <1>2, <1>3, PTL DEF StartSpec
=============================================================================
