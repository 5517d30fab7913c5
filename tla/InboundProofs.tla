---------------------------- MODULE InboundProofs ----------------------------
(***************************************************************************)
(* What a call is told of its answer: each answer in its turn, a failure   *)
(* as a failure, and of a list what the server listed in it.               *)
(***************************************************************************)
EXTENDS Inbound, ReadLoopProofs

(* The messages of some frames, and those of one. *)
Asks(body) == IF Parses(body) THEN <<Message(body)>> ELSE <<>>
Messages(fs) == FlattenSeq([i \in DOMAIN fs |-> Asks(fs[i].body)])

Opened(fs) == {unit.message : unit \in {u \in Units(fs) : u.is = "open"}}

(* What a body opens with, if it parses, is in the stream. *)
LEMMA AsksType ==
  ASSUME NEW fs, NEW body \in Seq(Units(fs))
  PROVE  Asks(body) \in Seq(Opened(fs))
<1>1. CASE ~Parses(body)
  BY <1>1, EmptySeq DEF Asks
<1>2. CASE Parses(body)
  <2>1. PICK i \in Text(body), j \in Text(body) :
               Text(body) = {i, j} /\ i < j /\ body[i].is = "open"
    BY <1>2 DEF Parses
  <2>2. Text(body) \in SUBSET Nat /\ i \in 1..Len(body)
    BY LenProperties DEF Text
  <2>3. Min(Text(body)) = i
    <3>1. \A k \in Text(body) : i <= k
      BY <2>1, <2>2
    <3> QED
      BY <2>2, <3>1, MinIs
  <2>4. body[i] \in Units(fs)
    BY <2>2, ElementOfSeq
  <2>5. Message(body) = body[i].message
    BY <2>3 DEF Message, Start
  <2>6. Message(body) \in Opened(fs)
    BY <2>1, <2>4, <2>5 DEF Opened
  <2> QED
    BY <1>2, <2>6 DEF Asks
<1> QED
  BY <1>1, <1>2

LEMMA MessagesOfFirst ==
  ASSUME NEW fs \in Streams
  PROVE  /\ Messages(First(fs, 0)) = <<>>
         /\ \A k \in 0..Len(fs) : Messages(First(fs, k)) \in Seq(Opened(fs))
         /\ \A k \in 1..Len(fs) :
              Messages(First(fs, k)) = Messages(First(fs, k - 1)) \o Asks(fs[k].body)
         /\ \A k, m \in 0..Len(fs) : k <= m =>
              Begins(Opened(fs), Messages(First(fs, k)), Messages(First(fs, m)))
<1> DEFINE seqs == [i \in 1..Len(fs) |-> Asks(fs[i].body)]
           U == Opened(fs)
<1>0. Len(fs) \in Nat /\ \A i \in 1..Len(fs) : Asks(fs[i].body) \in Seq(U)
  BY StreamType, AsksType
<1> HIDE DEF U
<1>1. seqs \in Seq(Seq(U)) /\ Len(seqs) = Len(fs)
      /\ \A i \in 1..Len(fs) : seqs[i] = Asks(fs[i].body)
  BY <1>0
<1> HIDE DEF seqs
<1>2. ASSUME NEW k \in 0..Len(fs)
      PROVE  Messages(First(fs, k)) = FlattenSeq(SubSeq(seqs, 1, k))
  <2> DEFINE g == First(fs, k)
             part == [i \in DOMAIN g |-> Asks(g[i].body)]
  <2>1. Messages(g) = FlattenSeq(part)
    BY DEF Messages
  <2>2. DOMAIN g = 1..k /\ \A i \in 1..k : g[i] = fs[i]
    BY FirstType
  <2> HIDE DEF g
  <2>3. \A i \in 1..k : i \in 1..Len(fs)
    BY <1>0
  <2>4. \A i \in 1..k : part[i] = seqs[i]
    BY <1>1, <2>2, <2>3
  <2>5. part \in [1..k -> Seq(U)]
    BY <1>0, <2>2, <2>3
  <2> HIDE DEF part
  <2>6. part = SubSeq(seqs, 1, k)
    BY <1>0, <1>1, <2>4, <2>5, PartOfMap
  <2> QED
    BY <2>1, <2>6 DEF g
<1>3. /\ FlattenSeq(SubSeq(seqs, 1, 0)) = <<>>
      /\ \A k \in 0..Len(fs) : FlattenSeq(SubSeq(seqs, 1, k)) \in Seq(U)
      /\ \A k \in 1..Len(fs) :
           FlattenSeq(SubSeq(seqs, 1, k)) = FlattenSeq(SubSeq(seqs, 1, k - 1)) \o seqs[k]
      /\ \A k, m \in 0..Len(fs) : k <= m =>
           Begins(U, FlattenSeq(SubSeq(seqs, 1, k)), FlattenSeq(SubSeq(seqs, 1, m)))
  BY <1>1, FlattenedParts
<1>4. \A k \in 1..Len(fs) : k \in 0..Len(fs) /\ k - 1 \in 0..Len(fs)
  BY <1>0
<1>5. 0 \in 0..Len(fs)
  BY <1>0
<1> QED
  BY <1>1, <1>2, <1>3, <1>4, <1>5 DEF U

(* Each of these is the answer to the one of those at its place. *)
Answered(answers, asked) ==
  Len(answers) = Len(asked) /\ \A i \in 1..Len(asked) : answers[i] = Answer(asked[i])

LEMMA AnsweredConcat ==
  ASSUME NEW S, NEW T, NEW s \in Seq(S), NEW t \in Seq(S), NEW u \in Seq(T), NEW v \in Seq(T),
         Answered(s, u), Answered(t, v)
  PROVE  Answered(s \o t, u \o v)
<1>1. /\ Len(s) \in Nat /\ Len(t) \in Nat /\ Len(u) = Len(s) /\ Len(v) = Len(t)
  BY LenProperties DEF Answered
<1>2. /\ Len(s \o t) = Len(s) + Len(t)
      /\ \A i \in 1..(Len(s) + Len(t)) :
           (s \o t)[i] = IF i <= Len(s) THEN s[i] ELSE t[i - Len(s)]
  BY ConcatProperties
<1>3. /\ Len(u \o v) = Len(s) + Len(t)
      /\ \A i \in 1..(Len(s) + Len(t)) :
           (u \o v)[i] = IF i <= Len(s) THEN u[i] ELSE v[i - Len(s)]
  <2>1. /\ Len(u \o v) = Len(u) + Len(v)
        /\ \A i \in 1..(Len(u) + Len(v)) :
             (u \o v)[i] = IF i <= Len(u) THEN u[i] ELSE v[i - Len(u)]
    BY ConcatProperties
  <2> QED
    BY <1>1, <2>1
<1>4. ASSUME NEW i \in 1..(Len(s) + Len(t)) PROVE (s \o t)[i] = Answer((u \o v)[i])
  <2>1. CASE i <= Len(s)
    <3>1. i \in 1..Len(u)
      BY <1>1, <2>1
    <3> QED
      BY <1>2, <1>3, <2>1, <3>1 DEF Answered
  <2>2. CASE ~(i <= Len(s))
    <3>1. i - Len(s) \in 1..Len(v)
      BY <1>1, <2>2
    <3> QED
      BY <1>2, <1>3, <2>2, <3>1 DEF Answered
  <2> QED
    BY <2>1, <2>2
<1> QED
  BY <1>2, <1>3, <1>4 DEF Answered

LEMMA MeantIsAnswered ==
  ASSUME NEW fs \in Streams, NEW k \in 0..Len(fs)
  PROVE  Answered(Meant(First(fs, k)), Messages(First(fs, k)))
<1> DEFINE P(n) == Answered(Meant(First(fs, n)), Messages(First(fs, n)))
           T == {n \in Nat : n <= Len(fs) /\ ~P(n)}
<1>0. Len(fs) \in Nat
  BY StreamType
<1> SUFFICES ASSUME T # {} PROVE FALSE
  BY <1>0
<1>1. PICK n \in T : \A i \in Nat : i < n => i \notin T
  <2>1. T \in SUBSET Nat
    OBVIOUS
  <2> HIDE DEF T
  <2> QED
    BY <2>1, LeastElement
<1>2. n \in Nat /\ n <= Len(fs) /\ ~P(n)
  BY <1>1
<1>3. n # 0
  BY <1>2, MeantOfFirst, MessagesOfFirst, EmptySeq DEF Answered
<1>4. n \in 1..Len(fs) /\ n - 1 \in Nat /\ n - 1 < n /\ n - 1 <= Len(fs) /\ n - 1 \in 0..Len(fs)
  BY <1>0, <1>2, <1>3
<1>5. P(n - 1)
  BY <1>1, <1>4
<1> DEFINE body == fs[n].body
           s == Meant(First(fs, n - 1))
           u == Messages(First(fs, n - 1))
<1>6. body \in Seq(Units(fs))
  BY <1>4, StreamType
<1>7. Told(body) \in Seq(Answers(fs)) /\ Asks(body) \in Seq(Opened(fs))
  BY <1>6, ToldType, AsksType
<1>8. Answered(Told(body), Asks(body))
  BY DEF Answered, Told, Asks
<1>9. s \in Seq(Answers(fs)) /\ u \in Seq(Opened(fs))
  BY <1>4, MeantOfFirst, MessagesOfFirst
<1>10. Meant(First(fs, n)) = s \o Told(body) /\ Messages(First(fs, n)) = u \o Asks(body)
  BY <1>4, MeantOfFirst, MessagesOfFirst
<1>11. Answered(s, u)
  BY <1>5
<1> HIDE DEF s, u, body
<1>12. Answered(s \o Told(body), u \o Asks(body))
  BY <1>7, <1>8, <1>9, <1>11, AnsweredConcat, Zenon
<1> QED
  BY <1>2, <1>10, <1>12

(* The number of frames up to the first improper one. *)
SoundLength(fs) == Max({i \in 0..Len(fs) : \A j \in 1..i : Proper(fs[j])})

LEMMA MaxIs ==
  ASSUME NEW T \in SUBSET Nat, NEW m \in T, \A k \in T : k <= m
  PROVE  Max(T) = m
<1>1. \E n \in T : \A k \in T : n >= k
  OBVIOUS
<1>2. Max(T) \in T /\ \A k \in T : Max(T) >= k
  BY <1>1 DEF Max
<1>3. Max(T) \in Nat /\ Max(T) <= m /\ m <= Max(T)
  BY <1>2
<1> QED
  BY <1>3

LEMMA SoundIs ==
  ASSUME NEW fs \in Streams
  PROVE  /\ SoundLength(fs) \in 0..Len(fs) /\ AllProper(fs, SoundLength(fs))
         /\ \A k \in 0..Len(fs) : AllProper(fs, k) => k <= SoundLength(fs)
         /\ Asked(fs) = Messages(First(fs, SoundLength(fs)))
<1>0. Len(fs) \in Nat
  BY StreamType
<1> DEFINE T == {i \in 0..Len(fs) : \A j \in 1..i : Proper(fs[j])}
           R == {n \in Nat : n <= Len(fs) /\ Len(fs) - n \in T}
<1>1. 0 \in T
  BY <1>0
<1>2. Len(fs) \in R /\ R \in SUBSET Nat
  BY <1>0, <1>1
<1> HIDE DEF R
<1>3. PICK n \in R : \A k \in R : n <= k
  BY <1>2, LeastNat
<1>4. Len(fs) - n \in T /\ n \in Nat
  BY <1>3 DEF R
<1>5. \A k \in T : k <= Len(fs) - n
  <2> TAKE k \in T
  <2>1. k \in 0..Len(fs)
    OBVIOUS
  <2> HIDE DEF T
  <2>2. Len(fs) - k \in Nat /\ Len(fs) - k <= Len(fs) /\ Len(fs) - (Len(fs) - k) = k
    BY <1>0, <2>1
  <2>3. Len(fs) - k \in R
    BY <2>2 DEF R
  <2>4. n <= Len(fs) - k
    BY <1>3, <2>3
  <2> QED
    BY <1>0, <1>4, <2>1, <2>4
<1>6. T \in SUBSET Nat
  BY <1>0
<1>7. SoundLength(fs) = Len(fs) - n
  <2>1. SoundLength(fs) = Max(T)
    BY DEF SoundLength
  <2> HIDE DEF T
  <2> QED
    BY <1>4, <1>5, <1>6, <2>1, MaxIs
<1>8. SoundLength(fs) \in T /\ \A k \in T : k <= SoundLength(fs)
  BY <1>4, <1>5, <1>7
<1>9. \A k \in 0..Len(fs) : k \in T <=> AllProper(fs, k)
  BY DEF AllProper
<1>10. Asked(fs) = Messages(First(fs, SoundLength(fs)))
  BY DEF Asked, Sound, Messages, Asks, First, SoundLength
<1>11. SoundLength(fs) \in 0..Len(fs)
  BY <1>8
<1> HIDE DEF T
<1> QED
  BY <1>8, <1>9, <1>10, <1>11

(* Asked(frames) without the invariant: what is in it is in the stream. *)
LEMMA AskedType ==
  ASSUME NEW fs \in Streams
  PROVE  /\ Asked(fs) \in Seq(Opened(fs)) /\ Len(Asked(fs)) \in Nat
         /\ \A i \in 1..Len(Asked(fs)) : /\ Asked(fs)[i].call \in Call
                                         /\ IsOutline(Asked(fs)[i].symbols)
                                         /\ Answer(Asked(fs)[i]) = AnswerOf(Asked(fs)[i])
<1>1. Asked(fs) \in Seq(Opened(fs))
  BY SoundIs, MessagesOfFirst
<1>2. \A m \in Opened(fs) :
        m.call \in Call /\ IsOutline(m.symbols) /\ Answer(m) = AnswerOf(m)
  BY AnswersAssumption DEF Opened
<1> QED
  BY <1>1, <1>2, LenProperties, ElementOfSeq

ToldInTurn ==
  \A i \in 1..Len(told) : i <= Len(Asked(frames)) => told[i] = Answer(Asked(frames)[i])

LEMMA BeginsAt ==
  ASSUME NEW S, NEW a \in Seq(S), NEW b, Begins(S, a, b)
  PROVE  /\ b \in Seq(S) /\ Len(a) <= Len(b) /\ Len(a) \in Nat /\ Len(b) \in Nat
         /\ \A i \in 1..Len(a) : b[i] = a[i]
<1>1. PICK z \in Seq(S) : b = a \o z
  BY DEF Begins
<1>2. Len(a) \in Nat /\ Len(z) \in Nat
  BY LenProperties
<1>3. /\ a \o z \in Seq(S) /\ Len(a \o z) = Len(a) + Len(z)
      /\ \A i \in 1..(Len(a) + Len(z)) :
           (a \o z)[i] = IF i <= Len(a) THEN a[i] ELSE z[i - Len(a)]
  BY ConcatProperties
<1> QED
  BY <1>1, <1>2, <1>3

(* What the calls of a connection return is, in turn, what they make of    *)
(* the messages of the sound frames: read_loop hands over every one.       *)
THEOREM AnswersInTurn == Spec => []ToldInTurn
<1>1. Inv => ToldInTurn
  <2> SUFFICES ASSUME Inv, NEW i \in 1..Len(told), i <= Len(Asked(frames))
               PROVE  told[i] = Answer(Asked(frames)[i])
    BY DEF ToldInTurn
  <2>1. frames \in Streams /\ Len(frames) \in Nat /\ told \in Seq(Answers(frames))
        /\ Len(told) \in Nat
    BY StreamType, LenProperties DEF Inv, Typed
  <2>2. PICK k \in 0..Len(frames) :
          /\ AllProper(frames, k)
          /\ \/ Exactly(frames, buf \o unread, told, reader, k)
             \/ PastBroken(frames, told, k)
    BY DEF Inv, FrameByFrame
  <2> DEFINE m == SoundLength(frames)
  <2>3. m \in 0..Len(frames) /\ AllProper(frames, m) /\ k <= m
        /\ Asked(frames) = Messages(First(frames, m))
    BY <2>1, <2>2, SoundIs
  <2> DEFINE asked == Messages(First(frames, k))
             meant == Meant(First(frames, k))
  <2>4. /\ Answered(meant, asked) /\ asked \in Seq(Opened(frames))
        /\ meant \in Seq(Answers(frames))
        /\ Begins(Opened(frames), asked, Asked(frames))
    BY <2>1, <2>2, <2>3, MeantIsAnswered, MeantOfFirst, MessagesOfFirst
  <2>5. /\ Len(asked) \in Nat /\ Len(meant) = Len(asked)
        /\ \A j \in 1..Len(asked) : meant[j] = Answer(asked[j]) /\ Asked(frames)[j] = asked[j]
    BY <2>4, BeginsAt DEF Answered
  <2>6. CASE Exactly(frames, buf \o unread, told, reader, k)
    <3>1. told = meant
      BY <2>6 DEF Exactly
    <3> QED
      BY <2>5, <3>1
  <2>7. CASE PastBroken(frames, told, k)
    <3>1. k = m
      <4>1. CASE k < m
        <5>1. k + 1 \in 1..m
          BY <2>1, <2>3, <4>1
        <5> QED
          BY <2>3, <2>7, <5>1 DEF AllProper, PastBroken
      <4> QED
        BY <2>1, <2>3, <4>1
    <3>2. asked = Asked(frames)
      BY <2>3, <3>1
    <3>3. \A j \in 1..Len(meant) : told[j] = meant[j]
      BY <2>4, <2>7, BeginsAt DEF PastBroken
    <3>4. i \in 1..Len(asked)
      BY <2>1, <3>2, <2>5
    <3> QED
      BY <2>5, <3>2, <3>3, <3>4
  <2> QED
    BY <2>2, <2>6, <2>7
<1> QED
  BY <1>1, Invariance, PTL

-----------------------------------------------------------------------------
(* The answer that was told in its turn, as the calls read it. *)
LEMMA ToldIsAnswerOf ==
  ASSUME Inv, ToldInTurn, NEW i \in DOMAIN told, i <= Len(Asked(frames))
  PROVE  /\ told[i] = AnswerOf(Asked(frames)[i])
         /\ Asked(frames)[i].call \in Call
         /\ IsOutline(Asked(frames)[i].symbols)
<1>1. told \in Seq(Answers(frames)) /\ frames \in Streams
  BY DEF Inv, Typed
<1>2. Len(told) \in Nat /\ i \in 1..Len(told) /\ Len(Asked(frames)) \in Nat
  BY <1>1, LenProperties, AskedType
<1>3. i \in 1..Len(Asked(frames))
  BY <1>2
<1>4. told[i] = Answer(Asked(frames)[i])
  BY <1>2 DEF ToldInTurn
<1> QED
  BY <1>1, <1>3, <1>4, AskedType

(* Errors and what prepare cannot read are failures, and nothing else is. *)
LEMMA FailureIsTold ==
  ASSUME NEW m, m.call \in Call
  PROVE  AnswerOf(m).what # "list" <=> Failed(m)
<1>1. Returns("content_modified", <<>>).what = "content_modified"
      /\ Returns("protocol", <<>>).what = "protocol" /\ Returns("json", <<>>).what = "json"
      /\ \A l : List(l).what = "list"
  BY DEF Returns, List
<1>2. CASE m.says \in {"modified", "error"}
  BY <1>1, <1>2 DEF AnswerOf, Failed
<1>3. CASE m.says \notin {"modified", "error"} /\ m.call = "prepare"
  <2>1. AnswerOf(m) = Prepare(m)
    BY <1>3 DEF AnswerOf
  <2>2. Failed(m) <=> m.says # "null" /\ ~(m.says = "list" /\ AllReadable(m))
    BY <1>3 DEF Failed, Faultless, AllReadable, Readable, Listed
  <2>3. /\ Failed(m) => Prepare(m) = Returns("json", <<>>)
        /\ ~Failed(m) => \E l : Prepare(m) = List(l)
    BY <2>2 DEF Prepare
  <2> QED
    BY <1>1, <2>1, <2>3
<1>4. CASE m.says \notin {"modified", "error"} /\ m.call # "prepare"
  <2>1. \/ AnswerOf(m) = DocumentSymbols(m) \/ AnswerOf(m) = WorkspaceSymbols(m)
        \/ AnswerOf(m) = IncomingCalls(m) \/ AnswerOf(m) = OutgoingCalls(m)
    BY <1>4 DEF AnswerOf, Call
  <2>2. \E l : AnswerOf(m) = List(l)
    BY <2>1, Zenon
       DEF DocumentSymbols, WorkspaceSymbols, IncomingCalls, OutgoingCalls, UnwrapCalls
  <2>3. ~Failed(m)
    BY <1>4 DEF Failed
  <2> QED
    BY <1>1, <2>2, <2>3
<1> QED
  BY <1>2, <1>3, <1>4

-----------------------------------------------------------------------------
(* The states of the scan of a name, from any state on. *)
Runs(s, g) == \A n \in Nat : n < Len(s) => g[n + 1] = Step(g[n], s[n + 1])

LEMMA ScanRuns ==
  ASSUME NEW S, NEW s \in Seq(S)
  PROVE  \E g : g[0] = "start" /\ Runs(s, g) /\ (Scan(s) <=> g[Len(s)] = "name")
<1> DEFINE W == {"name", "open", "pointer", "receiver", "closed", "dot", "rejected", "start"}
           step == [n \in Nat |-> [y \in W |-> IF n < Len(s) THEN Step(y, s[n + 1]) ELSE y]]
<1>0. Len(s) \in Nat
  BY LenProperties
<1>1. \A y, c : Step(y, c) \in W
  BY DEF Step
<1>2. step \in [Nat -> [W -> W]] /\ "start" \in W
  BY <1>1
<1>3. \A n \in Nat, y \in W : n < Len(s) => step[n][y] = Step(y, s[n + 1])
  OBVIOUS
<1> HIDE DEF W, step
<1>4. PICK f \in [Nat -> W] : Follows(f, "start", step)
  BY <1>2, Recursion
<1>5. f[0] = "start" /\ Runs(s, f)
  BY <1>3, <1>4 DEF Follows, Runs
<1> DEFINE Is(g) == g = [n \in 0..Len(s) |-> IF n = 0 THEN "start" ELSE Step(g[n - 1], s[n])]
           state == CHOOSE g : Is(g)
           f0 == [n \in 0..Len(s) |-> f[n]]
<1>6. Scan(s) <=> state[Len(s)] = "name"
  BY Zenon DEF Scan
<1>7. Is(f0)
  <2>1. ASSUME NEW n \in 0..Len(s)
        PROVE  f0[n] = IF n = 0 THEN "start" ELSE Step(f0[n - 1], s[n])
    <3>1. CASE n = 0
      BY <1>5, <3>1
    <3>2. CASE n # 0
      <4>1. n - 1 \in Nat /\ n - 1 < Len(s) /\ n - 1 + 1 = n /\ n - 1 \in 0..Len(s)
        BY <1>0, <3>2
      <4>2. f[n - 1 + 1] = Step(f[n - 1], s[n - 1 + 1])
        BY <1>5, <4>1 DEF Runs
      <4>3. f0[n - 1] = f[n - 1] /\ f0[n] = f[n]
        BY <4>1
      <4> QED
        BY <3>2, <4>1, <4>2, <4>3
    <3> QED
      BY <3>1, <3>2
  <2> QED
    BY <2>1
<1>8. Is(state)
  BY <1>7, Zenon
<1> HIDE DEF state
<1>9. \A n \in 0..Len(s) : state[n] = IF n = 0 THEN "start" ELSE Step(state[n - 1], s[n])
  BY <1>8
<1>10. state[0] = "start"
  BY <1>0, <1>9
<1>11. Runs(s, state)
  <2> SUFFICES ASSUME NEW n \in Nat, n < Len(s) PROVE state[n + 1] = Step(state[n], s[n + 1])
    BY DEF Runs
  <2>1. n + 1 \in 0..Len(s) /\ n + 1 # 0 /\ n + 1 - 1 = n
    BY <1>0
  <2> QED
    BY <1>9, <2>1
<1> QED
  BY <1>6, <1>10, <1>11

(* What was rejected stays so. *)
LEMMA StaysRejected ==
  ASSUME NEW S, NEW s \in Seq(S), NEW g, Runs(s, g),
         NEW k \in 0..Len(s), g[k] = "rejected"
  PROVE  g[Len(s)] = "rejected"
<1> DEFINE T == {n \in Nat : k <= n /\ n <= Len(s) /\ g[n] # "rejected"}
<1>0. Len(s) \in Nat
  BY LenProperties
<1> SUFFICES ASSUME T # {} PROVE FALSE
  BY <1>0
<1>1. PICK n \in T : \A i \in Nat : i < n => i \notin T
  <2>1. T \in SUBSET Nat
    OBVIOUS
  <2> HIDE DEF T
  <2> QED
    BY <2>1, LeastElement
<1>2. n \in Nat /\ k <= n /\ n <= Len(s) /\ g[n] # "rejected" /\ n # k
  BY <1>1
<1>3. n - 1 \in Nat /\ n - 1 < n /\ k <= n - 1 /\ n - 1 <= Len(s) /\ n - 1 < Len(s) /\ n - 1 + 1 = n
  BY <1>0, <1>2
<1>4. g[n - 1] = "rejected"
  BY <1>1, <1>3
<1>5. g[n - 1 + 1] = Step(g[n - 1], s[n - 1 + 1])
  BY <1>3 DEF Runs
<1> QED
  BY <1>2, <1>3, <1>4, <1>5 DEF Step

(* Place by place: identifiers joined by dots, up to the n-th character. *)
Fits(s, i) ==
  /\ s[i] \in {"a", "1", "."}
  /\ i = 1 \/ s[i - 1] = "." => s[i] = "a"
Dotted(s, n) == \A i \in 1..n : Fits(s, i)

LEMMA DottedRuns ==
  ASSUME NEW S, NEW s \in Seq(S), NEW g, Runs(s, g), g[0] \in {"start", "dot"},
         g[0] = "start" /\ s # <<>> => s[1] # "(", NEW k \in 1..Len(s)
  PROVE  g[k] = IF ~Dotted(s, k) THEN "rejected" ELSE IF s[k] = "." THEN "dot" ELSE "name"
<1> DEFINE P(n) == g[n] = IF ~Dotted(s, n) THEN "rejected"
                          ELSE IF s[n] = "." THEN "dot" ELSE "name"
           T == {n \in Nat : 1 <= n /\ n <= Len(s) /\ ~P(n)}
<1>0. Len(s) \in Nat
  BY LenProperties
<1> SUFFICES ASSUME T # {} PROVE FALSE
  BY <1>0
<1>1. PICK n \in T : \A i \in Nat : i < n => i \notin T
  <2>1. T \in SUBSET Nat
    OBVIOUS
  <2> HIDE DEF T
  <2> QED
    BY <2>1, LeastElement
<1>2. n \in Nat /\ 1 <= n /\ n <= Len(s) /\ ~P(n)
  BY <1>1
<1>3. n - 1 \in Nat /\ n - 1 < n /\ n - 1 < Len(s) /\ n - 1 <= Len(s) /\ n - 1 + 1 = n
      /\ \A i \in 1..n : i \in 1..(n - 1) \/ i = n
  BY <1>0, <1>2
<1>4. g[n] = Step(g[n - 1], s[n])
  <2>1. g[n - 1 + 1] = Step(g[n - 1], s[n - 1 + 1])
    BY <1>3 DEF Runs
  <2> QED
    BY <1>3, <2>1
<1>5. CASE n = 1
  <2>1. g[0] \in {"start", "dot"} /\ n - 1 = 0 /\ (g[0] = "start" => s[1] # "(")
    BY <1>2, <1>5, EmptySeq
  <2>2. Dotted(s, n) <=> Fits(s, 1)
    <3>1. 1..n = {1}
      BY <1>5
    <3> QED
      BY <3>1 DEF Dotted
  <2>3. Fits(s, 1) <=> s[1] = "a"
    BY DEF Fits
  <2>4. g[1] = IF s[1] = "a" THEN "name" ELSE "rejected"
    BY <1>4, <1>5, <2>1 DEF Step
  <2>5. P(1)
    BY <1>5, <2>2, <2>3, <2>4
  <2> QED
    BY <1>2, <1>5, <2>5
<1>6. CASE n # 1
  <2>1. P(n - 1)
    <3>1. 1 <= n - 1
      BY <1>2, <1>6
    <3> QED
      BY <1>1, <1>3, <3>1
  <2>2. Dotted(s, n) <=> Dotted(s, n - 1) /\ Fits(s, n)
    <3>1. \A i \in 1..(n - 1) : i \in 1..n
      BY <1>2
    <3>2. n \in 1..n
      BY <1>2
    <3> QED
      BY <1>3, <3>1, <3>2 DEF Dotted
  <2>3. Fits(s, n) <=> s[n] \in {"a", "1", "."} /\ (s[n - 1] = "." => s[n] = "a")
    BY <1>6 DEF Fits
  <2>4. CASE ~Dotted(s, n - 1)
    <3>1. g[n] = "rejected"
      BY <1>4, <2>1, <2>4 DEF Step
    <3> QED
      BY <1>2, <2>2, <2>4, <3>1
  <2>5. CASE Dotted(s, n - 1) /\ s[n - 1] = "."
    <3>1. g[n] = IF s[n] = "a" THEN "name" ELSE "rejected"
      BY <1>4, <2>1, <2>5 DEF Step
    <3> QED
      BY <1>2, <2>2, <2>3, <2>5, <3>1
  <2>6. CASE Dotted(s, n - 1) /\ s[n - 1] # "."
    <3>1. g[n] = IF s[n] \in {"a", "1"} THEN "name" ELSE IF s[n] = "." THEN "dot" ELSE "rejected"
      BY <1>4, <2>1, <2>6 DEF Step
    <3> QED
      BY <1>2, <2>2, <2>3, <2>6, <3>1
  <2> QED
    BY <2>4, <2>5, <2>6
<1> QED
  BY <1>5, <1>6

(* split('.') finds the same: every piece is an identifier. *)
Borders(s) == {0, Len(s) + 1} \cup {i \in DOMAIN s : s[i] = "."}
Between(s, p, q) == p \in Borders(s) /\ q \in Borders(s) /\ p < q
                    /\ \A d \in Borders(s) : d <= p \/ d >= q

LEMMA PlainPart ==
  ASSUME NEW S, NEW s \in Seq(S), NEW p \in Nat, NEW q \in Nat, p < q, q <= Len(s) + 1
  PROVE  IsPlainIdentifier(SubSeq(s, p + 1, q - 1)) <=>
           /\ p + 1 < q /\ s[p + 1] = "a"
           /\ \A i \in (p + 1)..(q - 1) : s[i] \in {"a", "1"}
<1> DEFINE u == SubSeq(s, p + 1, q - 1)
<1>0. Len(s) \in Nat /\ q - 1 \in Nat /\ p + 1 >= 1 /\ q - 1 <= Len(s) /\ p + 1 \in Nat
  BY LenProperties
<1>1. /\ u \in Seq(S) /\ Len(u) = IF p + 1 <= q - 1 THEN q - 1 - (p + 1) + 1 ELSE 0
      /\ \A i \in 1..(q - 1 - (p + 1) + 1) : u[i] = s[p + 1 + i - 1]
  BY <1>0, PartType
<1> HIDE DEF u
<1>2. Len(u) = q - 1 - p /\ Len(u) \in Nat /\ DOMAIN u = 1..Len(u)
  BY <1>0, <1>1, LenProperties
<1>3. u # <<>> <=> p + 1 < q
  <2>1. u = <<>> <=> Len(u) = 0
    BY <1>1, EmptySeq
  <2> QED
    BY <1>0, <1>2, <2>1
<1>4. \A i \in 1..(q - 1 - p) : u[i] = s[p + i]
  BY <1>0, <1>1
<1>5. p + 1 < q => u[1] = s[p + 1]
  BY <1>0, <1>4
<1>6. ToSet(u) \subseteq {"a", "1"} <=> \A i \in (p + 1)..(q - 1) : s[i] \in {"a", "1"}
  <2>1. ASSUME NEW i \in (p + 1)..(q - 1) PROVE \E k \in 1..(q - 1 - p) : u[k] = s[i]
    <3>1. i - p \in 1..(q - 1 - p) /\ p + (i - p) = i
      BY <1>0
    <3> QED
      BY <1>4, <3>1
  <2>2. ASSUME NEW k \in 1..(q - 1 - p) PROVE \E i \in (p + 1)..(q - 1) : u[k] = s[i]
    <3>1. p + k \in (p + 1)..(q - 1)
      BY <1>0
    <3> QED
      BY <1>4, <3>1
  <2>3. ToSet(u) = {u[k] : k \in 1..(q - 1 - p)}
    BY <1>2 DEF ToSet
  <2>4. ToSet(u) \subseteq {"a", "1"} <=> \A k \in 1..(q - 1 - p) : u[k] \in {"a", "1"}
    BY <2>3
  <2>5. ASSUME \A k \in 1..(q - 1 - p) : u[k] \in {"a", "1"}
        PROVE  \A i \in (p + 1)..(q - 1) : s[i] \in {"a", "1"}
    BY <2>1, <2>5, Zenon
  <2>6. ASSUME \A i \in (p + 1)..(q - 1) : s[i] \in {"a", "1"}
        PROVE  \A k \in 1..(q - 1 - p) : u[k] \in {"a", "1"}
    BY <2>2, <2>6, Zenon
  <2> QED
    BY <2>4, <2>5, <2>6
<1> QED
  BY <1>3, <1>5, <1>6 DEF IsPlainIdentifier, u

LEMMA PiecesArePlain ==
  ASSUME NEW S, NEW s \in Seq(S)
  PROVE  AllPlain(s) <=>
           \A p, q \in Nat : Between(s, p, q) =>
             /\ p + 1 < q /\ s[p + 1] = "a"
             /\ \A i \in (p + 1)..(q - 1) : s[i] \in {"a", "1"}
<1>0. Len(s) \in Nat /\ DOMAIN s = 1..Len(s)
  BY LenProperties
<1>1. \A d \in Borders(s) : d \in Nat /\ d <= Len(s) + 1
  BY <1>0 DEF Borders
<1> DEFINE Piece(u) == \E p, q \in Nat : Between(s, p, q) /\ u = SubSeq(s, p + 1, q - 1)
<1>2. \A u : u \in Pieces(s) <=> Piece(u)
  <2> DEFINE D == Borders(s)
             R == {r \in D \X D : r[1] < r[2] /\ \A d \in D : d <= r[1] \/ d >= r[2]}
  <2>1. Pieces(s) = {SubSeq(s, r[1] + 1, r[2] - 1) : r \in R}
    BY Zenon DEF Pieces, Borders
  <2>2. ASSUME NEW r \in R PROVE Piece(SubSeq(s, r[1] + 1, r[2] - 1))
    <3>1. r[1] \in Nat /\ r[2] \in Nat /\ Between(s, r[1], r[2])
      BY <1>1 DEF Between
    <3> QED
      BY <3>1, Zenon
  <2>3. ASSUME NEW p \in Nat, NEW q \in Nat, Between(s, p, q)
        PROVE  \E r \in R : r[1] = p /\ r[2] = q
    <3>1. <<p, q>> \in R /\ <<p, q>>[1] = p /\ <<p, q>>[2] = q
      BY <2>3 DEF Between
    <3> HIDE DEF R
    <3> QED
      BY <3>1
  <2> HIDE DEF R
  <2>4. ASSUME NEW p \in Nat, NEW q \in Nat, Between(s, p, q)
        PROVE  SubSeq(s, p + 1, q - 1) \in Pieces(s)
    <3>1. PICK r \in R : r[1] = p /\ r[2] = q
      BY <2>3, <2>4
    <3>2. SubSeq(s, r[1] + 1, r[2] - 1) \in Pieces(s)
      BY <2>1, Zenon
    <3> QED
      BY <3>1, <3>2
  <2> QED
    BY <2>1, <2>2, <2>4
<1>3. AllPlain(s) <=> \A p, q \in Nat : Between(s, p, q) =>
                        IsPlainIdentifier(SubSeq(s, p + 1, q - 1))
  <2>1. ASSUME AllPlain(s), NEW p \in Nat, NEW q \in Nat, Between(s, p, q)
        PROVE  IsPlainIdentifier(SubSeq(s, p + 1, q - 1))
    <3>1. SubSeq(s, p + 1, q - 1) \in Pieces(s)
      BY <1>2, <2>1
    <3> QED
      BY <2>1, <3>1, Zenon DEF AllPlain
  <2>2. ASSUME \A p, q \in Nat : Between(s, p, q) => IsPlainIdentifier(SubSeq(s, p + 1, q - 1)),
               NEW u \in Pieces(s)
        PROVE  IsPlainIdentifier(u)
    <3>1. PICK p \in Nat, q \in Nat : Between(s, p, q) /\ u = SubSeq(s, p + 1, q - 1)
      BY <1>2, <2>2, Zenon
    <3>2. IsPlainIdentifier(SubSeq(s, p + 1, q - 1))
      BY <2>2, <3>1, Zenon
    <3> QED
      BY <3>1, <3>2, Zenon
  <2> QED
    BY <2>1, <2>2, Zenon DEF AllPlain
<1>4. \A p, q \in Nat : Between(s, p, q) => p < q /\ q <= Len(s) + 1
  BY <1>1 DEF Between
<1>5. \A p, q \in Nat : Between(s, p, q) =>
        (IsPlainIdentifier(SubSeq(s, p + 1, q - 1)) <=>
           /\ p + 1 < q /\ s[p + 1] = "a"
           /\ \A i \in (p + 1)..(q - 1) : s[i] \in {"a", "1"})
  BY <1>4, PlainPart
<1> QED
  BY <1>3, <1>5

(* The borders around a place. *)
LEMMA NextBorder ==
  ASSUME NEW S, NEW s \in Seq(S), NEW i \in 0..Len(s)
  PROVE  \E q \in Borders(s) : i < q /\ \A d \in Borders(s) : i < d => q <= d
<1>0. Len(s) \in Nat /\ DOMAIN s = 1..Len(s)
  BY LenProperties
<1> DEFINE T == {d \in Borders(s) : i < d}
<1>1. T \in SUBSET Nat /\ Len(s) + 1 \in T
  BY <1>0 DEF Borders
<1>2. PICK q \in T : \A d \in T : q <= d
  <2> HIDE DEF T
  <2> QED
    BY <1>1, LeastNat
<1> QED
  BY <1>2

LEMMA LastBorder ==
  ASSUME NEW S, NEW s \in Seq(S), NEW i \in 1..Len(s)
  PROVE  \E p \in Borders(s) : p < i /\ \A d \in Borders(s) : d < i => d <= p
<1>0. Len(s) \in Nat /\ DOMAIN s = 1..Len(s) /\ Borders(s) \in SUBSET Nat /\ i \in Nat
  BY LenProperties DEF Borders
<1> DEFINE T == {n \in Nat : n <= i /\ i - n \in Borders(s) /\ i - n < i}
<1>1. T \in SUBSET Nat /\ i \in T
  <2>1. i - i = 0 /\ 0 < i /\ 0 \in Borders(s)
    BY <1>0 DEF Borders
  <2> QED
    BY <1>0, <2>1
<1>2. PICK n \in T : \A d \in T : n <= d
  <2> HIDE DEF T
  <2> QED
    BY <1>1, LeastNat
<1>3. i - n \in Borders(s) /\ i - n < i /\ n \in Nat
  BY <1>2
<1>4. ASSUME NEW d \in Borders(s), d < i PROVE d <= i - n
  <2>1. d \in Nat /\ i - d \in Nat /\ i - d <= i /\ i - (i - d) = d
    BY <1>0, <1>4
  <2>2. i - d \in T
    BY <1>4, <2>1
  <2>3. n <= i - d
    BY <1>2, <2>2
  <2> QED
    BY <1>0, <1>3, <2>1, <2>3
<1> QED
  BY <1>3, <1>4

LEMMA AllPlainIsDotted ==
  ASSUME NEW S, NEW s \in Seq(S), s # <<>>
  PROVE  AllPlain(s) <=> Dotted(s, Len(s)) /\ s[Len(s)] # "."
<1>0. Len(s) \in Nat /\ DOMAIN s = 1..Len(s) /\ Len(s) >= 1 /\ Len(s) \in 1..Len(s)
  BY LenProperties, EmptySeq
<1>1. \A d : d \in Borders(s) <=> d = 0 \/ d = Len(s) + 1 \/ (d \in 1..Len(s) /\ s[d] = ".")
  BY <1>0 DEF Borders
<1> DEFINE Whole(p, q) == /\ p + 1 < q /\ s[p + 1] = "a"
                          /\ \A i \in (p + 1)..(q - 1) : s[i] \in {"a", "1"}
<1>2. AllPlain(s) <=> \A p, q \in Nat : Between(s, p, q) => Whole(p, q)
  BY PiecesArePlain
<1>3. ASSUME Dotted(s, Len(s)), s[Len(s)] # ".", NEW p \in Nat, NEW q \in Nat, Between(s, p, q)
      PROVE  Whole(p, q)
  <2>1. p \in Borders(s) /\ q \in Borders(s) /\ p < q /\ q <= Len(s) + 1 /\ p + 1 \in 1..(Len(s) + 1)
    BY <1>0, <1>1, <1>3 DEF Between
  <2>2. p + 1 \in 1..Len(s)
    <3>1. \A x, n \in Nat : n >= 1 /\ x = n => x # 0 /\ x # n + 1
      OBVIOUS
    <3>2. \A x, y, n \in Nat : x < y /\ y <= n + 1 /\ x # n => x + 1 \in 1..n
      OBVIOUS
    <3>3. p # Len(s)
      <4>1. p = Len(s) => p # 0 /\ p # Len(s) + 1
        BY <1>0, <3>1, Zenon
      <4>2. p = Len(s) => s[p] = "."
        BY <1>1, <2>1, <4>1, Zenon
      <4> QED
        BY <1>3, <4>2, Zenon
    <3> QED
      BY <1>0, <2>1, <3>2, <3>3, Zenon
  <2>3. s[p + 1] = "a"
    <3>1. Fits(s, p + 1)
      BY <1>3, <2>2 DEF Dotted
    <3>2. p + 1 = 1 \/ s[p] = "."
      BY <1>0, <1>1, <2>1
    <3>3. p + 1 - 1 = p
      OBVIOUS
    <3> QED
      BY <3>1, <3>2, <3>3 DEF Fits
  <2>4. p + 1 \notin Borders(s)
    BY <1>0, <1>1, <2>2, <2>3
  <2>5. p + 1 < q
    BY <2>1, <2>4
  <2>6. ASSUME NEW i \in (p + 1)..(q - 1) PROVE s[i] \in {"a", "1"}
    <3>1. i \in 1..Len(s) /\ ~(i <= p) /\ ~(i >= q)
      BY <1>0, <2>1
    <3>2. i \notin Borders(s)
      BY <1>3, <3>1 DEF Between
    <3>3. s[i] # "."
      BY <1>1, <3>1, <3>2
    <3> QED
      BY <1>3, <3>1, <3>3 DEF Dotted, Fits
  <2> QED
    BY <2>3, <2>5, <2>6
<1>4. ASSUME \A p, q \in Nat : Between(s, p, q) => Whole(p, q)
      PROVE  Dotted(s, Len(s)) /\ s[Len(s)] # "."
  <2>0. \A d \in Borders(s) : d \in Nat
    BY <1>0, <1>1
  <2>1. ASSUME NEW i \in 1..Len(s), i = 1 \/ s[i - 1] = "." PROVE s[i] = "a"
    <3>1. i - 1 \in Borders(s) /\ i - 1 \in 0..Len(s) /\ i - 1 \in Nat /\ i - 1 + 1 = i
      BY <1>0, <1>1, <2>1
    <3>2. PICK q \in Borders(s) : i - 1 < q /\ \A d \in Borders(s) : i - 1 < d => q <= d
      BY <3>1, NextBorder
    <3>3. Between(s, i - 1, q) /\ q \in Nat
      BY <2>0, <3>1, <3>2 DEF Between
    <3>4. Whole(i - 1, q)
      BY <1>4, <3>1, <3>3
    <3> QED
      BY <3>1, <3>4
  <2>2. ASSUME NEW i \in 1..Len(s), s[i] # "." PROVE s[i] \in {"a", "1"}
    <3>1. i \in 0..Len(s) /\ i \in Nat /\ i \notin Borders(s)
      BY <1>0, <1>1, <2>2
    <3>2. PICK q \in Borders(s) : i < q /\ \A d \in Borders(s) : i < d => q <= d
      BY <3>1, NextBorder
    <3>3. PICK p \in Borders(s) : p < i /\ \A d \in Borders(s) : d < i => d <= p
      BY LastBorder
    <3>4. Between(s, p, q) /\ p \in Nat /\ q \in Nat
      <4>1. p \in Nat /\ q \in Nat /\ p < q
        BY <2>0, <3>1, <3>2, <3>3
      <4>2. ASSUME NEW d \in Borders(s) PROVE d <= p \/ d >= q
        BY <2>0, <3>1, <3>2, <3>3, <4>1
      <4> QED
        BY <3>2, <3>3, <4>1, <4>2 DEF Between
    <3>5. Whole(p, q)
      BY <1>4, <3>4
    <3>6. i \in (p + 1)..(q - 1)
      BY <3>1, <3>2, <3>3, <3>4
    <3> QED
      BY <3>5, <3>6
  <2>3. s[Len(s)] # "."
    <3> SUFFICES ASSUME s[Len(s)] = "." PROVE FALSE
      OBVIOUS
    <3>1. Between(s, Len(s), Len(s) + 1)
      <4>1. Len(s) \in Borders(s) /\ Len(s) + 1 \in Borders(s) /\ Len(s) < Len(s) + 1
        BY <1>0, <1>1
      <4>2. \A d \in Borders(s) : d <= Len(s) \/ d >= Len(s) + 1
        BY <1>0, <2>0
      <4> QED
        BY <4>1, <4>2 DEF Between
    <3>2. Whole(Len(s), Len(s) + 1)
      BY <1>0, <1>4, <3>1
    <3> QED
      BY <1>0, <3>2
  <2>4. \A i \in 1..Len(s) : Fits(s, i)
    BY <2>1, <2>2 DEF Fits
  <2> QED
    BY <2>3, <2>4 DEF Dotted
<1> QED
  BY <1>2, <1>3, <1>4

(* From the start, or after a dot, what is left of a name is accepted if   *)
(* it is identifiers joined by dots.                                       *)
LEMMA RestRuns ==
  ASSUME NEW S, NEW s \in Seq(S), NEW g, Runs(s, g), g[0] \in {"start", "dot"},
         g[0] = "start" /\ s # <<>> => s[1] # "("
  PROVE  g[Len(s)] = "name" <=> s # <<>> /\ AllPlain(s)
<1>1. CASE s = <<>>
  BY <1>1, EmptySeq
<1>2. CASE s # <<>>
  <2>1. Len(s) \in 1..Len(s)
    BY <1>2, LenProperties, EmptySeq
  <2>2. g[Len(s)] = IF ~Dotted(s, Len(s)) THEN "rejected"
                    ELSE IF s[Len(s)] = "." THEN "dot" ELSE "name"
    BY <1>2, <2>1, DottedRuns
  <2>3. AllPlain(s) <=> Dotted(s, Len(s)) /\ s[Len(s)] # "."
    BY <1>2, AllPlainIsDotted
  <2> QED
    BY <1>2, <2>2, <2>3
<1> QED
  BY <1>1, <1>2

(* The run on what is left after the first k characters. *)
RestOf(s, k)   == SubSeq(s, k + 1, Len(s))
RunOf(s, g, k) == [n \in 0..Len(RestOf(s, k)) |-> g[k + n]]

LEMMA RunsOn ==
  ASSUME NEW S, NEW s \in Seq(S), NEW g, Runs(s, g), NEW k \in 0..Len(s)
  PROVE  /\ RestOf(s, k) \in Seq(S) /\ Runs(RestOf(s, k), RunOf(s, g, k))
         /\ RunOf(s, g, k)[0] = g[k] /\ RunOf(s, g, k)[Len(RestOf(s, k))] = g[Len(s)]
<1> DEFINE rest == SubSeq(s, k + 1, Len(s))
           h == [n \in 0..Len(rest) |-> g[k + n]]
<1>0. Len(s) \in Nat /\ k \in Nat /\ k <= Len(s) /\ k + 1 \in Nat /\ k + 1 >= 1
  BY LenProperties
<1>1. rest \in Seq(S) /\ Len(rest) = Len(s) - k /\ \A i \in 1..(Len(s) - k) : rest[i] = s[k + i]
  <2>1. /\ rest \in Seq(S) /\ Len(rest) = IF k + 1 <= Len(s) THEN Len(s) - (k + 1) + 1 ELSE 0
        /\ \A i \in 1..(Len(s) - (k + 1) + 1) : rest[i] = s[k + 1 + i - 1]
    BY <1>0, PartType
  <2> HIDE DEF rest
  <2>2. Len(s) - (k + 1) + 1 = Len(s) - k /\ \A i \in 1..(Len(s) - k) : k + 1 + i - 1 = k + i
    BY <1>0
  <2>3. Len(rest) = Len(s) - k
    BY <1>0, <2>1
  <2>4. \A i \in 1..(Len(s) - k) : rest[i] = s[k + i]
    BY <2>1, <2>2
  <2> QED
    BY <2>1, <2>3, <2>4
<1> HIDE DEF rest
<1>2. h[0] = g[k] /\ h[Len(rest)] = g[Len(s)]
  <2>1. 0 \in 0..Len(rest) /\ Len(rest) \in 0..Len(rest) /\ k + 0 = k /\ k + Len(rest) = Len(s)
    BY <1>0, <1>1
  <2> QED
    BY <2>1
<1>3. Runs(rest, h)
  <2> SUFFICES ASSUME NEW n \in Nat, n < Len(rest) PROVE h[n + 1] = Step(h[n], rest[n + 1])
    BY DEF Runs
  <2>1. /\ n \in 0..Len(rest) /\ n + 1 \in 0..Len(rest) /\ k + n \in Nat /\ k + n < Len(s)
        /\ k + n + 1 = k + (n + 1) /\ n + 1 \in 1..(Len(s) - k)
    BY <1>0, <1>1
  <2>2. g[k + n + 1] = Step(g[k + n], s[k + n + 1])
    BY <2>1 DEF Runs
  <2> QED
    BY <1>1, <2>1, <2>2
<1>4. rest = RestOf(s, k) /\ h = RunOf(s, g, k)
  BY DEF rest, RestOf, RunOf
<1> HIDE DEF h
<1> QED
  BY <1>1, <1>2, <1>3, <1>4

(* Between the parentheses. *)
Within(s, b, n) == s[b + 1] = "a" /\ \A i \in (b + 1)..n : s[i] \in {"a", "1"}

LEMMA ReceiverRuns ==
  ASSUME NEW S, NEW s \in Seq(S), NEW g, Runs(s, g),
         NEW b \in 1..Len(s), g[b] \in {"open", "pointer"},
         NEW c \in 1..Len(s), b < c, \A i \in (b + 1)..(c - 1) : s[i] # ")",
         g[b] = "open" /\ b + 1 < c => s[b + 1] # "*",
         NEW n \in b..(c - 1)
  PROVE  g[n] = IF n = b THEN g[b] ELSE IF Within(s, b, n) THEN "receiver" ELSE "rejected"
<1> DEFINE P(k) == g[k] = IF k = b THEN g[b]
                          ELSE IF Within(s, b, k) THEN "receiver" ELSE "rejected"
           T == {k \in Nat : b <= k /\ k < c /\ ~P(k)}
<1>0. Len(s) \in Nat /\ b \in Nat /\ c \in Nat /\ c <= Len(s)
  BY LenProperties
<1> SUFFICES ASSUME T # {} PROVE FALSE
  BY <1>0
<1>1. PICK k \in T : \A i \in Nat : i < k => i \notin T
  <2>1. T \in SUBSET Nat
    OBVIOUS
  <2> HIDE DEF T
  <2> QED
    BY <2>1, LeastElement
<1>2. k \in Nat /\ b <= k /\ k < c /\ ~P(k) /\ k # b
  BY <1>1
<1>3. /\ k - 1 \in Nat /\ k - 1 < k /\ k - 1 < Len(s) /\ k - 1 + 1 = k /\ b <= k - 1 /\ k - 1 < c
      /\ k \in (b + 1)..(c - 1)
  BY <1>0, <1>2
<1>4. g[k] = Step(g[k - 1], s[k])
  <2>1. g[k - 1 + 1] = Step(g[k - 1], s[k - 1 + 1])
    BY <1>3 DEF Runs
  <2> QED
    BY <1>3, <2>1
<1>5. P(k - 1)
  BY <1>1, <1>3
<1>6. s[k] # ")"
  BY <1>3
<1>7. CASE k - 1 = b
  <2>1. k = b + 1 /\ b + 1 < c /\ (b + 1)..k = {k}
    BY <1>2, <1>3, <1>7, <1>0
  <2>2. Within(s, b, k) <=> s[k] = "a"
    BY <2>1 DEF Within
  <2>3. g[k] = IF s[k] = "a" THEN "receiver" ELSE "rejected"
    <3>1. g[k - 1] = "open" => s[k] # "*"
      BY <1>7, <2>1
    <3>2. g[k - 1] \in {"open", "pointer"}
      BY <1>7
    <3> QED
      BY <1>4, <1>6, <3>1, <3>2 DEF Step
  <2> QED
    BY <1>2, <2>2, <2>3
<1>8. CASE k - 1 # b
  <2>1. Within(s, b, k) <=> Within(s, b, k - 1) /\ s[k] \in {"a", "1"}
    <3>1. \A i : i \in (b + 1)..k <=> i \in (b + 1)..(k - 1) \/ i = k
      BY <1>0, <1>2, <1>3
    <3> QED
      BY <3>1 DEF Within
  <2>2. CASE Within(s, b, k - 1)
    <3>1. g[k] = IF s[k] \in {"a", "1"} THEN "receiver" ELSE "rejected"
      BY <1>4, <1>5, <1>6, <1>8, <2>2 DEF Step
    <3> QED
      BY <1>2, <2>1, <2>2, <3>1
  <2>3. CASE ~Within(s, b, k - 1)
    <3>1. g[k] = "rejected"
      BY <1>4, <1>5, <1>8, <2>3 DEF Step
    <3> QED
      BY <1>2, <2>1, <2>3, <3>1
  <2> QED
    BY <2>2, <2>3
<1> QED
  BY <1>7, <1>8

(* Without a closing parenthesis the receiver never ends. *)
LEMMA NeverClosed ==
  ASSUME NEW S, NEW s \in Seq(S), NEW g, Runs(s, g), NEW k \in 1..Len(s), g[1] = "open",
         \A i \in 1..k : s[i] # ")"
  PROVE  g[k] \in {"open", "pointer", "receiver", "rejected"}
<1> DEFINE P(n) == g[n] \in {"open", "pointer", "receiver", "rejected"}
           T == {n \in Nat : 1 <= n /\ n <= k /\ ~P(n)}
<1>0. Len(s) \in Nat /\ k \in Nat /\ k <= Len(s)
  BY LenProperties
<1> SUFFICES ASSUME T # {} PROVE FALSE
  BY <1>0
<1>1. PICK n \in T : \A i \in Nat : i < n => i \notin T
  <2>1. T \in SUBSET Nat
    OBVIOUS
  <2> HIDE DEF T
  <2> QED
    BY <2>1, LeastElement
<1>2. n \in Nat /\ 1 <= n /\ n <= k /\ ~P(n) /\ n # 1
  BY <1>1
<1>3. /\ n - 1 \in Nat /\ n - 1 < n /\ n - 1 < Len(s) /\ n - 1 + 1 = n /\ 1 <= n - 1
      /\ n - 1 <= k /\ n \in 1..k
  BY <1>0, <1>2
<1>4. g[n] = Step(g[n - 1], s[n])
  <2>1. g[n - 1 + 1] = Step(g[n - 1], s[n - 1 + 1])
    BY <1>3 DEF Runs
  <2> QED
    BY <1>3, <2>1
<1>5. P(n - 1) /\ s[n] # ")"
  BY <1>1, <1>3
<1>6. P(n)
  BY <1>4, <1>5 DEF Step
<1> QED
  BY <1>2, <1>6

LEMMA TailIsPart ==
  ASSUME NEW S, NEW s \in Seq(S), s # <<>>
  PROVE  Tail(s) = SubSeq(s, 2, Len(s))
<1>1. /\ Tail(s) \in Seq(S) /\ Len(s) \in Nat /\ Len(s) >= 1 /\ Len(Tail(s)) = Len(s) - 1
      /\ \A i \in 1..Len(Tail(s)) : Tail(s)[i] = s[i + 1]
  BY TailIndex
<1>2. Len(Tail(s)) = Len(s) - 2 + 1 /\ \A i \in 1..Len(Tail(s)) : Tail(s)[i] = s[2 + i - 1]
  BY <1>1
<1>3. SubSeq(s, 2, Len(s)) = Tail(s)
  BY <1>1, <1>2, PartIs
<1> QED
  BY <1>3

(* After a receiver: a dot, and then the rest of the name. *)
LEMMA AfterReceiver ==
  ASSUME NEW S, NEW s \in Seq(S), NEW g, Runs(s, g), g[0] = "closed"
  PROVE  g[Len(s)] = "name" <=>
           s # <<>> /\ s[1] = "." /\ Tail(s) # <<>> /\ AllPlain(Tail(s))
<1>0. Len(s) \in Nat
  BY LenProperties
<1>1. CASE s = <<>>
  BY <1>1, EmptySeq
<1>2. CASE s # <<>>
  <2>1. Len(s) >= 1 /\ 1 \in 0..Len(s) /\ 0 < Len(s) /\ 0 \in Nat /\ 0 + 1 = 1
    BY <1>0, <1>2, EmptySeq
  <2>2. g[1] = IF s[1] = "." THEN "dot" ELSE "rejected"
    <3>1. g[0 + 1] = Step(g[0], s[0 + 1])
      BY <2>1 DEF Runs
    <3>2. g[1] = Step("closed", s[1])
      BY <2>1, <3>1
    <3> QED
      BY <3>2 DEF Step
  <2>3. CASE s[1] # "."
    <3>1. g[Len(s)] = "rejected"
      BY <2>1, <2>2, <2>3, StaysRejected
    <3> QED
      BY <2>3, <3>1
  <2>4. CASE s[1] = "."
    <3> DEFINE rest == RestOf(s, 1)
               h == RunOf(s, g, 1)
    <3>1. rest \in Seq(S) /\ Runs(rest, h) /\ h[0] = g[1] /\ h[Len(rest)] = g[Len(s)]
      BY <2>1, RunsOn
    <3>2. rest = Tail(s)
      <4>1. 1 + 1 = 2
        OBVIOUS
      <4> QED
        BY <1>2, <4>1, TailIsPart DEF RestOf
    <3> HIDE DEF rest, h
    <3>3. h[0] = "dot"
      BY <2>2, <2>4, <3>1
    <3>4. h[Len(rest)] = "name" <=> rest # <<>> /\ AllPlain(rest)
      BY <3>1, <3>3, RestRuns
    <3> QED
      BY <1>2, <2>4, <3>1, <3>2, <3>4
  <2> QED
    BY <2>3, <2>4
<1> QED
  BY <1>1, <1>2

(* The receiver between the parentheses. *)
Receiver(s, c) == WithoutPrefix(SubSeq(s, 2, c - 1), "*")

LEMMA ReceiverIs ==
  ASSUME NEW S, NEW s \in Seq(S), NEW c \in 2..Len(s),
         NEW b, b = IF 2 < c /\ s[2] = "*" THEN 2 ELSE 1
  PROVE  Receiver(s, c) = SubSeq(s, b + 1, c - 1)
<1> DEFINE inner == SubSeq(s, 2, c - 1)
<1>0. Len(s) \in Nat /\ c \in Nat /\ c - 1 \in Nat /\ c - 1 <= Len(s) /\ 2 >= 1 /\ 2 \in Nat
  BY LenProperties
<1>1. /\ inner \in Seq(S) /\ Len(inner) = IF 2 <= c - 1 THEN c - 1 - 2 + 1 ELSE 0
      /\ \A i \in 1..(c - 1 - 2 + 1) : inner[i] = s[2 + i - 1]
  BY <1>0, PartType
<1> HIDE DEF inner
<1>2. Len(inner) = c - 2 /\ \A i \in 1..(c - 2) : inner[i] = s[i + 1]
  BY <1>0, <1>1
<1>3. inner # <<>> <=> 2 < c
  <2>1. inner = <<>> <=> Len(inner) = 0
    BY <1>1, EmptySeq
  <2> QED
    BY <1>0, <1>2, <2>1
<1>4. 2 < c => inner[1] = s[2]
  BY <1>0, <1>2
<1>5. Receiver(s, c) = IF 2 < c /\ s[2] = "*" THEN Tail(inner) ELSE inner
  BY <1>3, <1>4 DEF Receiver, WithoutPrefix, inner
<1>6. CASE 2 < c /\ s[2] = "*"
  <2>1. /\ Tail(inner) \in Seq(S) /\ Len(Tail(inner)) = Len(inner) - 1
        /\ \A i \in 1..Len(Tail(inner)) : Tail(inner)[i] = inner[i + 1]
    BY <1>1, <1>3, <1>6, TailIndex
  <2>2. Len(Tail(inner)) = c - 1 - 3 + 1
    BY <1>0, <1>2, <2>1
  <2>3. \A i \in 1..Len(Tail(inner)) : Tail(inner)[i] = s[3 + i - 1]
    <3> TAKE i \in 1..Len(Tail(inner))
    <3>1. i + 1 \in 1..(c - 2) /\ i + 1 + 1 = 3 + i - 1
      BY <1>0, <2>2
    <3> QED
      BY <1>2, <2>1, <3>1
  <2>4. SubSeq(s, 3, c - 1) = Tail(inner)
    <3>1. 3 \in Nat /\ 3 >= 1
      OBVIOUS
    <3> QED
      BY <1>0, <2>1, <2>2, <2>3, <3>1, PartIs, Zenon
  <2>5. b + 1 = 3
    BY <1>6
  <2> QED
    BY <1>5, <1>6, <2>4, <2>5
<1>7. CASE ~(2 < c /\ s[2] = "*")
  <2>1. b + 1 = 2
    BY <1>7
  <2> QED
    BY <1>5, <1>7, <2>1 DEF inner
<1> QED
  BY <1>6, <1>7

(* At the first closing parenthesis the receiver is an identifier or the   *)
(* name is rejected.                                                       *)
LEMMA ClosedRuns ==
  ASSUME NEW S, NEW s \in Seq(S), NEW g, Runs(s, g), NEW c \in 2..Len(s), g[1] = "open",
         s[c] = ")", \A i \in 1..(c - 1) : s[i] # ")"
  PROVE  g[c] = IF IsPlainIdentifier(Receiver(s, c)) THEN "closed" ELSE "rejected"
<1> DEFINE b == IF 2 < c /\ s[2] = "*" THEN 2 ELSE 1
<1>0. Len(s) \in Nat /\ c \in Nat /\ c \in 1..Len(s)
  BY LenProperties
<1>1. b \in 1..Len(s) /\ b \in Nat /\ b < c /\ b \in 1..(c - 1)
  BY <1>0
<1>2. g[b] \in {"open", "pointer"} /\ (g[b] = "open" /\ b + 1 < c => s[b + 1] # "*")
  <2>1. CASE 2 < c /\ s[2] = "*"
    <3>1. 1 \in Nat /\ 1 < Len(s) /\ 1 + 1 = 2
      BY <1>0, <2>1
    <3>2. g[1 + 1] = Step(g[1], s[1 + 1])
      BY <3>1 DEF Runs
    <3>3. g[2] = "pointer"
      BY <2>1, <3>1, <3>2 DEF Step
    <3> QED
      BY <2>1, <3>3
  <2>2. CASE ~(2 < c /\ s[2] = "*")
    BY <2>2
  <2> QED
    BY <2>1, <2>2
<1>3. Receiver(s, c) = SubSeq(s, b + 1, c - 1)
  BY ReceiverIs
<1> HIDE DEF b
<1>4. IsPlainIdentifier(Receiver(s, c)) <=> b + 1 < c /\ Within(s, b, c - 1)
  <2>1. c <= Len(s) + 1
    BY <1>0
  <2>2. IsPlainIdentifier(SubSeq(s, b + 1, c - 1)) <=>
           /\ b + 1 < c /\ s[b + 1] = "a"
           /\ \A i \in (b + 1)..(c - 1) : s[i] \in {"a", "1"}
    BY <1>0, <1>1, <2>1, PlainPart
  <2> QED
    BY <1>3, <2>2 DEF Within
<1>5. g[c - 1] = IF c - 1 = b THEN g[b] ELSE IF Within(s, b, c - 1) THEN "receiver" ELSE "rejected"
  <2>1. \A i \in (b + 1)..(c - 1) : i \in 1..(c - 1)
    BY <1>0, <1>1
  <2>2. c - 1 \in b..(c - 1)
    BY <1>0, <1>1
  <2>3. \A i \in (b + 1)..(c - 1) : s[i] # ")"
    BY <2>1
  <2> QED
    BY <1>0, <1>1, <1>2, <2>2, <2>3, ReceiverRuns
<1>6. g[c] = Step(g[c - 1], ")")
  <2>1. c - 1 \in Nat /\ c - 1 < Len(s) /\ c - 1 + 1 = c
    BY <1>0
  <2>2. g[c - 1 + 1] = Step(g[c - 1], s[c - 1 + 1])
    BY <2>1 DEF Runs
  <2> QED
    BY <2>1, <2>2
<1>7. g[c - 1] = "receiver" <=> IsPlainIdentifier(Receiver(s, c))
  <2>1. c - 1 = b <=> ~(b + 1 < c)
    BY <1>0, <1>1
  <2> QED
    BY <1>2, <1>4, <1>5, <2>1
<1>8. g[c - 1] \in {"open", "pointer", "receiver", "rejected"}
  BY <1>2, <1>5
<1>9. g[c] = IF g[c - 1] = "receiver" THEN "closed" ELSE "rejected"
  BY <1>6, <1>8 DEF Step
<1> QED
  BY <1>7, <1>9

(* is_named_callable takes a name apart by its first parenthesis and by    *)
(* its dots, and accepts the names of the scan from left to right: an      *)
(* identifier, or identifiers joined by dots, perhaps after a receiver in  *)
(* parentheses and a dot.                                                  *)
THEOREM NamesAreScanned ==
  ASSUME NEW S, NEW name \in Seq(S), NEW kind
  PROVE  IsNamedCallable(name, kind) <=> kind \in CallableKind /\ Scan(name)
<1> DEFINE closes == {i \in DOMAIN name : name[i] = ")"}
           c == Min(closes)
           after == SubSeq(name, c + 1, Len(name))
<1>0. Len(name) \in Nat /\ DOMAIN name = 1..Len(name)
  BY LenProperties
<1>1. PICK g : g[0] = "start" /\ Runs(name, g) /\ (Scan(name) <=> g[Len(name)] = "name")
  BY ScanRuns
<1>2. CASE ~(name # <<>> /\ name[1] = "(")
  <2>1. g[Len(name)] = "name" <=> name # <<>> /\ AllPlain(name)
    BY <1>1, <1>2, RestRuns
  <2>2. IsNamedCallable(name, kind) <=> kind \in CallableKind /\ name # <<>> /\ AllPlain(name)
    BY <1>2, Zenon DEF IsNamedCallable
  <2> QED
    BY <1>1, <2>1, <2>2
<1>3. CASE name # <<>> /\ name[1] = "("
  <2>1. Len(name) >= 1 /\ g[1] = "open"
    <3>1. Len(name) >= 1 /\ 0 < Len(name) /\ 0 \in Nat /\ 0 + 1 = 1
      BY <1>0, <1>3, EmptySeq
    <3>2. g[0 + 1] = Step(g[0], name[0 + 1])
      BY <1>1, <3>1 DEF Runs
    <3>3. g[1] = Step("start", "(")
      BY <1>1, <1>3, <3>1, <3>2
    <3> QED
      BY <3>1, <3>3 DEF Step
  <2>2. IsNamedCallable(name, kind) <=>
          /\ kind \in CallableKind /\ closes # {} /\ IsPlainIdentifier(Receiver(name, c))
          /\ after # <<>> /\ after[1] = "." /\ Tail(after) # <<>> /\ AllPlain(Tail(after))
    BY <1>3, Zenon DEF IsNamedCallable, Receiver
  <2> HIDE DEF after
  <2>3. CASE closes = {}
    <3>1. Len(name) \in 1..Len(name) /\ \A i \in 1..Len(name) : name[i] # ")"
      BY <1>0, <2>1, <2>3
    <3>2. g[Len(name)] \in {"open", "pointer", "receiver", "rejected"}
      BY <1>1, <2>1, <3>1, NeverClosed
    <3> QED
      BY <1>1, <2>2, <2>3, <3>2
  <2>4. CASE closes # {}
    <3>1. closes \in SUBSET Nat
      BY <1>0
    <3>2. c \in closes /\ \A k \in closes : c <= k
      <4> HIDE DEF closes
      <4> QED
        BY <2>4, <3>1, MinIsLeast
    <3>3. c \in 1..Len(name) /\ name[c] = ")" /\ c # 1
      BY <1>0, <1>3, <3>2
    <3> HIDE DEF c
    <3>4. \A i \in 1..(c - 1) : name[i] # ")"
      BY <1>0, <3>2, <3>3
    <3> HIDE DEF closes
    <3>5. c \in 2..Len(name) /\ c \in 0..Len(name)
      BY <1>0, <3>3
    <3>6. g[c] = IF IsPlainIdentifier(Receiver(name, c)) THEN "closed" ELSE "rejected"
      BY <1>1, <2>1, <3>3, <3>4, <3>5, ClosedRuns
    <3>7. CASE ~IsPlainIdentifier(Receiver(name, c))
      <4>1. g[Len(name)] = "rejected"
        BY <1>1, <3>5, <3>6, <3>7, StaysRejected
      <4> QED
        BY <1>1, <2>2, <3>7, <4>1
    <3>8. CASE IsPlainIdentifier(Receiver(name, c))
      <4> DEFINE h == RunOf(name, g, c)
      <4>1. after \in Seq(S) /\ Runs(after, h) /\ h[0] = g[c] /\ h[Len(after)] = g[Len(name)]
        <5>1. after = RestOf(name, c)
          BY DEF after, RestOf
        <5>2. Runs(name, g) /\ c \in 0..Len(name)
          BY <1>1, <3>5
        <5> QED
          BY <5>1, <5>2, RunsOn
      <4> HIDE DEF h
      <4>2. h[Len(after)] = "name" <=>
              after # <<>> /\ after[1] = "." /\ Tail(after) # <<>> /\ AllPlain(Tail(after))
        BY <3>6, <3>8, <4>1, AfterReceiver
      <4> QED
        BY <1>1, <2>2, <2>4, <3>8, <4>1, <4>2
    <3> QED
      BY <3>7, <3>8
  <2> QED
    BY <2>3, <2>4
<1> QED
  BY <1>2, <1>3

-----------------------------------------------------------------------------
(* Lists whose lines ascend. *)
Rising(s)   == \A i, j \in DOMAIN s : i < j => s[i].line < s[j].line
Above(s, t) == \A x \in ToSet(s), y \in ToSet(t) : x.line < y.line

LEMMA ConcatRises ==
  ASSUME NEW S, NEW s \in Seq(S), NEW t \in Seq(S), Rising(s), Rising(t), Above(s, t)
  PROVE  Rising(s \o t)
<1>0. /\ Len(s) \in Nat /\ Len(t) \in Nat
      /\ DOMAIN s = 1..Len(s) /\ DOMAIN t = 1..Len(t)
  BY LenProperties
<1> DEFINE w == s \o t
<1>1. /\ w \in Seq(S) /\ Len(w) = Len(s) + Len(t) /\ DOMAIN w = 1..Len(w)
      /\ \A i \in 1..(Len(s) + Len(t)) : w[i] = IF i <= Len(s) THEN s[i] ELSE t[i - Len(s)]
  BY ConcatProperties, LenProperties
<1> HIDE DEF w
<1>2. ASSUME NEW i \in DOMAIN w, NEW j \in DOMAIN w, i < j PROVE w[i].line < w[j].line
  <2>0. i \in 1..(Len(s) + Len(t)) /\ j \in 1..(Len(s) + Len(t))
    BY <1>1
  <2>1. CASE j <= Len(s)
    <3>1. i \in DOMAIN s /\ j \in DOMAIN s /\ w[i] = s[i] /\ w[j] = s[j]
      BY <1>0, <1>1, <1>2, <2>0, <2>1
    <3> QED
      BY <1>2, <3>1 DEF Rising
  <2>2. CASE ~(j <= Len(s)) /\ i <= Len(s)
    <3>1. /\ i \in DOMAIN s /\ j - Len(s) \in DOMAIN t
          /\ w[i] = s[i] /\ w[j] = t[j - Len(s)]
      BY <1>0, <1>1, <2>0, <2>2
    <3>2. s[i] \in ToSet(s) /\ t[j - Len(s)] \in ToSet(t)
      BY <3>1 DEF ToSet
    <3> QED
      BY <3>1, <3>2 DEF Above
  <2>3. CASE ~(i <= Len(s))
    <3>1. /\ i - Len(s) \in DOMAIN t /\ j - Len(s) \in DOMAIN t /\ i - Len(s) < j - Len(s)
          /\ w[i] = t[i - Len(s)] /\ w[j] = t[j - Len(s)]
      BY <1>0, <1>1, <1>2, <2>0, <2>3
    <3> QED
      BY <3>1 DEF Rising
  <2> QED
    BY <2>1, <2>2, <2>3
<1> QED
  BY <1>2 DEF Rising, w

LEMMA FlattenedRises ==
  ASSUME NEW S, NEW seqs \in Seq(Seq(S)),
         \A i \in 1..Len(seqs) : Rising(seqs[i]),
         \A i, j \in 1..Len(seqs) : i < j => Above(seqs[i], seqs[j])
  PROVE  Rising(FlattenSeq(seqs))
<1> DEFINE part(k) == FlattenSeq(SubSeq(seqs, 1, k))
           P(k) == /\ Rising(part(k))
                   /\ \A j \in 1..Len(seqs) : k < j => Above(part(k), seqs[j])
           T == {k \in Nat : k <= Len(seqs) /\ ~P(k)}
<1>0. /\ Len(seqs) \in Nat /\ part(Len(seqs)) = FlattenSeq(seqs) /\ part(0) = <<>>
      /\ \A k \in 0..Len(seqs) : part(k) \in Seq(S)
      /\ \A k \in 1..Len(seqs) : part(k) = part(k - 1) \o seqs[k]
      /\ \A k \in 1..Len(seqs) : seqs[k] \in Seq(S)
  BY FlattenedWhole, FlattenedParts, ElementOfSeq
<1> HIDE DEF part
<1>1. T = {}
  <2> SUFFICES ASSUME T # {} PROVE FALSE
    OBVIOUS
  <2>1. PICK k \in T : \A i \in Nat : i < k => i \notin T
    <3>1. T \in SUBSET Nat
      OBVIOUS
    <3> HIDE DEF T
    <3> QED
      BY <3>1, LeastElement
  <2>2. k \in Nat /\ k <= Len(seqs) /\ ~P(k)
    BY <2>1
  <2>3. k # 0
    <3>1. ToSet(<<>>) = {} /\ DOMAIN <<>> = {}
      BY DEF ToSet
    <3>2. P(0)
      BY <1>0, <3>1 DEF Rising, Above
    <3> QED
      BY <2>2, <3>2
  <2>4. /\ k - 1 \in Nat /\ k - 1 < k /\ k - 1 <= Len(seqs) /\ k \in 1..Len(seqs)
        /\ k - 1 \in 0..Len(seqs) /\ \A j \in 1..Len(seqs) : k < j => k - 1 < j
    BY <1>0, <2>2, <2>3
  <2>5. P(k - 1)
    BY <2>1, <2>4
  <2>6. part(k - 1) \in Seq(S) /\ seqs[k] \in Seq(S) /\ part(k) = part(k - 1) \o seqs[k]
    BY <1>0, <2>4
  <2>7. Rising(part(k))
    BY <2>4, <2>5, <2>6, ConcatRises
  <2>8. ASSUME NEW j \in 1..Len(seqs), k < j PROVE Above(part(k), seqs[j])
    <3>1. ToSet(part(k)) = ToSet(part(k - 1)) \cup ToSet(seqs[k])
      BY <2>6, ConcatSet
    <3>2. Above(part(k - 1), seqs[j]) /\ Above(seqs[k], seqs[j])
      BY <2>4, <2>5, <2>8
    <3> QED
      BY <3>1, <3>2 DEF Above
  <2> QED
    BY <2>2, <2>7, <2>8
<1>2. P(Len(seqs))
  BY <1>0, <1>1
<1> QED
  BY <1>0, <1>2

(* An element or none for each of a list: filter_map. *)
LEMMA FilteredMap ==
  ASSUME NEW S, NEW n \in Nat, NEW kept \in [1..n -> Seq(S)],
         \A i \in 1..n : Len(kept[i]) <= 1
  PROVE  /\ FlattenSeq(kept) \in Seq(S)
         /\ ToSet(FlattenSeq(kept)) = UNION {ToSet(kept[i]) : i \in 1..n}
         /\ (\A i, j \in 1..n : i < j => Above(kept[i], kept[j])) => Rising(FlattenSeq(kept))
<1>1. kept \in Seq(Seq(S)) /\ Len(kept) = n
  OBVIOUS
<1>2. ASSUME NEW i \in 1..n PROVE Rising(kept[i])
  <2>1. Len(kept[i]) \in Nat /\ DOMAIN kept[i] = 1..Len(kept[i]) /\ Len(kept[i]) <= 1
    BY LenProperties
  <2>2. \A a, b \in DOMAIN kept[i] : ~(a < b)
    BY <2>1
  <2> QED
    BY <2>2 DEF Rising
<1> QED
  BY <1>1, <1>2, FlattenedWhole, FlattenedSet, FlattenedRises

-----------------------------------------------------------------------------
(* undecorate takes off what the searches put on. *)
LEMMA UndecoratedIs ==
  ASSUME NEW S, NEW name \in Seq(S)
  PROVE  NameAs("workspace/symbol", name) = Undecorate(name)
<1> DEFINE n == Len(name)
           r == Reverse(name)
           d == Reverse(Decoration)
           U == S \cup {"(", ")"}
<1>0. n \in Nat /\ name \in Seq(U) /\ \A i \in 1..n : name[i] \in U
  <2>1. name \in Seq(U)
    BY SeqMonotonic
  <2> HIDE DEF U
  <2> QED
    BY <2>1, LenProperties, ElementOfSeq
<1>1. /\ Decoration \in Seq(U) /\ Len(Decoration) = 2
      /\ Decoration[1] = "(" /\ Decoration[2] = ")"
  BY DEF Decoration
<1>2. /\ d \in Seq(U) /\ Len(d) = 2 /\ d[1] = ")" /\ d[2] = "("
  <2> HIDE DEF U
  <2>1. d = [i \in 1..2 |-> Decoration[2 - i + 1]]
    BY <1>1 DEF Reverse
  <2>2. \A i \in 1..2 : Decoration[2 - i + 1] \in U
    <3>1. \A i \in 1..2 : Decoration[i] \in U
      BY <1>1, ElementOfSeq
    <3>2. \A i \in 1..2 : 2 - i + 1 \in 1..2
      OBVIOUS
    <3> QED
      BY <3>1, <3>2
  <2> QED
    BY <1>1, <2>1, <2>2
<1>3. r \in Seq(U) /\ Len(r) = n /\ \A i \in 1..n : r[i] = name[n - i + 1]
  <2> HIDE DEF U
  <2>1. r = [i \in 1..n |-> name[n - i + 1]]
    BY DEF Reverse
  <2>2. \A i \in 1..n : name[n - i + 1] \in U
    BY <1>0
  <2> HIDE DEF n
  <2> QED
    BY <1>0, <2>1, <2>2
<1> HIDE DEF U, n
<1>4. IsSuffix(Decoration, name) <=> 2 <= n /\ SubSeq(d, 1, 2) = SubSeq(r, 1, 2)
  BY <1>2, <1>3 DEF IsSuffix, IsPrefix
<1> HIDE DEF d, r
<1>5. SubSeq(d, 1, 2) = d
  BY <1>2, SubSeqFull
<1>6. ASSUME 2 <= n
      PROVE  SubSeq(r, 1, 2) = d <=> name[n] = ")" /\ name[n - 1] = "("
  <2> DEFINE u == SubSeq(r, 1, 2)
  <2>1. u \in Seq(U) /\ Len(u) = 2 /\ \A i \in 1..2 : u[i] = r[i]
    <3>1. /\ u \in Seq(U) /\ Len(u) = IF 1 <= 2 THEN 2 - 1 + 1 ELSE 0
          /\ \A i \in 1..(2 - 1 + 1) : u[i] = r[1 + i - 1]
      BY <1>0, <1>3, <1>6, PartType
    <3> HIDE DEF u
    <3> QED
      BY <3>1
  <2> HIDE DEF u
  <2>2. u[1] = name[n] /\ u[2] = name[n - 1]
    <3>1. 1 \in 1..n /\ 2 \in 1..n /\ n - 1 + 1 = n /\ n - 2 + 1 = n - 1
      BY <1>0, <1>6
    <3>2. r[1] = name[n - 1 + 1] /\ r[2] = name[n - 2 + 1]
      BY <1>3, <3>1
    <3> QED
      BY <2>1, <3>1, <3>2
  <2>3. u = d <=> u[1] = d[1] /\ u[2] = d[2]
    <3>1. (\A i \in 1..2 : u[i] = d[i]) => u = d
      BY <1>2, <2>1, SeqEqual
    <3> QED
      BY <3>1
  <2> QED
    BY <1>2, <2>2, <2>3 DEF u
<1>7. ASSUME 2 <= n
      PROVE  SubSeq(name, n - 1, n) = <<"(", ")">> <=> name[n] = ")" /\ name[n - 1] = "("
  <2> DEFINE u == SubSeq(name, n - 1, n)
  <2>1. u \in Seq(U) /\ Len(u) = 2 /\ u[1] = name[n - 1] /\ u[2] = name[n]
    <3>1. /\ u \in Seq(U) /\ Len(u) = IF n - 1 <= n THEN n - (n - 1) + 1 ELSE 0
          /\ \A i \in 1..(n - (n - 1) + 1) : u[i] = name[n - 1 + i - 1]
      <4>1. n - 1 \in Nat /\ n - 1 >= 1 /\ n <= Len(name) /\ n \in Nat
        BY <1>0, <1>7 DEF n
      <4> QED
        BY <1>0, <4>1, PartType
    <3> HIDE DEF u
    <3>2. n - 1 + 1 - 1 = n - 1 /\ n - 1 + 2 - 1 = n /\ n - (n - 1) + 1 = 2 /\ n - 1 <= n
      BY <1>0
    <3> QED
      BY <3>1, <3>2
  <2> HIDE DEF u
  <2>2. u = Decoration <=> u[1] = Decoration[1] /\ u[2] = Decoration[2]
    <3>1. (\A i \in 1..2 : u[i] = Decoration[i]) => u = Decoration
      BY <1>1, <2>1, SeqEqual
    <3> QED
      BY <3>1
  <2>3. Decoration = <<"(", ")">>
    BY DEF Decoration
  <2> QED
    BY <1>1, <2>1, <2>2, <2>3 DEF u
<1>8. IsSuffix(Decoration, name) <=> 2 <= n /\ SubSeq(name, n - 1, n) = <<"(", ")">>
  BY <1>4, <1>5, <1>6, <1>7
<1> QED
  BY <1>0, <1>8 DEF NameAs, Undecorate, n

LEMMA OutlineList ==
  ASSUME NEW symbols, IsOutline(symbols), NEW ss \in Lists(symbols)
  PROVE  /\ ss \in Seq(ToSet(ss)) /\ Len(ss) \in Nat /\ DOMAIN ss = 1..Len(ss)
         /\ ToSet(ss) = {ss[i] : i \in 1..Len(ss)}
         /\ \A i \in 1..Len(ss) : ss[i] \in ToSet(ss) /\ ss[i].name \in Seq(Characters)
<1>1. ss \in Seq(ToSet(ss)) /\ \A s \in ToSet(ss) : s.name \in Seq(Characters)
  BY DEF IsOutline
<1>2. Len(ss) \in Nat /\ DOMAIN ss = 1..Len(ss)
  BY <1>1, LenProperties
<1>3. ToSet(ss) = {ss[i] : i \in 1..Len(ss)}
  BY <1>2 DEF ToSet
<1> QED
  BY <1>1, <1>2, <1>3

-----------------------------------------------------------------------------
(* The lists that the symbols of so many lists contain. *)
OneDeeper(lists) == {s.children : s \in UNION {ToSet(ss) : ss \in lists}}

LEMMA NestedSteps ==
  ASSUME NEW symbols
  PROVE  /\ Nested(symbols)[0] = {symbols}
         /\ \A n \in Nat : Nested(symbols)[n + 1] = OneDeeper(Nested(symbols)[n])
<1> DEFINE Run(k, g) == g[0] = {symbols} /\ \A n \in Nat : n < k => g[n + 1] = OneDeeper(g[n])
<1>1. \A k \in Nat : \E g : Run(k, g)
  <2> DEFINE T == {k \in Nat : ~\E g : Run(k, g)}
  <2> SUFFICES ASSUME T # {} PROVE FALSE
    OBVIOUS
  <2>1. PICK m \in T : \A k \in Nat : k < m => k \notin T
    <3>1. T \in SUBSET Nat
      OBVIOUS
    <3> HIDE DEF T
    <3> QED
      BY <3>1, LeastElement
  <2>2. m # 0
    <3>1. Run(0, [n \in Nat |-> {symbols}])
      OBVIOUS
    <3> QED
      BY <3>1, <2>1
  <2>3. m - 1 \in Nat /\ m - 1 \notin T
    <3>1. m \in Nat
      OBVIOUS
    <3> HIDE DEF T
    <3> QED
      BY <2>1, <2>2, <3>1
  <2>4. PICK g : Run(m - 1, g)
    BY <2>3
  <2> DEFINE h == [n \in Nat |-> IF n = m THEN OneDeeper(g[m - 1]) ELSE g[n]]
  <2>5. Run(m, h)
    <3>1. h[0] = {symbols}
      BY <2>2, <2>4
    <3>2. ASSUME NEW n \in Nat, n < m PROVE h[n + 1] = OneDeeper(h[n])
      <4>1. CASE n = m - 1
        BY <2>3, <3>2, <4>1
      <4>2. CASE n < m - 1
        <5>1. h[n + 1] = g[n + 1] /\ h[n] = g[n] /\ g[n + 1] = OneDeeper(g[n])
          BY <2>3, <2>4, <3>2, <4>2
        <5> QED
          BY <5>1
      <4> QED
        BY <2>3, <3>2, <4>1, <4>2
    <3> QED
      BY <3>1, <3>2
  <2> QED
    BY <2>1, <2>5
<1>2. ASSUME NEW k \in Nat, NEW g, NEW h, Run(k, g), Run(k, h)
      PROVE  g[k] = h[k]
  <2> DEFINE T == {n \in Nat : n <= k /\ g[n] # h[n]}
  <2> SUFFICES ASSUME T # {} PROVE FALSE
    OBVIOUS
  <2>1. PICK m \in T : \A n \in Nat : n < m => n \notin T
    <3>1. T \in SUBSET Nat
      OBVIOUS
    <3> HIDE DEF T
    <3> QED
      BY <3>1, LeastElement
  <2>2. m # 0
    BY <1>2, <2>1
  <2>3. m - 1 \in Nat /\ m - 1 \notin T /\ m - 1 < k /\ m - 1 + 1 = m
    BY <2>1, <2>2
  <2>4. g[m - 1] = h[m - 1]
    BY <2>3
  <2>5. g[m] = OneDeeper(g[m - 1]) /\ h[m] = OneDeeper(h[m - 1])
    BY <1>2, <2>3
  <2> QED
    BY <2>1, <2>4, <2>5
<1> DEFINE run(k) == CHOOSE g : Run(k, g)
           f == [n \in Nat |-> run(n)[n]]
<1>3. ASSUME NEW n \in Nat PROVE Run(n, run(n))
  BY <1>1, Zenon
<1> HIDE DEF run
<1>4. \A n \in Nat : f[n] = run(n)[n]
  OBVIOUS
<1>5. f[0] = {symbols}
  BY <1>3, <1>4
<1>6. ASSUME NEW n \in Nat PROVE f[n + 1] = OneDeeper(f[n])
  <2>1. n + 1 \in Nat /\ n < n + 1
    OBVIOUS
  <2>2. Run(n, run(n + 1)) /\ run(n + 1)[n + 1] = OneDeeper(run(n + 1)[n])
    BY <1>3, <2>1
  <2>3. run(n + 1)[n] = run(n)[n]
    BY <1>2, <1>3, <2>1, <2>2
  <2> QED
    BY <1>4, <2>1, <2>2, <2>3
<1> DEFINE Is(g) == g = [n \in Nat |-> IF n = 0 THEN {symbols} ELSE OneDeeper(g[n - 1])]
           lists == CHOOSE g : Is(g)
<1>7. Nested(symbols) = lists
  BY Zenon DEF Nested, OneDeeper
<1>8. Is(f)
  <2>1. ASSUME NEW n \in Nat, n # 0 PROVE f[n] = OneDeeper(f[n - 1])
    <3>1. n - 1 \in Nat /\ n - 1 + 1 = n
      BY <2>1
    <3> HIDE DEF f
    <3> QED
      BY <1>6, <3>1
  <2>2. f = [n \in Nat |-> f[n]]
    OBVIOUS
  <2> HIDE DEF f
  <2> QED
    BY <1>5, <2>1, <2>2
<1>9. Is(lists)
  BY <1>8, Zenon
<1> HIDE DEF lists
<1>10. \A n \in Nat : lists[n] = IF n = 0 THEN {symbols} ELSE OneDeeper(lists[n - 1])
  BY <1>9
<1>11. ASSUME NEW n \in Nat PROVE lists[n + 1] = OneDeeper(lists[n])
  <2>1. n + 1 \in Nat /\ n + 1 # 0 /\ n + 1 - 1 = n
    OBVIOUS
  <2> QED
    BY <1>10, <2>1
<1> QED
  BY <1>7, <1>10, <1>11

LEMMA NestedNested ==
  ASSUME NEW symbols, NEW m \in Nat, NEW ss \in Nested(symbols)[m], NEW n \in Nat
  PROVE  Nested(ss)[n] \subseteq Nested(symbols)[m + n]
<1> DEFINE P(k) == Nested(ss)[k] \subseteq Nested(symbols)[m + k]
           T == {k \in Nat : ~P(k)}
<1> SUFFICES ASSUME T # {} PROVE FALSE
  OBVIOUS
<1>1. PICK k \in T : \A i \in Nat : i < k => i \notin T
  <2>1. T \in SUBSET Nat
    OBVIOUS
  <2> HIDE DEF T
  <2> QED
    BY <2>1, LeastElement
<1>2. k \in Nat /\ ~P(k)
  BY <1>1
<1>3. k # 0
  <2>1. m + 0 = m
    OBVIOUS
  <2>2. P(0)
    BY <2>1, NestedSteps
  <2> QED
    BY <1>2, <2>2
<1>4. /\ k - 1 \in Nat /\ k - 1 < k /\ k - 1 + 1 = k
      /\ m + (k - 1) \in Nat /\ m + (k - 1) + 1 = m + k
  BY <1>2, <1>3
<1>5. P(k - 1)
  BY <1>1, <1>4
<1>6. /\ Nested(ss)[k] = OneDeeper(Nested(ss)[k - 1])
      /\ Nested(symbols)[m + k] = OneDeeper(Nested(symbols)[m + (k - 1)])
  BY <1>4, NestedSteps
<1>7. \A A, B : A \subseteq B => OneDeeper(A) \subseteq OneDeeper(B)
  BY Zenon DEF OneDeeper
<1>8. P(k)
  BY <1>5, <1>6, <1>7
<1> QED
  BY <1>2, <1>8

(* What a list contains is what its symbols do. *)
LEMMA NestedSplit ==
  ASSUME NEW ss, NEW n \in Nat
  PROVE  Nested(ss)[n + 1] = UNION {Nested(s.children)[n] : s \in ToSet(ss)}
<1> DEFINE Split(k) == UNION {Nested(s.children)[k] : s \in ToSet(ss)}
           P(k) == Nested(ss)[k + 1] = Split(k)
           T == {k \in Nat : ~P(k)}
<1> SUFFICES ASSUME T # {} PROVE FALSE
  OBVIOUS
<1>1. PICK k \in T : \A i \in Nat : i < k => i \notin T
  <2>1. T \in SUBSET Nat
    OBVIOUS
  <2> HIDE DEF T
  <2> QED
    BY <2>1, LeastElement
<1>2. k \in Nat /\ ~P(k)
  BY <1>1
<1>3. k # 0
  <2>1. Nested(ss)[0] = {ss} /\ Nested(ss)[0 + 1] = OneDeeper(Nested(ss)[0])
    BY NestedSteps
  <2>2. OneDeeper({ss}) = {s.children : s \in ToSet(ss)}
    BY DEF OneDeeper
  <2>3. \A s : Nested(s.children)[0] = {s.children}
    BY NestedSteps
  <2>4. Split(0) = {s.children : s \in ToSet(ss)}
    <3>1. \A x : x \in Split(0) <=> \E s \in ToSet(ss) : x \in Nested(s.children)[0]
      BY Zenon
    <3>2. \A x, s : x \in Nested(s.children)[0] <=> x = s.children
      BY <2>3
    <3>3. \A x : x \in Split(0) <=> \E s \in ToSet(ss) : x = s.children
      BY <3>1, <3>2, Zenon
    <3>4. \A x : x \in {s.children : s \in ToSet(ss)} <=> \E s \in ToSet(ss) : x = s.children
      BY Zenon
    <3> HIDE DEF Split
    <3> QED
      BY <3>3, <3>4, Zenon
  <2>5. P(0)
    BY <2>1, <2>2, <2>4
  <2> QED
    BY <1>2, <2>5
<1>4. /\ k - 1 \in Nat /\ k - 1 < k /\ k - 1 + 1 = k /\ k + 1 \in Nat
  BY <1>2, <1>3
<1>5. P(k - 1)
  BY <1>1, <1>4
<1>6. Nested(ss)[k] = Split(k - 1)
  BY <1>4, <1>5
<1>7. Nested(ss)[k + 1] = OneDeeper(Nested(ss)[k])
  BY <1>2, NestedSteps
<1>8. \A s : Nested(s.children)[k] = OneDeeper(Nested(s.children)[k - 1])
  BY <1>4, NestedSteps
<1>9. OneDeeper(Split(k - 1)) = UNION {OneDeeper(Nested(s.children)[k - 1]) : s \in ToSet(ss)}
  BY DEF OneDeeper
<1>10. Split(k) = UNION {OneDeeper(Nested(s.children)[k - 1]) : s \in ToSet(ss)}
  BY <1>8
<1>11. P(k)
  BY <1>6, <1>7, <1>9, <1>10
<1> QED
  BY <1>2, <1>11

(* Below the last depth of an outline there is nothing. *)
LEMMA OutlineEnds ==
  ASSUME NEW symbols, IsOutline(symbols), NEW n \in Nat, n > MaxNesting
  PROVE  Nested(symbols)[n] = {}
<1> DEFINE M == MaxNesting
           T == {k \in Nat : k > M /\ Nested(symbols)[k] # {}}
<1>0. M \in Nat
  BY NestingAssumption
<1> SUFFICES ASSUME T # {} PROVE FALSE
  OBVIOUS
<1>1. PICK k \in T : \A i \in Nat : i < k => i \notin T
  <2>1. T \in SUBSET Nat
    OBVIOUS
  <2> HIDE DEF T
  <2> QED
    BY <2>1, LeastElement
<1>2. k \in Nat /\ k > M /\ Nested(symbols)[k] # {}
  BY <1>1
<1>3. /\ k - 1 \in Nat /\ k - 1 < k /\ k - 1 + 1 = k /\ (k - 1 > M \/ k - 1 = M)
  BY <1>0, <1>2
<1>4. Nested(symbols)[k - 1] \subseteq {<<>>}
  BY <1>1, <1>3 DEF IsOutline
<1>5. Nested(symbols)[k] = OneDeeper(Nested(symbols)[k - 1])
  BY <1>3, NestedSteps
<1>6. ToSet(<<>>) = {}
  BY DEF ToSet
<1>7. \A A : A \subseteq {<<>>} => OneDeeper(A) = {}
  BY <1>6 DEF OneDeeper
<1> QED
  BY <1>2, <1>4, <1>5, <1>7

(* A list of an outline, its depth and those one level deeper. *)
LEMMA OutlineDepth ==
  ASSUME NEW symbols, IsOutline(symbols), NEW m \in 0..MaxNesting,
         NEW ss \in Nested(symbols)[m]
  PROVE  /\ ss \in Lists(symbols)
         /\ m = MaxNesting => ss = <<>> /\ ToSet(ss) = {}
         /\ \A s \in ToSet(ss) : /\ s.children \in Nested(symbols)[m + 1]
                                 /\ s.children \in Lists(symbols)
<1>0. MaxNesting \in Nat /\ m \in Nat /\ m <= MaxNesting
  BY NestingAssumption
<1>1. ss \in Lists(symbols)
  BY Zenon DEF Lists
<1>2. m = MaxNesting => ss = <<>> /\ ToSet(ss) = {}
  BY DEF IsOutline, ToSet
<1>3. ASSUME NEW s \in ToSet(ss)
      PROVE  s.children \in Nested(symbols)[m + 1] /\ s.children \in Lists(symbols)
  <2>1. s.children \in OneDeeper(Nested(symbols)[m])
    BY <1>3, Zenon DEF OneDeeper
  <2>2. s.children \in Nested(symbols)[m + 1]
    BY <1>0, <2>1, NestedSteps
  <2>3. m # MaxNesting
    BY <1>2, <1>3
  <2>4. m + 1 \in 0..MaxNesting
    BY <1>0, <2>3
  <2> QED
    BY <2>2, <2>4, Zenon DEF Lists
<1> QED
  BY <1>1, <1>2, <1>3

(* The declarations of a list: its symbols and what they contain. *)
LEMMA DeclarationsSplit ==
  ASSUME NEW symbols, IsOutline(symbols), NEW ss \in Lists(symbols)
  PROVE  Declarations(ss) = ToSet(ss) \cup UNION {Declarations(s.children) : s \in ToSet(ss)}
<1> DEFINE M == MaxNesting
           all(l) == UNION {ToSet(tt) : tt \in l}
<1>0. M \in Nat /\ 0 \in 0..M /\ M + 1 \in Nat
  BY NestingAssumption
<1>1. PICK m \in 0..M : ss \in Nested(symbols)[m]
  BY Zenon DEF Lists
<1>2. Nested(ss)[M + 1] = {}
  <2>1. m \in Nat /\ m + (M + 1) \in Nat /\ m + (M + 1) > M
    BY <1>0
  <2>2. Nested(ss)[M + 1] \subseteq Nested(symbols)[m + (M + 1)]
    BY <1>0, <1>1, <2>1, NestedNested
  <2>3. Nested(symbols)[m + (M + 1)] = {}
    BY <2>1, OutlineEnds
  <2> QED
    BY <2>2, <2>3
<1>3. \A t, d : d \in Declarations(t) <=> \E n \in 0..M : d \in all(Nested(t)[n])
  <2> SUFFICES ASSUME NEW t, NEW d
               PROVE  d \in Declarations(t) <=> \E n \in 0..M : d \in all(Nested(t)[n])
    OBVIOUS
  <2>1. d \in Declarations(t) <=> \E tt \in Lists(t) : d \in ToSet(tt)
    BY Zenon DEF Declarations
  <2>2. \A tt : tt \in Lists(t) <=> \E n \in 0..M : tt \in Nested(t)[n]
    BY Zenon DEF Lists
  <2>3. \A n : d \in all(Nested(t)[n]) <=> \E tt \in Nested(t)[n] : d \in ToSet(tt)
    BY Zenon
  <2> HIDE DEF all, M
  <2> QED
    BY <2>1, <2>2, <2>3, Zenon
<1>4. \A d : d \in Declarations(ss) <=> \E n \in 0..M : d \in all(Nested(ss)[n])
  BY <1>3
<1>5. \A s, d : d \in Declarations(s.children)
                  <=> \E n \in 0..M : d \in all(Nested(s.children)[n])
  BY <1>3
<1>6. all(Nested(ss)[0]) = ToSet(ss)
  <2>1. Nested(ss)[0] = {ss}
    BY NestedSteps
  <2> QED
    BY <2>1
<1>7. \A n \in Nat : \A d : d \in all(Nested(ss)[n + 1])
                          <=> \E s \in ToSet(ss) : d \in all(Nested(s.children)[n])
  BY NestedSplit
<1> HIDE DEF all
<1>8. ASSUME NEW d \in Declarations(ss)
      PROVE  d \in ToSet(ss) \cup UNION {Declarations(s.children) : s \in ToSet(ss)}
  <2>1. PICK n \in 0..M : d \in all(Nested(ss)[n])
    BY <1>4, <1>8
  <2>2. CASE n = 0
    BY <1>6, <2>1, <2>2
  <2>3. CASE n # 0
    <3>1. n - 1 \in Nat /\ n - 1 + 1 = n /\ n - 1 \in 0..M
      BY <1>0, <2>3
    <3>2. PICK s \in ToSet(ss) : d \in all(Nested(s.children)[n - 1])
      BY <1>7, <2>1, <3>1
    <3>3. d \in Declarations(s.children)
      BY <1>5, <3>1, <3>2
    <3> QED
      BY <3>2, <3>3
  <2> QED
    BY <2>2, <2>3
<1>9. ASSUME NEW d \in ToSet(ss) PROVE d \in Declarations(ss)
  BY <1>0, <1>4, <1>6, <1>9
<1>10. ASSUME NEW s \in ToSet(ss), NEW d \in Declarations(s.children)
      PROVE  d \in Declarations(ss)
  <2>1. PICK n \in 0..M : d \in all(Nested(s.children)[n])
    BY <1>5, <1>10
  <2>2. n \in Nat /\ d \in all(Nested(ss)[n + 1])
    BY <1>0, <1>7, <1>10, <2>1
  <2>3. n # M
    <3>1. all({}) = {}
      BY DEF all
    <3> QED
      BY <1>2, <2>2, <3>1
  <2>4. n + 1 \in 0..M
    BY <1>0, <2>1, <2>3
  <2> QED
    BY <1>4, <2>2, <2>4
<1> QED
  BY <1>8, <1>9, <1>10

-----------------------------------------------------------------------------
(* What is collected for each symbol of a list, given what is collected    *)
(* for the lists within.                                                   *)
Parts(c, ss) == [i \in DOMAIN ss |-> Own(ss[i]) \o c[ss[i].children]]

LEMMA PartsType ==
  ASSUME NEW symbols, IsOutline(symbols), NEW ss \in Lists(symbols), NEW c, NEW S,
         \A s \in ToSet(ss) : Own(s) \in Seq(S) /\ c[s.children] \in Seq(S)
  PROVE  /\ Parts(c, ss) \in Seq(Seq(S)) /\ Len(Parts(c, ss)) = Len(ss) /\ Len(ss) \in Nat
         /\ FlattenSeq(Parts(c, ss)) \in Seq(S)
         /\ \A i \in 1..Len(ss) : /\ Parts(c, ss)[i] = Own(ss[i]) \o c[ss[i].children]
                                  /\ Parts(c, ss)[i] \in Seq(S)
<1>1. /\ Len(ss) \in Nat /\ DOMAIN ss = 1..Len(ss)
      /\ \A i \in 1..Len(ss) : ss[i] \in ToSet(ss)
  BY OutlineList
<1>2. \A i \in 1..Len(ss) : Own(ss[i]) \o c[ss[i].children] \in Seq(S)
  <2> SUFFICES ASSUME NEW i \in 1..Len(ss)
               PROVE  Own(ss[i]) \o c[ss[i].children] \in Seq(S)
    OBVIOUS
  <2>1. Own(ss[i]) \in Seq(S) /\ c[ss[i].children] \in Seq(S)
    BY <1>1
  <2> QED
    BY <2>1, ConcatProperties
<1>3. /\ Parts(c, ss) \in [1..Len(ss) -> Seq(S)]
      /\ \A i \in 1..Len(ss) : Parts(c, ss)[i] = Own(ss[i]) \o c[ss[i].children]
  BY <1>1, <1>2 DEF Parts
<1>4. Parts(c, ss) \in Seq(Seq(S)) /\ Len(Parts(c, ss)) = Len(ss)
  BY <1>1, <1>3
<1> QED
  BY <1>1, <1>2, <1>3, <1>4, FlattenedWhole

(* It is the lists within that matter. *)
LEMMA PartsAgree ==
  ASSUME NEW ss, NEW c, NEW d, \A s \in ToSet(ss) : c[s.children] = d[s.children]
  PROVE  FlattenSeq(Parts(c, ss)) = FlattenSeq(Parts(d, ss))
<1>1. \A i \in DOMAIN ss : ss[i] \in ToSet(ss)
  BY DEF ToSet
<1>2. \A i \in DOMAIN ss : c[ss[i].children] = d[ss[i].children]
  BY <1>1
<1>3. Parts(c, ss) = Parts(d, ss)
  BY <1>2 DEF Parts
<1> QED
  BY <1>3

LEMMA CollectIs ==
  ASSUME NEW symbols, IsOutline(symbols)
  PROVE  \E c : /\ Collect(symbols) = c[symbols]
                /\ \A ss \in Lists(symbols) : c[ss] = FlattenSeq(Parts(c, ss))
<1> DEFINE L == Lists(symbols)
           M == MaxNesting
           S == {Callable(s.name, s.line) : s \in Declarations(symbols)}
           C == [L -> Seq(S)]
           step == [n \in Nat |-> [c \in C |-> [ss \in L |-> FlattenSeq(Parts(c, ss))]]]
           none == [ss \in L |-> <<>>]
<1>0. M \in Nat /\ none \in C
  <2>1. <<>> \in Seq(S)
    BY EmptySeq
  <2> HIDE DEF S, L
  <2> QED
    BY <2>1, NestingAssumption
<1>1. \A ss \in L : \A s \in ToSet(ss) : Own(s) \in Seq(S)
  <2> SUFFICES ASSUME NEW ss \in L, NEW s \in ToSet(ss) PROVE Own(s) \in Seq(S)
    OBVIOUS
  <2>1. s \in Declarations(symbols)
    BY Zenon DEF Declarations
  <2>2. Callable(s.name, s.line) \in S
    BY <2>1
  <2> HIDE DEF S
  <2> QED
    BY <2>2 DEF Own
<1>2. \A ss \in L : \A s \in ToSet(ss) : s.children \in L
  <2> SUFFICES ASSUME NEW ss \in L, NEW s \in ToSet(ss) PROVE s.children \in L
    OBVIOUS
  <2>1. PICK m \in 0..M : ss \in Nested(symbols)[m]
    BY Zenon DEF Lists
  <2> QED
    BY <2>1, OutlineDepth
<1> HIDE DEF S
<1>3. \A c \in C : [ss \in L |-> FlattenSeq(Parts(c, ss))] \in C
  <2> SUFFICES ASSUME NEW c \in C, NEW ss \in L PROVE FlattenSeq(Parts(c, ss)) \in Seq(S)
    OBVIOUS
  <2>1. \A s \in ToSet(ss) : Own(s) \in Seq(S) /\ c[s.children] \in Seq(S)
    BY <1>1, <1>2
  <2> HIDE DEF L
  <2> QED
    BY <2>1, PartsType DEF L
<1> HIDE DEF L
<1>4. step \in [Nat -> [C -> C]]
  BY <1>3
<1>5. \A n \in Nat, c \in C, ss \in L : step[n][c][ss] = FlattenSeq(Parts(c, ss))
  OBVIOUS
<1> HIDE DEF step
<1>6. PICK f \in [Nat -> C] : Follows(f, none, step)
  <2> HIDE DEF C, none
  <2> QED
    BY <1>0, <1>4, Recursion
<1>7. /\ f[0] = none
      /\ \A n \in Nat, ss \in L : f[n + 1][ss] = FlattenSeq(Parts(f[n], ss))
  <2>1. f[0] = none /\ \A n \in Nat : f[n + 1] = step[n][f[n]]
    BY <1>6 DEF Follows
  <2>2. \A n \in Nat : f[n] \in C
    BY <1>6
  <2>3. ASSUME NEW n \in Nat, NEW ss \in L
        PROVE  f[n + 1][ss] = FlattenSeq(Parts(f[n], ss))
    <3>1. f[n + 1] = step[n][f[n]] /\ f[n] \in C
      BY <2>1, <2>2
    <3> HIDE DEF C
    <3>2. step[n][f[n]][ss] = FlattenSeq(Parts(f[n], ss))
      BY <1>5, <3>1
    <3> QED
      BY <3>1, <3>2, Zenon
  <2> HIDE DEF C, none
  <2> QED
    BY <2>1, <2>3
<1> DEFINE Stable(n) == \A k \in Nat, ss \in Nested(symbols)[M - n] :
                          n <= k => f[k][ss] = f[k + 1][ss]
           T == {n \in Nat : n <= M /\ ~Stable(n)}
<1>8. ASSUME NEW n \in 0..M, NEW ss \in Nested(symbols)[M - n]
      PROVE  /\ ss \in L /\ (n = 0 => ss = <<>>)
             /\ n # 0 => \A s \in ToSet(ss) : s.children \in Nested(symbols)[M - (n - 1)]
  <2>1. M - n \in 0..M /\ (n = 0 => M - n = M) /\ (n # 0 => M - n + 1 = M - (n - 1))
    BY <1>0
  <2>2. /\ ss \in Lists(symbols) /\ (M - n = M => ss = <<>>)
        /\ \A s \in ToSet(ss) : s.children \in Nested(symbols)[M - n + 1]
    BY <2>1, <1>8, OutlineDepth
  <2> QED
    BY <2>1, <2>2 DEF L
<1>9. T = {}
  <2> SUFFICES ASSUME T # {} PROVE FALSE
    OBVIOUS
  <2>1. PICK n \in T : \A i \in Nat : i < n => i \notin T
    <3>1. T \in SUBSET Nat
      OBVIOUS
    <3> HIDE DEF T
    <3> QED
      BY <3>1, LeastElement
  <2>2. n \in Nat /\ n <= M /\ n \in 0..M /\ ~Stable(n)
    BY <1>0, <2>1
  <2>3. PICK k \in Nat, ss \in Nested(symbols)[M - n] : n <= k /\ f[k][ss] # f[k + 1][ss]
    BY <2>2
  <2>4. ss \in L
    BY <1>8, <2>2
  <2>5. n # 0
    <3>1. CASE n = 0
      <4>1. ss = <<>>
        BY <1>8, <2>2, <3>1
      <4>2. \A c : Parts(c, <<>>) = <<>>
        BY DEF Parts
      <4>3. ASSUME NEW i \in Nat PROVE f[i + 1][ss] = FlattenSeq(<<>>)
        <5>1. f[i + 1][ss] = FlattenSeq(Parts(f[i], ss))
          BY <1>7, <2>4
        <5>2. Parts(f[i], ss) = <<>>
          BY <4>1, <4>2
        <5> QED
          BY <5>1, <5>2, Zenon
      <4>4. FlattenSeq(<<>>) = <<>>
        BY DEF FlattenSeq
      <4>5. f[0][ss] = <<>>
        BY <1>7, <2>4
      <4>6. \A i \in Nat : f[i][ss] = <<>>
        <5>1. ASSUME NEW i \in Nat, i # 0 PROVE f[i][ss] = <<>>
          <6>1. i - 1 \in Nat /\ i - 1 + 1 = i
            BY <5>1
          <6> QED
            BY <4>3, <4>4, <6>1
        <5> QED
          BY <4>5, <5>1
      <4>7. k + 1 \in Nat
        OBVIOUS
      <4> QED
        BY <2>3, <4>6, <4>7
    <3> QED
      BY <3>1
  <2>6. /\ n - 1 \in Nat /\ n - 1 < n /\ n - 1 <= M
        /\ k - 1 \in Nat /\ n - 1 <= k - 1 /\ k - 1 + 1 = k /\ k + 1 \in Nat
    <3>1. k \in Nat /\ n <= k
      BY <2>3
    <3> QED
      BY <1>0, <2>2, <2>5, <3>1
  <2>7. Stable(n - 1)
    BY <2>1, <2>6
  <2>8. ASSUME NEW s \in ToSet(ss) PROVE f[k - 1][s.children] = f[k][s.children]
    <3>1. s.children \in Nested(symbols)[M - (n - 1)]
      BY <1>8, <2>2, <2>5, <2>8
    <3>2. f[k - 1][s.children] = f[k - 1 + 1][s.children]
      BY <2>6, <2>7, <3>1
    <3> QED
      BY <2>6, <3>2
  <2>9. FlattenSeq(Parts(f[k - 1], ss)) = FlattenSeq(Parts(f[k], ss))
    BY <2>8, PartsAgree
  <2>10. f[k][ss] = FlattenSeq(Parts(f[k - 1], ss))
    BY <1>7, <2>4, <2>6
  <2>11. f[k + 1][ss] = FlattenSeq(Parts(f[k], ss))
    BY <1>7, <2>4
  <2> QED
    BY <2>3, <2>9, <2>10, <2>11
<1>10. ASSUME NEW ss \in L PROVE f[M][ss] = FlattenSeq(Parts(f[M], ss))
  <2>1. PICK m \in 0..M : ss \in Nested(symbols)[m]
    BY <1>10, Zenon DEF L, Lists
  <2>2. M - m \in Nat /\ M - m <= M /\ M - (M - m) = m
    BY <1>0, <2>1
  <2>3. Stable(M - m)
    BY <1>9, <2>2
  <2>4. f[M][ss] = f[M + 1][ss]
    BY <1>0, <2>1, <2>2, <2>3
  <2> QED
    BY <1>0, <1>7, <1>10, <2>4
<1> DEFINE Is(g) == g = [ss \in L |-> FlattenSeq([i \in DOMAIN ss |->
                                        Own(ss[i]) \o g[ss[i].children]])]
           collect == CHOOSE g : Is(g)
<1>11. Collect(symbols) = collect[symbols]
  BY Zenon DEF Collect, L
<1>12. Is(f[M])
  <2> DEFINE g == f[M]
  <2>1. g \in C
    BY <1>0, <1>6
  <2> HIDE DEF g
  <2>2. g = [ss \in L |-> g[ss]]
    BY <2>1
  <2>3. \A ss \in L : g[ss] = FlattenSeq(Parts(g, ss))
    BY <1>10 DEF g
  <2>4. g = [ss \in L |-> FlattenSeq(Parts(g, ss))]
    BY <2>2, <2>3
  <2>5. Is(g)
    BY <2>4, Zenon DEF Parts
  <2> QED
    BY <2>5 DEF g
<1>13. Is(collect)
  BY <1>12, Zenon
<1> HIDE DEF collect
<1>14. collect = [ss \in L |-> FlattenSeq(Parts(collect, ss))]
  BY <1>13, Zenon DEF Parts
<1>15. \A ss \in L : collect[ss] = FlattenSeq(Parts(collect, ss))
  BY <1>14
<1> QED
  BY <1>11, <1>15 DEF L

(* What is told of some declarations: the named functions and methods. *)
Named(T) == {Callable(s.name, s.line) : s \in {d \in T : d.kind \in CallableKind /\ Scan(d.name)}}

LEMMA OwnIs ==
  ASSUME NEW s, s.name \in Seq(Characters)
  PROVE  ToSet(Own(s)) = Named({s}) /\ Rising(Own(s))
<1>1. IsNamedCallable(s.name, s.kind) <=> s.kind \in CallableKind /\ Scan(s.name)
  BY NamesAreScanned
<1>2. CASE IsNamedCallable(s.name, s.kind)
  <2>1. Own(s) = <<Callable(s.name, s.line)>>
    BY <1>2 DEF Own
  <2>2. ToSet(Own(s)) = {Callable(s.name, s.line)} /\ DOMAIN Own(s) = 1..1
    BY <2>1 DEF ToSet
  <2>3. Named({s}) = {Callable(s.name, s.line)}
    BY <1>1, <1>2 DEF Named
  <2>4. \A i, j \in 1..1 : ~(i < j)
    OBVIOUS
  <2>5. Rising(Own(s))
    BY <2>2, <2>4, Zenon DEF Rising
  <2> QED
    BY <2>2, <2>3, <2>5
<1>3. CASE ~IsNamedCallable(s.name, s.kind)
  <2>1. Own(s) = <<>>
    BY <1>3 DEF Own
  <2>2. ToSet(Own(s)) = {} /\ DOMAIN Own(s) = {}
    BY <2>1 DEF ToSet
  <2>3. Named({s}) = {}
    BY <1>1, <1>3 DEF Named
  <2> QED
    BY <2>2, <2>3 DEF Rising
<1> QED
  BY <1>2, <1>3

(* x is told of one of some declarations, at its line. *)
LEMMA NamedLine ==
  ASSUME NEW T, NEW x \in Named(T)
  PROVE  \E t \in T : x.line = t.line
BY DEF Named, Callable

(* What is collected of a list, if it is right for the lists within. *)
Gathers(symbols, c, S, ss) ==
  /\ c[ss] \in Seq(S)
  /\ ToSet(c[ss]) = Named(Declarations(ss))
  /\ Ordered(symbols) => Rising(c[ss])

LEMMA GathersFromWithin ==
  ASSUME NEW symbols, IsOutline(symbols), NEW ss \in Lists(symbols), NEW c, NEW S,
         c[ss] = FlattenSeq(Parts(c, ss)),
         \A s \in ToSet(ss) : Own(s) \in Seq(S) /\ Gathers(symbols, c, S, s.children)
  PROVE  Gathers(symbols, c, S, ss)
<1> DEFINE parts == Parts(c, ss)
           n == Len(ss)
           all(i) == {ss[i]} \cup Declarations(ss[i].children)
<1>1. /\ n \in Nat /\ DOMAIN ss = 1..n /\ ToSet(ss) = {ss[i] : i \in 1..n}
      /\ \A i \in 1..n : ss[i] \in ToSet(ss) /\ ss[i].name \in Seq(Characters)
  BY OutlineList
<1>2. /\ parts \in Seq(Seq(S)) /\ Len(parts) = n /\ FlattenSeq(parts) \in Seq(S)
      /\ \A i \in 1..n : parts[i] = Own(ss[i]) \o c[ss[i].children] /\ parts[i] \in Seq(S)
  BY PartsType DEF Gathers
<1> HIDE DEF parts, n
<1>3. ASSUME NEW i \in 1..n
      PROVE  /\ Own(ss[i]) \in Seq(S) /\ ToSet(Own(ss[i])) = Named({ss[i]})
             /\ Rising(Own(ss[i])) /\ Gathers(symbols, c, S, ss[i].children)
  BY <1>1, <1>3, OwnIs
<1>4. ASSUME NEW i \in 1..n PROVE ToSet(parts[i]) = Named(all(i))
  <2>1. ToSet(parts[i]) = Named({ss[i]}) \cup Named(Declarations(ss[i].children))
    <3>1. /\ c[ss[i].children] \in Seq(S) /\ Own(ss[i]) \in Seq(S)
          /\ ToSet(c[ss[i].children]) = Named(Declarations(ss[i].children))
      BY <1>3, <1>4 DEF Gathers
    <3>2. ToSet(Own(ss[i]) \o c[ss[i].children])
            = ToSet(Own(ss[i])) \cup ToSet(c[ss[i].children])
      BY <3>1, ConcatSet
    <3>3. parts[i] = Own(ss[i]) \o c[ss[i].children]
      BY <1>2, <1>4
    <3>4. ToSet(Own(ss[i])) = Named({ss[i]})
      BY <1>3, <1>4
    <3> QED
      BY <3>1, <3>2, <3>3, <3>4
  <2>2. \A A, B : Named(A \cup B) = Named(A) \cup Named(B)
    BY DEF Named
  <2> QED
    BY <2>1, <2>2
<1>5. ToSet(c[ss]) = Named(Declarations(ss))
  <2>1. ToSet(c[ss]) = UNION {ToSet(parts[i]) : i \in 1..n}
    BY <1>2, FlattenedSet DEF parts
  <2>2. \A x : x \in ToSet(c[ss]) <=> \E i \in 1..n : x \in Named(all(i))
    <3> HIDE DEF all
    <3> QED
      BY <1>4, <2>1
  <2>3. \A T, x : x \in Named(T) <=>
          \E d \in T : d.kind \in CallableKind /\ Scan(d.name) /\ x = Callable(d.name, d.line)
    BY Zenon DEF Named
  <2>4. \A d : d \in Declarations(ss) <=> \E i \in 1..n : d \in all(i)
    <3>1. Declarations(ss) = ToSet(ss) \cup UNION {Declarations(s.children) : s \in ToSet(ss)}
      BY DeclarationsSplit
    <3>2. \A d : d \in Declarations(ss) <=>
                   \E s \in ToSet(ss) : d = s \/ d \in Declarations(s.children)
      BY <3>1
    <3>3. \A s : s \in ToSet(ss) <=> \E i \in 1..n : s = ss[i]
      BY <1>1
    <3>4. \A i, d : d \in all(i) <=> d = ss[i] \/ d \in Declarations(ss[i].children)
      OBVIOUS
    <3> HIDE DEF all
    <3>5. ASSUME NEW d \in Declarations(ss) PROVE \E i \in 1..n : d \in all(i)
      <4>1. PICK s \in ToSet(ss) : d = s \/ d \in Declarations(s.children)
        BY <3>2, <3>5
      <4>2. PICK i \in 1..n : s = ss[i]
        BY <3>3, <4>1
      <4> QED
        BY <3>4, <4>1, <4>2
    <3>6. ASSUME NEW i \in 1..n, NEW d \in all(i) PROVE d \in Declarations(ss)
      BY <1>1, <3>2, <3>4, <3>6
    <3> QED
      BY <3>5, <3>6
  <2> HIDE DEF all
  <2>5. ASSUME NEW x \in ToSet(c[ss]) PROVE x \in Named(Declarations(ss))
    <3>1. PICK i \in 1..n : x \in Named(all(i))
      BY <2>2, <2>5
    <3>2. PICK d \in all(i) : d.kind \in CallableKind /\ Scan(d.name) /\ x = Callable(d.name, d.line)
      BY <2>3, <3>1, Zenon
    <3>3. d \in Declarations(ss)
      BY <2>4, <3>1, <3>2
    <3> QED
      BY <2>3, <3>2, <3>3, Zenon
  <2>6. ASSUME NEW x \in Named(Declarations(ss)) PROVE x \in ToSet(c[ss])
    <3>1. PICK d \in Declarations(ss) :
            d.kind \in CallableKind /\ Scan(d.name) /\ x = Callable(d.name, d.line)
      BY <2>3, <2>6, Zenon
    <3>2. PICK i \in 1..n : d \in all(i)
      BY <2>4, <3>1
    <3>3. x \in Named(all(i))
      BY <2>3, <3>1, <3>2, Zenon
    <3> QED
      BY <2>2, <3>2, <3>3
  <2> QED
    BY <2>5, <2>6
<1>6. ASSUME Ordered(symbols) PROVE Rising(c[ss])
  <2>1. \A i, j \in 1..n :
          /\ \A t \in Declarations(ss[i].children) : ss[i].line < t.line
          /\ i < j => \A t \in all(i), u \in all(j) : t.line < u.line
    BY <1>1, <1>6, Zenon DEF Ordered
  <2>2. ASSUME NEW i \in 1..n PROVE Rising(parts[i])
    <3>1. /\ Own(ss[i]) \in Seq(S) /\ c[ss[i].children] \in Seq(S)
          /\ Rising(Own(ss[i])) /\ Rising(c[ss[i].children])
          /\ ToSet(Own(ss[i])) = Named({ss[i]})
          /\ ToSet(c[ss[i].children]) = Named(Declarations(ss[i].children))
      BY <1>3, <1>6, <2>2 DEF Gathers
    <3>2. Above(Own(ss[i]), c[ss[i].children])
      <4> SUFFICES ASSUME NEW x \in Named({ss[i]}), NEW y \in Named(Declarations(ss[i].children))
                   PROVE  x.line < y.line
        BY <3>1 DEF Above
      <4>1. x.line = ss[i].line
        BY NamedLine
      <4>2. PICK t \in Declarations(ss[i].children) : y.line = t.line
        BY NamedLine
      <4>3. ss[i].line < t.line
        BY <2>1, <2>2, <4>2
      <4> QED
        BY <4>1, <4>2, <4>3
    <3>3. Rising(Own(ss[i]) \o c[ss[i].children])
      BY <3>1, <3>2, ConcatRises
    <3> QED
      BY <1>2, <2>2, <3>3
  <2>3. ASSUME NEW i \in 1..n, NEW j \in 1..n, i < j PROVE Above(parts[i], parts[j])
    <3> SUFFICES ASSUME NEW x \in Named(all(i)), NEW y \in Named(all(j)) PROVE x.line < y.line
      <4> HIDE DEF all
      <4> QED
        BY <1>4, <2>3 DEF Above
    <3>1. PICK t \in all(i), u \in all(j) : x.line = t.line /\ y.line = u.line
      <4> HIDE DEF all
      <4> QED
        BY NamedLine
    <3> HIDE DEF all
    <3> QED
      BY <2>1, <2>3, <3>1
  <2> QED
    BY <1>2, <2>2, <2>3, FlattenedRises DEF parts
<1> QED
  BY <1>2, <1>5, <1>6 DEF Gathers, parts

LEMMA CollectTells ==
  ASSUME NEW symbols, IsOutline(symbols)
  PROVE  /\ \E S : Collect(symbols) \in Seq(S)
         /\ ToSet(Collect(symbols)) = Named(Declarations(symbols))
         /\ Ordered(symbols) => Rising(Collect(symbols))
<1> DEFINE S == {Callable(s.name, s.line) : s \in Declarations(symbols)}
           M == MaxNesting
<1>0. M \in Nat
  BY NestingAssumption
<1>1. PICK c : /\ Collect(symbols) = c[symbols]
               /\ \A ss \in Lists(symbols) : c[ss] = FlattenSeq(Parts(c, ss))
  BY CollectIs
<1>2. \A ss \in Lists(symbols) : \A s \in ToSet(ss) : Own(s) \in Seq(S)
  <2> SUFFICES ASSUME NEW ss \in Lists(symbols), NEW s \in ToSet(ss) PROVE Own(s) \in Seq(S)
    OBVIOUS
  <2>1. s \in Declarations(symbols)
    BY Zenon DEF Declarations
  <2>2. Callable(s.name, s.line) \in S
    BY <2>1
  <2> HIDE DEF S
  <2> QED
    BY <2>2 DEF Own
<1> HIDE DEF S
<1> DEFINE T == {n \in Nat : n <= M /\ \E ss \in Nested(symbols)[M - n] :
                               ~Gathers(symbols, c, S, ss)}
<1>3. T = {}
  <2> SUFFICES ASSUME T # {} PROVE FALSE
    OBVIOUS
  <2>1. PICK n \in T : \A i \in Nat : i < n => i \notin T
    <3>1. T \in SUBSET Nat
      OBVIOUS
    <3> HIDE DEF T
    <3> QED
      BY <3>1, LeastElement
  <2>2. n \in Nat /\ n <= M /\ M - n \in 0..M
    BY <1>0, <2>1
  <2>3. PICK ss \in Nested(symbols)[M - n] : ~Gathers(symbols, c, S, ss)
    BY <2>1
  <2>4. /\ ss \in Lists(symbols) /\ (M - n = M => ToSet(ss) = {})
        /\ \A s \in ToSet(ss) : s.children \in Nested(symbols)[M - n + 1]
    BY <2>2, <2>3, OutlineDepth
  <2>5. ASSUME NEW s \in ToSet(ss) PROVE Gathers(symbols, c, S, s.children)
    <3>1. n # 0
      BY <1>0, <2>2, <2>4, <2>5
    <3>2. n - 1 \in Nat /\ n - 1 < n /\ n - 1 <= M /\ M - n + 1 = M - (n - 1)
      BY <1>0, <2>2, <3>1
    <3>3. s.children \in Nested(symbols)[M - (n - 1)]
      BY <2>4, <2>5, <3>2
    <3>4. n - 1 \notin T
      BY <2>1, <3>2
    <3> QED
      BY <3>2, <3>3, <3>4
  <2>6. Gathers(symbols, c, S, ss)
    BY <1>1, <1>2, <2>4, <2>5, GathersFromWithin
  <2> QED
    BY <2>3, <2>6
<1>4. Gathers(symbols, c, S, symbols)
  <2>1. M \notin T /\ M <= M /\ M - M = 0
    BY <1>0, <1>3
  <2>2. symbols \in Nested(symbols)[0]
    BY NestedSteps
  <2> QED
    BY <1>0, <2>1, <2>2
<1> QED
  BY <1>1, <1>4 DEF Gathers

-----------------------------------------------------------------------------
(* A line that fits is not cut down. *)
LEMMA LineFits == \A l \in 0..(Width - 1) : l % Width = l /\ l # NoRange
<1>1. \A w \in Nat \ {0}, l \in Nat : l < w => l % w = l
  OBVIOUS
<1> QED
  BY <1>1, WidthAssumption DEF NoRange

LEMMA TopIsList ==
  ASSUME NEW symbols PROVE symbols \in Lists(symbols)
<1>1. symbols \in Nested(symbols)[0] /\ 0 \in 0..MaxNesting
  BY NestedSteps, NestingAssumption
<1> QED
  BY <1>1, Zenon DEF Lists

(* What parse_workspace_symbols keeps of a whole entry whose line fits. *)
LEMMA MatchIs ==
  ASSUME NEW e, e.name \in Seq(Characters), e.whole, e.line \in 0..(Width - 1)
  PROVE  Match(e) =
           IF e.kind \in CallableKind /\ Scan(NameAs("workspace/symbol", e.name))
           THEN <<Callable(NameAs("workspace/symbol", e.name), e.line)>> ELSE <<>>
<1>1. Undecorate(e.name) = NameAs("workspace/symbol", e.name)
  BY UndecoratedIs
<1>2. Undecorate(e.name) \in Seq(Characters)
  <2>1. Len(e.name) \in Nat
    BY LenProperties
  <2>2. CASE Len(e.name) >= 2
    <3>1. Len(e.name) - 2 \in Nat /\ Len(e.name) - 2 <= Len(e.name)
      BY <2>1, <2>2
    <3>2. SubSeq(e.name, 1, Len(e.name) - 2) \in Seq(Characters)
      BY <3>1, PartType
    <3> QED
      BY <3>2 DEF Undecorate
  <2>3. CASE ~(Len(e.name) >= 2)
    BY <2>3 DEF Undecorate
  <2> QED
    BY <2>2, <2>3
<1>3. IsNamedCallable(Undecorate(e.name), e.kind)
        <=> e.kind \in CallableKind /\ Scan(Undecorate(e.name))
  BY <1>2, NamesAreScanned
<1>4. e.line % Width = e.line /\ e.line # NoRange
  BY LineFits
<1> QED
  BY <1>1, <1>3, <1>4 DEF Match

(* A search for what a server lists is told as it is. *)
LEMMA SearchIsAccurate ==
  ASSUME NEW a, a.call = "workspace/symbol", IsOutline(a.symbols), Faultless(a)
  PROVE  IsAccurate(a, WorkspaceSymbols(a))
<1> DEFINE ss == a.symbols
           n == Len(ss)
           as(e) == NameAs("workspace/symbol", e.name)
           keeps(e) == e.kind \in CallableKind /\ Scan(as(e))
           S == {Callable(as(e), e.line) : e \in ToSet(ss)}
           kept == [i \in 1..n |-> Match(ss[i])]
<1>1. /\ n \in Nat /\ DOMAIN ss = 1..n /\ ToSet(ss) = {ss[i] : i \in 1..n}
      /\ \A i \in 1..n : ss[i] \in ToSet(ss) /\ ss[i].name \in Seq(Characters)
  BY TopIsList, OutlineList
<1>2. Listed(a) = ToSet(ss)
  BY DEF Listed
<1>3. a.says = "list" /\ \A e \in ToSet(ss) : e.whole /\ e.line \in 0..(Width - 1)
  BY <1>2 DEF Faultless
<1>4. WorkspaceSymbols(a) = List(FlattenSeq(kept))
  BY <1>1, <1>3 DEF WorkspaceSymbols, ParseWorkspaceSymbols
<1> HIDE DEF ss, n
<1>5. ASSUME NEW i \in 1..n
      PROVE  /\ kept[i] = IF keeps(ss[i]) THEN <<Callable(as(ss[i]), ss[i].line)>> ELSE <<>>
             /\ kept[i] \in Seq(S) /\ Len(kept[i]) <= 1
             /\ ToSet(kept[i]) = IF keeps(ss[i]) THEN {Callable(as(ss[i]), ss[i].line)} ELSE {}
  <2>1. kept[i] = Match(ss[i])
    BY <1>5
  <2> HIDE DEF kept
  <2>2. kept[i] = IF keeps(ss[i]) THEN <<Callable(as(ss[i]), ss[i].line)>> ELSE <<>>
    BY <1>1, <1>3, <1>5, <2>1, MatchIs
  <2>3. Callable(as(ss[i]), ss[i].line) \in S
    BY <1>1, <1>5
  <2> HIDE DEF S, as, keeps
  <2>4. CASE keeps(ss[i])
    <3> DEFINE x == Callable(as(ss[i]), ss[i].line)
    <3>1. kept[i] = <<x>> /\ x \in S
      BY <2>2, <2>3, <2>4
    <3> HIDE DEF x
    <3>2. kept[i] \in Seq(S) /\ Len(kept[i]) <= 1 /\ ToSet(kept[i]) = {x}
      BY <3>1 DEF ToSet
    <3> QED
      BY <2>2, <2>4, <3>2 DEF x
  <2>5. CASE ~keeps(ss[i])
    <3>1. kept[i] = <<>>
      BY <2>2, <2>5
    <3>2. kept[i] \in Seq(S) /\ Len(kept[i]) <= 1 /\ ToSet(kept[i]) = {}
      BY <3>1 DEF ToSet
    <3> QED
      BY <2>2, <2>5, <3>2
  <2> QED
    BY <2>4, <2>5
<1>6. kept \in [1..n -> Seq(S)]
  BY <1>5
<1> HIDE DEF kept, S
<1>7. /\ FlattenSeq(kept) \in Seq(S)
      /\ ToSet(FlattenSeq(kept)) = UNION {ToSet(kept[i]) : i \in 1..n}
      /\ (\A i, j \in 1..n : i < j => Above(kept[i], kept[j])) => Rising(FlattenSeq(kept))
  BY <1>1, <1>5, <1>6, FilteredMap
<1> DEFINE isTold(x) == \E e \in ToSet(ss) : keeps(e) /\ x = Callable(as(e), e.line)
<1>8. \A x : x \in ToSet(FlattenSeq(kept)) <=> isTold(x)
  <2>1. \A x : x \in ToSet(FlattenSeq(kept)) <=> \E i \in 1..n : x \in ToSet(kept[i])
    BY <1>7
  <2>2. \A x, i : i \in 1..n =>
          (x \in ToSet(kept[i]) <=> keeps(ss[i]) /\ x = Callable(as(ss[i]), ss[i].line))
    <3> HIDE DEF as, keeps
    <3> QED
      BY <1>5
  <2>3. \A e : e \in ToSet(ss) <=> \E i \in 1..n : e = ss[i]
    BY <1>1
  <2> HIDE DEF as, keeps
  <2>4. ASSUME NEW x \in ToSet(FlattenSeq(kept)) PROVE isTold(x)
    <3>1. PICK i \in 1..n : x \in ToSet(kept[i])
      BY <2>1, <2>4
    <3>2. keeps(ss[i]) /\ x = Callable(as(ss[i]), ss[i].line)
      BY <2>2, <3>1, Zenon
    <3>3. ss[i] \in ToSet(ss)
      BY <1>1, <3>1
    <3> QED
      BY <3>2, <3>3, Zenon
  <2>5. ASSUME NEW x, isTold(x) PROVE x \in ToSet(FlattenSeq(kept))
    <3>1. PICK e \in ToSet(ss) : keeps(e) /\ x = Callable(as(e), e.line)
      BY <2>5, Zenon
    <3>2. PICK i \in 1..n : e = ss[i]
      BY <2>3, <3>1
    <3>3. x \in ToSet(kept[i])
      BY <2>2, <3>1, <3>2, Zenon
    <3> QED
      BY <2>1, <3>2, <3>3
  <2> HIDE DEF isTold
  <2> QED
    BY <2>4, <2>5
<1>9. ASSUME Ordered(ss), NEW i \in 1..n, NEW j \in 1..n, i < j PROVE Above(kept[i], kept[j])
  <2>1. ss[i].line < ss[j].line
    BY <1>1, <1>9, TopIsList DEF Ordered
  <2>2. \A x \in ToSet(kept[i]), y \in ToSet(kept[j]) :
          x.line = ss[i].line /\ y.line = ss[j].line
    <3>1. \A x, l : Callable(x, l).line = l
      BY DEF Callable
    <3> HIDE DEF as, keeps
    <3>2. \A k \in 1..n : \A x \in ToSet(kept[k]) : x = Callable(as(ss[k]), ss[k].line)
      BY <1>5
    <3>3. ASSUME NEW k \in 1..n, NEW x \in ToSet(kept[k]) PROVE x.line = ss[k].line
      <4>1. x = Callable(as(ss[k]), ss[k].line)
        BY <3>2, <3>3
      <4> QED
        BY <3>1, <4>1
    <3> QED
      BY <1>9, <3>3
  <2> QED
    BY <2>1, <2>2 DEF Above
<1>10. Ordered(ss) => Rising(FlattenSeq(kept))
  BY <1>7, <1>9
<1> DEFINE r == WorkspaceSymbols(a)
<1>11. r.what = "list" /\ r.list = FlattenSeq(kept)
  BY <1>4 DEF List, Returns
<1>12. ToSet(r.list) =
         {[name |-> NameAs(a.call, s.name), line |-> s.line] : s \in
            {e \in Listed(a) : e.kind \in {"function", "method"} /\ Scan(NameAs(a.call, e.name))}}
  BY <1>2, <1>8, <1>11 DEF Callable, CallableKind
<1>13. Ordered(a.symbols) => Rising(r.list)
  BY <1>10, <1>11 DEF ss
<1> HIDE DEF r
<1>14. IsAccurate(a, r)
  BY <1>11, <1>12, <1>13, Zenon DEF IsAccurate, Rising
<1> QED
  BY <1>14 DEF r

(* So is an outline. *)
LEMMA OutlineIsAccurate ==
  ASSUME NEW a, a.call = "documentSymbol", IsOutline(a.symbols), Faultless(a)
  PROVE  IsAccurate(a, DocumentSymbols(a))
<1> DEFINE r == DocumentSymbols(a)
<1>1. Listed(a) = Declarations(a.symbols)
  BY DEF Listed
<1>2. r = List(Collect(a.symbols))
  BY <1>1 DEF Faultless, DocumentSymbols, Readable
<1>3. r.what = "list" /\ r.list = Collect(a.symbols)
  BY <1>2 DEF List, Returns
<1>4. \A name : NameAs(a.call, name) = name
  BY DEF NameAs
<1> HIDE DEF r
<1>5. ToSet(r.list) =
        {[name |-> NameAs(a.call, s.name), line |-> s.line] : s \in
           {e \in Listed(a) : e.kind \in {"function", "method"} /\ Scan(NameAs(a.call, e.name))}}
  BY <1>1, <1>3, <1>4, CollectTells DEF Named, Callable, CallableKind
<1>6. Ordered(a.symbols) => Rising(r.list)
  BY <1>3, CollectTells
<1>7. IsAccurate(a, r)
  BY <1>3, <1>5, <1>6, Zenon DEF IsAccurate, Rising
<1> QED
  BY <1>7 DEF r

(* Callers and callees are told as they are listed. *)
LEMMA CallsAreOneSided ==
  ASSUME NEW a, IsOutline(a.symbols), Faultless(a),
         NEW r, \/ a.call = "incomingCalls" /\ r = IncomingCalls(a)
                \/ a.call = "outgoingCalls" /\ r = OutgoingCalls(a)
  PROVE  IsOneSided(a, r)
<1> DEFINE ss == a.symbols
           n == Len(ss)
           key == IF a.call = "incomingCalls" THEN "from" ELSE "to"
           items == [i \in 1..n |-> Item(ss[i])]
           S == {Item(e) : e \in ToSet(ss)}
<1>1. /\ n \in Nat /\ DOMAIN ss = 1..n /\ \A i \in 1..n : ss[i] \in ToSet(ss)
  BY TopIsList, OutlineList
<1>2. Listed(a) = ToSet(ss)
  BY DEF Listed
<1>3. a.says = "list" /\ \A e \in ToSet(ss) : Readable(e)
  BY <1>2 DEF Faultless, Readable
<1>4. r = UnwrapCalls(a, key) /\ Side(a) = key
  BY DEF IncomingCalls, OutgoingCalls, Side
<1> HIDE DEF key
<1>5. r = List(FlattenSeq([i \in 1..n |-> Unwrap(ss[i], key)]))
  BY <1>1, <1>3, <1>4 DEF UnwrapCalls
<1> HIDE DEF ss, n
<1>6. ASSUME \A s \in ToSet(ss) : s.under = key PROVE r = List(items)
  <2>1. [i \in 1..n |-> Unwrap(ss[i], key)] = [i \in 1..n |-> <<Item(ss[i])>>]
    BY <1>1, <1>3, <1>6 DEF Unwrap
  <2>2. items \in Seq(S) /\ Len(items) = n /\ \A i \in 1..n : items[i] = Item(ss[i])
    <3>1. \A i \in 1..n : Item(ss[i]) \in S
      BY <1>1
    <3> HIDE DEF S
    <3> QED
      BY <1>1, <3>1
  <2> HIDE DEF items
  <2>3. [i \in 1..n |-> <<Item(ss[i])>>] = [i \in 1..Len(items) |-> <<items[i]>>]
    BY <2>2
  <2>4. FlattenSeq([i \in 1..Len(items) |-> <<items[i]>>]) = items
    BY <2>2, FlattenedSingles
  <2> QED
    BY <1>5, <2>1, <2>3, <2>4
<1>7. items = [i \in DOMAIN a.symbols |-> Callable(a.symbols[i].name, a.symbols[i].line)]
  BY <1>1 DEF Item, ss
<1> QED
  BY <1>4, <1>6, <1>7, Zenon DEF IsOneSided, ss

(* Callers and callees are the entries of that side that can be read.      *)
LEMMA CallsAreLegible ==
  ASSUME NEW a, IsOutline(a.symbols),
         NEW r, \/ a.call = "incomingCalls" /\ r = IncomingCalls(a)
                \/ a.call = "outgoingCalls" /\ r = OutgoingCalls(a)
  PROVE  ToSet(r.list) = {Callable(s.name, s.line) : s \in Legible(a)}
<1> DEFINE ss == a.symbols
           n == Len(ss)
           key == Side(a)
           kept == [i \in 1..n |-> Unwrap(ss[i], key)]
           S == {Item(e) : e \in ToSet(ss)}
           legible(e) == e.under = key /\ Readable(e)
<1>1. /\ n \in Nat /\ DOMAIN ss = 1..n /\ ToSet(ss) = {ss[i] : i \in 1..n}
      /\ \A i \in 1..n : ss[i] \in ToSet(ss)
  BY TopIsList, OutlineList
<1>2. r = UnwrapCalls(a, key)
  BY DEF IncomingCalls, OutgoingCalls, Side
<1> HIDE DEF key
<1>3. CASE a.says # "list"
  <2>1. r = List(<<>>) /\ Legible(a) = {}
    BY <1>2, <1>3 DEF UnwrapCalls, Legible
  <2>2. ToSet(r.list) = {}
    BY <2>1 DEF List, Returns, ToSet
  <2> QED
    BY <2>1, <2>2
<1>4. CASE a.says = "list"
  <2>1. r.list = FlattenSeq(kept)
    BY <1>1, <1>2, <1>4 DEF UnwrapCalls, List, Returns
  <2> HIDE DEF ss, n
  <2>2. ASSUME NEW i \in 1..n
        PROVE  /\ kept[i] \in Seq(S) /\ Len(kept[i]) <= 1
               /\ ToSet(kept[i]) = IF legible(ss[i]) THEN {Item(ss[i])} ELSE {}
    <3>1. Item(ss[i]) \in S
      BY <1>1, <2>2
    <3>2. kept[i] = IF legible(ss[i]) THEN <<Item(ss[i])>> ELSE <<>>
      BY <2>2 DEF Unwrap
    <3> DEFINE x == Item(ss[i])
               k == kept[i]
    <3> HIDE DEF S, kept, x, k
    <3>3. k = <<x>> \/ k = <<>>
      BY <3>2 DEF x, k
    <3>4. x \in S
      BY <3>1 DEF x
    <3>5. k \in Seq(S) /\ Len(k) <= 1
      <4>1. <<>> \in Seq(S) /\ Len(<<>>) <= 1
        OBVIOUS
      <4>2. <<x>> \in Seq(S) /\ Len(<<x>>) <= 1
        BY <3>4
      <4> QED
        BY <3>3, <4>1, <4>2, Zenon
    <3>6. ToSet(<<x>>) = {x} /\ ToSet(<<>>) = {}
      BY DEF ToSet
    <3> HIDE DEF legible
    <3> QED
      BY <3>2, <3>5, <3>6 DEF x, k
  <2>3. kept \in [1..n -> Seq(S)]
    BY <2>2
  <2> HIDE DEF kept, S
  <2>4. ToSet(FlattenSeq(kept)) = UNION {ToSet(kept[i]) : i \in 1..n}
    BY <1>1, <2>2, <2>3, FilteredMap
  <2>5. \A e : e \in Legible(a) <=> e \in ToSet(ss) /\ legible(e)
    BY <1>4 DEF Legible, Readable, ss, key
  <2> HIDE DEF legible
  <2>6. UNION {ToSet(kept[i]) : i \in 1..n} = {Item(e) : e \in Legible(a)}
    <3>1. \A x, i : i \in 1..n =>
            (x \in ToSet(kept[i]) <=> legible(ss[i]) /\ x = Item(ss[i]))
      BY <2>2
    <3>2. \A e : e \in ToSet(ss) <=> \E i \in 1..n : e = ss[i]
      BY <1>1
    <3>3. ASSUME NEW i \in 1..n, NEW x \in ToSet(kept[i])
          PROVE  \E e \in Legible(a) : x = Item(e)
      <4>1. ss[i] \in Legible(a) /\ x = Item(ss[i])
        BY <1>1, <2>5, <3>1, <3>3
      <4> QED
        BY <4>1
    <3>4. ASSUME NEW e \in Legible(a)
          PROVE  \E i \in 1..n : Item(e) \in ToSet(kept[i])
      <4>1. e \in ToSet(ss) /\ legible(e)
        BY <2>5, <3>4
      <4>2. PICK i \in 1..n : e = ss[i]
        BY <3>2, <4>1
      <4>3. Item(e) \in ToSet(kept[i])
        BY <3>1, <4>1, <4>2
      <4> QED
        BY <4>3
    <3> QED
      BY <3>3, <3>4
  <2> QED
    BY <2>1, <2>4, <2>6 DEF Item
<1> QED
  BY <1>3, <1>4

(* An error of the server, and a prepared item that serde_json cannot      *)
(* read, reach the caller as errors, never as "no call hierarchy here";    *)
(* nothing else does, and of callers and callees what can be read is told. *)
THEOREM FailureIsToldAsOne == Spec => []FailedOrRead
<1>1. Inv /\ ToldInTurn => FailedOrRead
  <2> SUFFICES ASSUME Inv, ToldInTurn, NEW i \in DOMAIN told, i <= Len(Asked(frames))
               PROVE  /\ told[i].what # "list" <=> Failed(Asked(frames)[i])
                      /\ /\ Asked(frames)[i].call \in {"incomingCalls", "outgoingCalls"}
                         /\ ~Failed(Asked(frames)[i])
                         => ToSet(told[i].list)
                              = {Callable(s.name, s.line) : s \in Legible(Asked(frames)[i])}
    BY Zenon DEF FailedOrRead
  <2> DEFINE a == Asked(frames)[i]
  <2>1. told[i] = AnswerOf(a) /\ a.call \in Call /\ IsOutline(a.symbols)
    BY ToldIsAnswerOf
  <2> HIDE DEF a
  <2>2. told[i].what # "list" <=> Failed(a)
    BY <2>1, FailureIsTold
  <2>3. ASSUME a.call \in {"incomingCalls", "outgoingCalls"}, ~Failed(a)
        PROVE  ToSet(told[i].list) = {Callable(s.name, s.line) : s \in Legible(a)}
    <3>1. \/ a.call = "incomingCalls" /\ told[i] = IncomingCalls(a)
          \/ a.call = "outgoingCalls" /\ told[i] = OutgoingCalls(a)
      BY <2>1, <2>3 DEF AnswerOf, Failed
    <3> QED
      BY <2>1, <3>1, CallsAreLegible
  <2> QED
    BY <2>2, <2>3 DEF a
<1> QED
  BY <1>1, Invariance, AnswersInTurn, PTL

(* The functions and methods of an outline or of a search, and the callers *)
(* and callees of an item, reach who asked as the server listed them: each *)
(* at its line, in the order of the document, none left out or added.      *)
THEOREM ListsAreTold == Spec => []ToldWhatIsListed
<1>1. Inv /\ ToldInTurn => ToldWhatIsListed
  <2> SUFFICES ASSUME Inv, ToldInTurn, NEW i \in DOMAIN told,
                      i <= Len(Asked(frames)), Faultless(Asked(frames)[i])
               PROVE  CASE Asked(frames)[i].call \in {"documentSymbol", "workspace/symbol"}
                             -> IsAccurate(Asked(frames)[i], told[i])
                        [] Asked(frames)[i].call \in {"incomingCalls", "outgoingCalls"}
                             -> IsOneSided(Asked(frames)[i], told[i])
                        [] OTHER -> TRUE
    BY Zenon DEF ToldWhatIsListed
  <2> DEFINE a == Asked(frames)[i]
  <2>1. told[i] = AnswerOf(a) /\ IsOutline(a.symbols)
    BY ToldIsAnswerOf
  <2>2. a.says = "list" /\ Faultless(a)
    BY DEF Faultless
  <2> HIDE DEF a
  <2>3. a.says # "modified" /\ a.says # "error"
    BY <2>2
  <2>4. CASE a.call = "documentSymbol"
    <3>1. told[i] = DocumentSymbols(a)
      BY <2>1, <2>3, <2>4 DEF AnswerOf
    <3>2. IsAccurate(a, told[i])
      BY <2>1, <2>2, <2>4, <3>1, OutlineIsAccurate
    <3> QED
      BY <2>4, <3>2 DEF a
  <2>5. CASE a.call = "workspace/symbol"
    <3>1. told[i] = WorkspaceSymbols(a)
      BY <2>1, <2>3, <2>5 DEF AnswerOf
    <3>2. IsAccurate(a, told[i])
      BY <2>1, <2>2, <2>5, <3>1, SearchIsAccurate
    <3> QED
      BY <2>5, <3>2 DEF a
  <2>6. CASE a.call = "incomingCalls"
    <3>1. told[i] = IncomingCalls(a)
      BY <2>1, <2>3, <2>6 DEF AnswerOf
    <3>2. IsOneSided(a, told[i])
      BY <2>1, <2>2, <2>6, <3>1, CallsAreOneSided
    <3> QED
      BY <2>6, <3>2 DEF a
  <2>7. CASE a.call = "outgoingCalls"
    <3>1. told[i] = OutgoingCalls(a)
      BY <2>1, <2>3, <2>7 DEF AnswerOf
    <3>2. IsOneSided(a, told[i])
      BY <2>1, <2>2, <2>7, <3>1, CallsAreOneSided
    <3> QED
      BY <2>7, <3>2 DEF a
  <2> QED
    BY <2>4, <2>5, <2>6, <2>7 DEF a
<1> QED
  BY <1>1, Invariance, AnswersInTurn, PTL
=============================================================================
