-------------------------- MODULE ReadLoopProofs --------------------------
(***************************************************************************)
(* The decoder on a part of a stream and on a proper frame; then the read  *)
(* loop, which takes a stream the same way however it is chunked, and      *)
(* answers to the proper frames in it.                                     *)
(***************************************************************************)
EXTENDS ReadLoop, SequenceLemmas

LEMMA BlankLine == /\ EndOfHeader = <<Cr, Lf, Cr, Lf>> /\ Len(EndOfHeader) = 4
                   /\ CrLf = <<Cr, Lf>> /\ Len(CrLf) = 2
<1> DEFINE S == {Cr, Lf}
<1>1. <<Cr, Lf>> \in Seq(S) /\ <<Cr, Lf, Cr, Lf>> \in Seq(S)
  OBVIOUS
<1>2. /\ CrLf \in Seq(S) /\ Len(CrLf) = 2 /\ CrLf[1] = Cr /\ CrLf[2] = Lf
      /\ CrLf = <<Cr, Lf>>
  BY <1>1 DEF CrLf
<1>3. /\ EndOfHeader \in Seq(S) /\ Len(EndOfHeader) = 4
      /\ EndOfHeader[1] = Cr /\ EndOfHeader[2] = Lf
      /\ EndOfHeader[3] = Cr /\ EndOfHeader[4] = Lf
  BY <1>2, ConcatProperties DEF EndOfHeader
<1>4. EndOfHeader = <<Cr, Lf, Cr, Lf>>
  BY <1>1, <1>3, SeqEqual
<1> QED
  BY <1>2, <1>3, <1>4

(* Where a blank line was found, it is found with more behind it, and no   *)
(* other ends where what was there ends.                                   *)
LEMMA PlacesOfPrefix ==
  ASSUME NEW S, NEW s \in Seq(S), NEW t \in Seq(S)
  PROVE  /\ Places(s, EndOfHeader) \in SUBSET Nat
         /\ \A i \in Nat : i \in Places(s, EndOfHeader) <=>
                             i \in Places(s \o t, EndOfHeader) /\ i + 3 <= Len(s)
<1>0. Len(s) \in Nat /\ Len(t) \in Nat /\ Len(s \o t) = Len(s) + Len(t)
  BY LenProperties, ConcatProperties
<1>1. ASSUME NEW i \in Nat, i >= 1, i + 3 <= Len(s)
      PROVE  SubSeq(s \o t, i, i + 4 - 1) = SubSeq(s, i, i + 4 - 1)
  BY <1>0, <1>1, PartOfPrefix
<1>2. Places(s, EndOfHeader) =
        {i \in 1..(Len(s) - 3) : SubSeq(s, i, i + 4 - 1) = EndOfHeader}
  BY <1>0, BlankLine DEF Places
<1>3. Places(s \o t, EndOfHeader) =
        {i \in 1..(Len(s) + Len(t) - 3) : SubSeq(s \o t, i, i + 4 - 1) = EndOfHeader}
  BY <1>0, BlankLine DEF Places
<1> QED
  BY <1>0, <1>1, <1>2, <1>3

LEMMA FirstBlankLine ==
  ASSUME NEW S, NEW s \in Seq(S), NEW t \in Seq(S), Places(s, EndOfHeader) # {}
  PROVE  /\ HeaderEnd(Places(s, EndOfHeader)) \in Nat
         /\ HeaderEnd(Places(s, EndOfHeader)) >= 1
         /\ HeaderEnd(Places(s, EndOfHeader)) + 3 <= Len(s)
         /\ Places(s \o t, EndOfHeader) # {}
         /\ HeaderEnd(Places(s \o t, EndOfHeader)) = HeaderEnd(Places(s, EndOfHeader))
<1> DEFINE e == Min(Places(s, EndOfHeader))
<1>0. Len(s) \in Nat
  BY LenProperties
<1>1. e \in Places(s, EndOfHeader) /\ e \in Nat /\ \A k \in Places(s, EndOfHeader) : e <= k
  BY PlacesOfPrefix, MinIsLeast
<1>2. e >= 1
  BY <1>0, <1>1, BlankLine DEF Places
<1> HIDE DEF e
<1>3. e \in Places(s \o t, EndOfHeader) /\ e + 3 <= Len(s)
  BY <1>1, PlacesOfPrefix
<1>4. Places(s \o t, EndOfHeader) \in SUBSET Nat
  BY PlacesOfPrefix, ConcatProperties, ConcatEmptySeq, EmptySeq
<1>5. ASSUME NEW k \in Places(s \o t, EndOfHeader) PROVE e <= k
  <2>1. CASE k + 3 <= Len(s)
    BY <1>1, <1>4, <2>1, PlacesOfPrefix
  <2>2. CASE ~(k + 3 <= Len(s))
    BY <1>0, <1>1, <1>3, <1>4, <2>2
  <2> QED
    BY <2>1, <2>2
<1>6. Min(Places(s \o t, EndOfHeader)) = e
  BY <1>3, <1>4, <1>5, MinIs
<1> QED
  BY <1>1, <1>2, <1>3, <1>6 DEF e, HeaderEnd

----------------------------------------------------------------------------
(* The bytes before the body and the header in them, and the header's flaws. *)
StartOf(b)  == HeaderEnd(Places(b, EndOfHeader)) + 3
HeaderOf(b) == SubSeq(b, 1, StartOf(b) - 4)
LengthOf(b) == Declared(Lines(HeaderOf(b)))
Flawed(b) ==
  \/ NotUtf8 \in ToSet(HeaderOf(b))
  \/ \E i \in DOMAIN Lines(HeaderOf(b)) : ColonMissing(Lines(HeaderOf(b))[i])
  \/ LengthOf(b) \notin 0..MaxUsize

Decoded(what, body, rest) == [what |-> what, body |-> body, rest |-> rest]

LEMMA Fields ==
  \A what, body, rest : /\ Decoded(what, body, rest).what = what
                        /\ Decoded(what, body, rest).body = body
                        /\ Decoded(what, body, rest).rest = rest
BY DEF Decoded

(* next_message, case by case. *)
LEMMA DecodeCases ==
  ASSUME NEW b
  PROVE  Decode(b) =
           IF Places(b, EndOfHeader) = {} THEN Decoded("more", <<>>, b)
           ELSE IF Flawed(b) THEN Decoded("error", <<>>, Drained(b, StartOf(b)))
           ELSE IF StartOf(b) + LengthOf(b) > MaxUsize THEN Decoded("panic", <<>>, b)
           ELSE IF Len(b) < StartOf(b) + LengthOf(b) THEN Decoded("more", <<>>, b)
           ELSE Decoded("message", SubSeq(b, StartOf(b) + 1, StartOf(b) + LengthOf(b)),
                        Drained(b, StartOf(b) + LengthOf(b)))
BY Zenon DEF Decode, Decoded, Flawed, LengthOf, HeaderOf, StartOf

(* With more behind it a header is the same header. *)
LEMMA HeaderOfPrefix ==
  ASSUME NEW S, NEW s \in Seq(S), NEW t \in Seq(S), Places(s, EndOfHeader) # {}
  PROVE  /\ StartOf(s) \in Nat /\ StartOf(s) >= 4 /\ StartOf(s) <= Len(s)
         /\ Places(s \o t, EndOfHeader) # {}
         /\ StartOf(s \o t) = StartOf(s)
         /\ LengthOf(s \o t) = LengthOf(s)
         /\ Flawed(s \o t) = Flawed(s)
<1>1. /\ StartOf(s) \in Nat /\ StartOf(s) >= 4 /\ StartOf(s) <= Len(s)
      /\ Places(s \o t, EndOfHeader) # {} /\ StartOf(s \o t) = StartOf(s)
  BY FirstBlankLine DEF StartOf
<1>2. HeaderOf(s \o t) = HeaderOf(s)
  <2>1. StartOf(s) - 4 \in Nat /\ StartOf(s) - 4 <= Len(s)
    BY <1>1, LenProperties
  <2>2. SubSeq(s \o t, 1, StartOf(s) - 4) = SubSeq(s, 1, StartOf(s) - 4)
    BY <2>1, PartOfPrefix
  <2> QED
    BY <1>1, <2>2 DEF HeaderOf
<1>3. LengthOf(s \o t) = LengthOf(s) /\ Flawed(s \o t) = Flawed(s)
  BY <1>2, Zenon DEF LengthOf, Flawed
<1> QED
  BY <1>1, <1>3

(* A message is taken off the front; without a decision nothing is. *)
OffTheFront(S, s, d) ==
  /\ d.what \in {"more", "error", "panic", "message"}
  /\ d.body \in Seq(S) /\ d.rest \in Seq(S)
  /\ Len(d.rest) <= Len(s)
  /\ d.what = "message" => Len(d.rest) < Len(s)
  /\ d.what \in {"more", "panic"} => d.rest = s
  /\ \E z \in Seq(S) : s = z \o d.rest

LEMMA DecodeType ==
  ASSUME NEW S, NEW s \in Seq(S)
  PROVE  OffTheFront(S, s, Decode(s))
<1> DEFINE b == StartOf(s)
           n == LengthOf(s)
<1>0. Len(s) \in Nat /\ <<>> \in Seq(S)
  BY LenProperties, EmptySeq
<1>1. ASSUME NEW d, d.what \in {"more", "panic"}, d.body = <<>>, d.rest = s
      PROVE  OffTheFront(S, s, d)
  <2>1. s = <<>> \o s
    BY ConcatEmptySeq
  <2>2. \E z \in Seq(S) : s = z \o s
    BY <1>0, <2>1
  <2> QED
    BY <1>0, <1>1, <2>2 DEF OffTheFront
<1>2. ASSUME NEW d, NEW k \in Nat, k >= 1, k <= Len(s),
             d.what \in {"error", "message"}, d.body \in Seq(S), d.rest = Drained(s, k)
      PROVE  OffTheFront(S, s, d)
  <2>1. Drained(s, k) \in Seq(S) /\ Len(Drained(s, k)) < Len(s)
    BY <1>0, <1>2, PartType DEF Drained
  <2>2. SubSeq(s, 1, k) \in Seq(S)
    BY <1>0, <1>2, PartType
  <2>3. s = SubSeq(s, 1, k) \o Drained(s, k)
    BY <1>0, <1>2, ConcatAdjacentSubSeq, SubSeqFull DEF Drained
  <2>4. Len(Drained(s, k)) <= Len(s)
    BY <1>0, <2>1, LenProperties
  <2>5. \E z \in Seq(S) : s = z \o Drained(s, k)
    BY <2>2, <2>3
  <2> QED
    BY <1>2, <2>1, <2>4, <2>5 DEF OffTheFront
<1>3. CASE Places(s, EndOfHeader) = {}
  BY <1>1, <1>3, DecodeCases, Fields
<1>4. CASE Places(s, EndOfHeader) # {}
  <2>1. b \in Nat /\ b >= 4 /\ b <= Len(s)
    BY <1>4, HeaderOfPrefix, <1>0
  <2>2. CASE Flawed(s)
    <3>1. b >= 1
      BY <2>1
    <3>2. Decode(s) = Decoded("error", <<>>, Drained(s, b))
      BY <1>4, <2>2, DecodeCases
    <3> HIDE DEF b
    <3> QED
      <4>1. /\ Decode(s).what = "error" /\ Decode(s).rest = Drained(s, b)
            /\ Decode(s).body \in Seq(S)
        BY <1>0, <3>2 DEF Decoded
      <4> QED
        BY <1>2, <2>1, <3>1, <4>1
  <2>3. CASE ~Flawed(s) /\ (b + n > MaxUsize \/ Len(s) < b + n)
    BY <1>1, <1>4, <2>3, DecodeCases, Fields
  <2>4. CASE ~Flawed(s) /\ ~(b + n > MaxUsize) /\ ~(Len(s) < b + n)
    <3>1. n \in Nat
      BY <2>4, MaxUsizeAssumption DEF Flawed
    <3>2. b + n \in Nat /\ b + n >= 1 /\ b + n <= Len(s)
      BY <1>0, <2>1, <2>4, <3>1
    <3>3. SubSeq(s, b + 1, b + n) \in Seq(S)
      BY <2>1, <3>2, PartType
    <3>4. Decode(s) = Decoded("message", SubSeq(s, b + 1, b + n), Drained(s, b + n))
      BY <1>4, <2>4, DecodeCases
    <3> HIDE DEF b, n
    <3> QED
      <4>1. /\ Decode(s).what = "message" /\ Decode(s).rest = Drained(s, b + n)
            /\ Decode(s).body \in Seq(S)
        BY <3>3, <3>4 DEF Decoded
      <4> QED
        BY <1>2, <3>2, <4>1
  <2> QED
    BY <2>2, <2>3, <2>4
<1> QED
  BY <1>3, <1>4

(* A decision of next_message stands: with more bytes behind those it has  *)
(* decided on, it gives the same and leaves what it left and the rest.     *)
(* This is what makes Decoder::push in chunks of any size harmless.        *)
THEOREM DecisionStands ==
  ASSUME NEW S, NEW s \in Seq(S), NEW t \in Seq(S), Decode(s).what # "more"
  PROVE  /\ Decode(s \o t).what = Decode(s).what
         /\ Decode(s \o t).body = Decode(s).body
         /\ Decode(s \o t).rest = Decode(s).rest \o t
<1> DEFINE b == StartOf(s)
           n == LengthOf(s)
<1>0. /\ Len(s) \in Nat /\ Len(t) \in Nat /\ s \o t \in Seq(S) /\ Len(s \o t) = Len(s) + Len(t)
  BY LenProperties, ConcatProperties
<1>1. Places(s, EndOfHeader) # {}
  BY DecodeCases DEF Decoded
<1>2. /\ b \in Nat /\ b >= 4 /\ b <= Len(s)
      /\ Places(s \o t, EndOfHeader) # {}
      /\ StartOf(s \o t) = b /\ LengthOf(s \o t) = n /\ Flawed(s \o t) = Flawed(s)
  BY <1>1, HeaderOfPrefix
<1>3. ~Flawed(s) => n \in Nat /\ n <= MaxUsize
  BY MaxUsizeAssumption DEF Flawed
<1> HIDE DEF b, n
<1>4. CASE Flawed(s)
  <2>1. Drained(s \o t, b) = Drained(s, b) \o t
    BY <1>2, RestOfConcat DEF Drained
  <2>2. Decode(s) = Decoded("error", <<>>, Drained(s, b))
    BY <1>1, <1>4, DecodeCases DEF b
  <2>3. Decode(s \o t) = Decoded("error", <<>>, Drained(s \o t, b))
    BY <1>2, <1>4, DecodeCases
  <2> QED
    BY <2>1, <2>2, <2>3 DEF Decoded
<1>5. CASE ~Flawed(s) /\ b + n > MaxUsize
  <2>1. Decode(s) = Decoded("panic", <<>>, s)
    BY <1>1, <1>5, DecodeCases DEF b, n
  <2>2. Decode(s \o t) = Decoded("panic", <<>>, s \o t)
    BY <1>2, <1>5, DecodeCases
  <2> QED
    BY <2>1, <2>2 DEF Decoded
<1>6. CASE ~Flawed(s) /\ ~(b + n > MaxUsize) /\ Len(s) < b + n
  BY <1>1, <1>6, DecodeCases DEF b, n, Decoded
<1>7. CASE ~Flawed(s) /\ ~(b + n > MaxUsize) /\ ~(Len(s) < b + n)
  <2>1. b + n \in Nat /\ b + n <= Len(s) /\ ~(Len(s \o t) < b + n)
    BY <1>0, <1>2, <1>3, <1>7
  <2>2. Drained(s \o t, b + n) = Drained(s, b + n) \o t
    BY <2>1, RestOfConcat DEF Drained
  <2>3. SubSeq(s \o t, b + 1, b + n) = SubSeq(s, b + 1, b + n)
    BY <1>2, <2>1, PartOfPrefix
  <2>4. Decode(s) = Decoded("message", SubSeq(s, b + 1, b + n), Drained(s, b + n))
    BY <1>1, <1>7, DecodeCases DEF b, n
  <2>5. Decode(s \o t) =
          Decoded("message", SubSeq(s \o t, b + 1, b + n), Drained(s \o t, b + n))
    BY <1>2, <1>7, <2>1, DecodeCases
  <2> QED
    <3>1. /\ Decode(s).what = "message" /\ Decode(s).rest = Drained(s, b + n)
          /\ Decode(s).body = SubSeq(s, b + 1, b + n)
      BY <1>0, <1>2, <1>3, <1>7, <2>4 DEF Decoded
    <3>2. /\ Decode(s \o t).what = "message" /\ Decode(s \o t).rest = Drained(s \o t, b + n)
          /\ Decode(s \o t).body = SubSeq(s \o t, b + 1, b + n)
      BY <1>0, <1>2, <1>3, <1>7, <2>5 DEF Decoded
    <3> QED
      BY <2>2, <2>3, <3>1, <3>2
<1> QED
  BY <1>4, <1>5, <1>6, <1>7

----------------------------------------------------------------------------
(* A header line that is a Content-Length, and one that is another. *)
LEMMA LengthLine ==
  ASSUME NEW n \in Nat
  PROVE  /\ ~ColonMissing(<<ContentLength(n)>>)
         /\ SetsLength(<<ContentLength(n)>>) /\ LengthOn(<<ContentLength(n)>>) = n
<1> DEFINE line == <<ContentLength(n)>>
<1>1. /\ ContentLength(n).is = "length" /\ ContentLength(n).n = n
      /\ ContentLength(n) \notin {Cr, Lf}
  BY DEF ContentLength, Cr, Lf
<1>2. DOMAIN line = {1} /\ line[1] = ContentLength(n) /\ line # <<>>
  OBVIOUS
<1> HIDE DEF line
<1>3. Text(line) = {1}
  BY <1>1, <1>2 DEF Text
<1>4. Min(Text(line)) = 1
  BY <1>3, MinIs
<1>5. Start(line) = ContentLength(n)
  BY <1>2, <1>4 DEF Start
<1> QED
  BY <1>1, <1>2, <1>3, <1>4, <1>5 DEF ColonMissing, SetsLength, LengthOn, line

LEMMA OtherLine == ~ColonMissing(<<Header>>) /\ ~SetsLength(<<Header>>)
<1> DEFINE line == <<Header>>
<1>1. Header.is = "header" /\ Header \notin {Cr, Lf}
  BY DEF Header, Cr, Lf
<1>2. DOMAIN line = {1} /\ line[1] = Header
  OBVIOUS
<1> HIDE DEF line
<1>3. Text(line) = {1}
  BY <1>1, <1>2 DEF Text
<1>4. Start(line) = Header
  BY <1>2, <1>3, MinIs DEF Start
<1> QED
  BY <1>1, <1>2, <1>4 DEF ColonMissing, SetsLength, line

(* The header of encode() alone, and with another line before it. *)
LEMMA PlainHeader ==
  ASSUME NEW n \in Nat, n <= MaxUsize
  PROVE  LET h == <<ContentLength(n)>> IN
         /\ Declared(Lines(h)) = n
         /\ \A i \in DOMAIN Lines(h) : ~ColonMissing(Lines(h)[i])
         /\ NotUtf8 \notin ToSet(h)
<1> DEFINE h == <<ContentLength(n)>>
<1>1. Len(h) = 1 /\ h \in Seq({ContentLength(n)})
  OBVIOUS
<1>2. Places(h, CrLf) = {}
  BY <1>1, BlankLine DEF Places
<1>3. Lines(h) = [i \in {1} |-> SubSeq(h, i, Min({Len(h) + 1}) - 1)]
  BY <1>2 DEF Lines
<1>4. Min({Len(h) + 1}) = 2
  BY <1>1, MinIs
<1>5. SubSeq(h, 1, 1) = h
  BY <1>1, SubSeqFull
<1>6. DOMAIN Lines(h) = {1} /\ Lines(h)[1] = h
  BY <1>3, <1>4, <1>5
<1>7. ContentLength(n) # NotUtf8 /\ ToSet(h) = {ContentLength(n)}
  BY DEF ContentLength, NotUtf8, ToSet
<1> HIDE DEF h
<1>8. Max({1}) = 1
  BY DEF Max
<1>9. ~ColonMissing(h) /\ SetsLength(h) /\ LengthOn(h) = n
  BY LengthLine DEF h
<1>10. {i \in DOMAIN Lines(h) : SetsLength(Lines(h)[i])} = {1}
  BY <1>6, <1>9
<1>11. Declared(Lines(h)) = n
  BY <1>6, <1>8, <1>9, <1>10 DEF Declared
<1> QED
  BY <1>6, <1>7, <1>9, <1>11 DEF h

LEMMA TwoLineHeader ==
  ASSUME NEW n \in Nat, n <= MaxUsize
  PROVE  LET h == <<Header, Cr, Lf, ContentLength(n)>> IN
         /\ Declared(Lines(h)) = n
         /\ \A i \in DOMAIN Lines(h) : ~ColonMissing(Lines(h)[i])
         /\ NotUtf8 \notin ToSet(h)
<1> DEFINE h == <<Header, Cr, Lf, ContentLength(n)>>
           S == {Header, Cr, Lf, ContentLength(n)}
<1>1. /\ Len(h) = 4 /\ h \in Seq(S)
      /\ h[1] = Header /\ h[2] = Cr /\ h[3] = Lf /\ h[4] = ContentLength(n)
  OBVIOUS
<1>0. Header # Cr /\ Lf # Cr /\ NotUtf8 \notin S
  BY DEF Header, Cr, Lf, NotUtf8, ContentLength
<1> HIDE DEF h, S
<1>2. \A i \in 1..3 : /\ SubSeq(h, i, i + 1) \in Seq(S) /\ Len(SubSeq(h, i, i + 1)) = 2
                      /\ SubSeq(h, i, i + 1)[1] = h[i] /\ SubSeq(h, i, i + 1)[2] = h[i + 1]
  <2> TAKE i \in 1..3
  <2>1. i \in Nat /\ i >= 1 /\ i + 1 \in Nat /\ i + 1 <= Len(h) /\ i <= i + 1 /\ i + 1 - i + 1 = 2
    BY <1>1
  <2>2. /\ SubSeq(h, i, i + 1) \in Seq(S) /\ Len(SubSeq(h, i, i + 1)) = 2
        /\ \A k \in 1..2 : SubSeq(h, i, i + 1)[k] = h[i + k - 1]
    <3>1. SubSeq(h, i, i + 1) \in Seq(S)
      BY <1>1, <2>1, PartType
    <3>2. Len(SubSeq(h, i, i + 1)) = 2
      BY <1>1, <2>1, PartType
    <3>3. \A k \in 1..(i + 1 - i + 1) : SubSeq(h, i, i + 1)[k] = h[i + k - 1]
      BY <1>1, <2>1, PartType
    <3> QED
      BY <2>1, <3>1, <3>2, <3>3
  <2> QED
    BY <2>1, <2>2
<1>3. Places(h, CrLf) = {2}
  <2>1. CrLf \in Seq(S) /\ CrLf[1] = Cr /\ CrLf[2] = Lf /\ Len(CrLf) = 2
    BY BlankLine DEF S
  <2>2. SubSeq(h, 2, 3) = CrLf
    BY <1>1, <1>2, <2>1, SeqEqual
  <2>3. SubSeq(h, 1, 2) # CrLf /\ SubSeq(h, 3, 4) # CrLf
    BY <1>0, <1>1, <1>2, <2>1
  <2>4. Places(h, CrLf) = {i \in 1..3 : SubSeq(h, i, i + 1) = CrLf}
    BY <1>1, <2>1 DEF Places
  <2>5. 1..3 = {1, 2, 3}
    OBVIOUS
  <2> QED
    BY <2>2, <2>3, <2>4, <2>5
<1> DEFINE to(i) == Min({b \in {2} : b >= i} \cup {5}) - 1
<1>4. Lines(h) = [i \in {1, 4} |-> SubSeq(h, i, to(i))]
  <2>1. {1} \cup {b + 2 : b \in {2}} = {1, 4} /\ Len(h) + 1 = 5
    BY <1>1
  <2> QED
    BY <1>3, <2>1 DEF Lines
<1>5. to(1) = 1 /\ to(4) = 4
  <2>1. {b \in {2} : b >= 1} \cup {5} = {2, 5} /\ {b \in {2} : b >= 4} \cup {5} = {5}
    OBVIOUS
  <2>2. Min({2, 5}) = 2 /\ Min({5}) = 5
    BY MinIs
  <2> QED
    BY <2>1, <2>2
<1> HIDE DEF to
<1>6. /\ DOMAIN Lines(h) = {1, 4} /\ Lines(h)[1] = SubSeq(h, 1, 1)
      /\ Lines(h)[4] = SubSeq(h, 4, 4)
  BY <1>4, <1>5
<1>7. SubSeq(h, 1, 1) = <<Header>> /\ SubSeq(h, 4, 4) = <<ContentLength(n)>>
  <2>1. <<Header>> \in Seq(S) /\ <<ContentLength(n)>> \in Seq(S)
    BY DEF S
  <2> DEFINE first == <<Header>>
             last  == <<ContentLength(n)>>
  <2>2. /\ Len(first) = 1 - 1 + 1 /\ \A i \in 1..Len(first) : first[i] = h[1 + i - 1]
        /\ Len(last) = 4 - 4 + 1 /\ \A i \in 1..Len(last) : last[i] = h[4 + i - 1]
        /\ 1 \in Nat /\ 4 \in Nat /\ 1 >= 1 /\ 4 >= 1 /\ 1 <= Len(h) /\ 4 <= Len(h)
    BY <1>1
  <2>3. first \in Seq(S) /\ last \in Seq(S)
    BY <2>1
  <2> HIDE DEF first, last
  <2>4. SubSeq(h, 1, 1) = first
    BY <1>1, <2>2, <2>3, PartIs, Zenon
  <2>5. SubSeq(h, 4, 4) = last
    BY <1>1, <2>2, <2>3, PartIs, Zenon
  <2> QED
    BY <2>4, <2>5 DEF first, last
<1>8. Max({4}) = 4
  BY DEF Max
<1>9. {i \in DOMAIN Lines(h) : SetsLength(Lines(h)[i])} = {4}
  BY <1>6, <1>7, LengthLine, OtherLine
<1>10. Declared(Lines(h)) = n
  BY <1>6, <1>7, <1>8, <1>9, LengthLine DEF Declared
<1>11. \A i \in DOMAIN Lines(h) : ~ColonMissing(Lines(h)[i])
  BY <1>6, <1>7, LengthLine, OtherLine
<1>12. NotUtf8 \notin ToSet(h)
  BY <1>0, <1>1, ElementOfSeq, LenProperties DEF ToSet
<1> QED
  BY <1>10, <1>11, <1>12 DEF h

LEMMA FirstAndThird ==
  ASSUME NEW S, NEW s \in Seq(S), NEW i \in Nat, i >= 1, i + 3 <= Len(s)
  PROVE  SubSeq(s, i, i + 3)[1] = s[i] /\ SubSeq(s, i, i + 3)[3] = s[i + 2]
<1>1. \A j \in 1..(i + 3 - i + 1) : SubSeq(s, i, i + 3)[j] = s[i + j - 1]
  BY PartType
<1>2. 1 \in 1..(i + 3 - i + 1) /\ 3 \in 1..(i + 3 - i + 1) /\ i + 1 - 1 = i /\ i + 3 - 1 = i + 2
  OBVIOUS
<1> QED
  BY <1>1, <1>2

(* Where the header of a frame ends, for a text without line breaks of its *)
(* own but in its middle.                                                  *)
LEMMA HeaderEnds ==
  ASSUME NEW S, NEW s \in Seq(S), NEW k \in Nat, k >= 1, Len(s) = k + 4,
         SubSeq(s, k + 1, k + 4) = EndOfHeader,
         \A i \in 1..k : s[i] # Cr \/ s[i + 2] # Cr
  PROVE  /\ Places(s, EndOfHeader) # {} /\ StartOf(s) = k + 4
         /\ HeaderOf(s) = SubSeq(s, 1, k)
<1>1. Places(s, EndOfHeader) = {i \in 1..(k + 1) : SubSeq(s, i, i + 3) = EndOfHeader}
  BY BlankLine DEF Places
<1>2. ASSUME NEW i \in 1..k PROVE SubSeq(s, i, i + 3) # EndOfHeader
  <2>1. i \in Nat /\ i >= 1 /\ i + 3 \in Nat /\ i + 3 <= Len(s) /\ i + 3 - i + 1 = 4
    OBVIOUS
  <2>3. SubSeq(s, i, i + 3)[1] = s[i] /\ SubSeq(s, i, i + 3)[3] = s[i + 2]
    BY <2>1, FirstAndThird
  <2>4. EndOfHeader[1] = Cr /\ EndOfHeader[3] = Cr
    BY BlankLine
  <2>5. s[i] # Cr \/ s[i + 2] # Cr
    OBVIOUS
  <2>6. ASSUME SubSeq(s, i, i + 3) = EndOfHeader PROVE s[i] = Cr /\ s[i + 2] = Cr
    BY <2>3, <2>4, <2>6
  <2> QED
    BY <2>5, <2>6
<1>3. Places(s, EndOfHeader) = {k + 1}
  <2>1. SubSeq(s, k + 1, k + 1 + 3) = EndOfHeader
    OBVIOUS
  <2>2. \A i \in 1..(k + 1) : i \in 1..k \/ i = k + 1
    OBVIOUS
  <2>3. k + 1 \in 1..(k + 1)
    OBVIOUS
  <2>4. \A i : i \in Places(s, EndOfHeader) <=>
                i \in 1..(k + 1) /\ SubSeq(s, i, i + 3) = EndOfHeader
    BY <1>1, Zenon
  <2> QED
    BY <1>2, <2>1, <2>2, <2>3, <2>4, Zenon
<1>4. HeaderEnd(Places(s, EndOfHeader)) = k + 1
  <2>1. k + 1 \in Nat /\ \A i \in {k + 1} : k + 1 <= i
    OBVIOUS
  <2> QED
    BY <1>3, <2>1, MinIs DEF HeaderEnd
<1>5. StartOf(s) = k + 4 /\ StartOf(s) - 4 = k
  BY <1>4 DEF StartOf
<1> QED
  BY <1>3, <1>5 DEF HeaderOf

(* What the peer decodes of a frame that encode() made, alone or after     *)
(* another header line, whatever comes behind it, is the frame's body.     *)
THEOREM EncodedDecodes ==
  ASSUME NEW S, NEW body \in Seq(S), NEW rest \in Seq(S), NEW frame,
         frame \in {Encode(body), <<Header>> \o CrLf \o Encode(body)},
         Len(frame) <= MaxUsize
  PROVE  /\ Decode(frame \o rest).what = "message"
         /\ Decode(frame \o rest).body = body
         /\ Decode(frame \o rest).rest = rest
<1> DEFINE n == Len(body)
           cl == ContentLength(n)
           U == S \cup {Header, Cr, Lf, cl}
           one == <<cl, Cr, Lf, Cr, Lf>>
           two == <<Header, Cr, Lf, cl, Cr, Lf, Cr, Lf>>
           h1 == <<cl>>
           h2 == <<Header, Cr, Lf, cl>>
           line == <<Header>>
           first == <<Header, Cr, Lf>>
<1>0. n \in Nat
  BY LenProperties
<1>1. /\ body \in Seq(U) /\ rest \in Seq(U)
      /\ one \in Seq(U) /\ Len(one) = 5 /\ two \in Seq(U) /\ Len(two) = 8
  <2>1. body \in Seq(U) /\ rest \in Seq(U)
    BY SeqMonotonic
  <2> HIDE DEF cl
  <2> QED
    BY <2>1
<1>2. /\ h1 \in Seq(U) /\ h2 \in Seq(U) /\ line \in Seq(U) /\ first \in Seq(U)
      /\ Len(h1) = 1 /\ Len(h2) = 4 /\ Len(line) = 1 /\ Len(first) = 3
  <2> HIDE DEF cl
  <2> QED
    OBVIOUS
<1>3. /\ CrLf \in Seq(U) /\ Len(CrLf) = 2 /\ CrLf[1] = Cr /\ CrLf[2] = Lf
      /\ EndOfHeader \in Seq(U) /\ Len(EndOfHeader) = 4
      /\ EndOfHeader[1] = Cr /\ EndOfHeader[2] = Lf /\ EndOfHeader[3] = Cr /\ EndOfHeader[4] = Lf
  <2> HIDE DEF cl
  <2> QED
    BY BlankLine
<1>4. /\ h1[1] = cl /\ line[1] = Header
      /\ h2[1] = Header /\ h2[2] = Cr /\ h2[3] = Lf /\ h2[4] = cl
      /\ first[1] = Header /\ first[2] = Cr /\ first[3] = Lf
      /\ one[1] = cl /\ one[2] = Cr /\ one[3] = Lf /\ one[4] = Cr /\ one[5] = Lf
      /\ two[1] = Header /\ two[2] = Cr /\ two[3] = Lf /\ two[4] = cl
      /\ two[5] = Cr /\ two[6] = Lf /\ two[7] = Cr /\ two[8] = Lf
  <2> HIDE DEF cl
  <2> QED
    OBVIOUS
<1>5. cl # Cr /\ Lf # Cr /\ Header # Cr
  BY DEF ContentLength, Cr, Lf, Header
<1>11. Encode(body) = (h1 \o EndOfHeader) \o body
  BY Zenon DEF Encode
<1>12. frame \in {Encode(body), (line \o CrLf) \o Encode(body)}
  OBVIOUS
<1>6. n = Len(body)
  OBVIOUS
<1> HIDE DEF one, two, U, cl, h1, h2, line, first, n
<1>13. frame \in {one \o body, two \o body}
  <2>1. h1 \o EndOfHeader = one
    <3>1. /\ Len(one) = Len(h1) + Len(EndOfHeader)
          /\ \A i \in 1..Len(h1) : one[i] = h1[i]
          /\ \A i \in 1..Len(EndOfHeader) : one[Len(h1) + i] = EndOfHeader[i]
      BY <1>1, <1>2, <1>3, <1>4
    <3> QED
      BY <1>1, <1>2, <1>3, <3>1, ConcatIs, Zenon
  <2>2. line \o CrLf = first
    <3>1. /\ Len(first) = Len(line) + Len(CrLf)
          /\ \A i \in 1..Len(line) : first[i] = line[i]
          /\ \A i \in 1..Len(CrLf) : first[Len(line) + i] = CrLf[i]
      BY <1>1, <1>2, <1>3, <1>4
    <3> QED
      BY <1>1, <1>2, <1>3, <3>1, ConcatIs, Zenon
  <2>3. first \o one = two
    <3>1. /\ Len(two) = Len(first) + Len(one)
          /\ \A i \in 1..Len(first) : two[i] = first[i]
          /\ \A i \in 1..Len(one) : two[Len(first) + i] = one[i]
      BY <1>1, <1>2, <1>3, <1>4
    <3> QED
      BY <1>1, <1>2, <1>3, <3>1, ConcatIs, Zenon
  <2>4. first \o (one \o body) = two \o body
    <3>1. (first \o one) \o body = first \o (one \o body)
      <4>1. first \in Seq(U) /\ one \in Seq(U) /\ body \in Seq(U)
        BY <1>1, <1>2
      <4> QED
        BY <4>1, ConcatAssociative
    <3> QED
      BY <2>3, <3>1
  <2> QED
    BY <1>11, <1>12, <2>1, <2>2, <2>4, Zenon
<1>14. Places(one, EndOfHeader) # {} /\ StartOf(one) = 5 /\ HeaderOf(one) = h1
  <2>1. SubSeq(one, 2, 5) = EndOfHeader
    <3>1. /\ 2 \in Nat /\ 5 \in Nat /\ 2 >= 1 /\ 5 <= Len(one)
          /\ Len(EndOfHeader) = 5 - 2 + 1
          /\ \A i \in 1..Len(EndOfHeader) : EndOfHeader[i] = one[2 + i - 1]
      BY <1>1, <1>3, <1>4
    <3> QED
      BY <1>1, <1>3, <3>1, PartIs, Zenon
  <2>2. SubSeq(one, 1, 1) = h1
    <3>1. /\ 1 \in Nat /\ 1 >= 1 /\ 1 <= Len(one) /\ Len(h1) = 1 - 1 + 1
          /\ \A i \in 1..Len(h1) : h1[i] = one[1 + i - 1]
      BY <1>1, <1>2, <1>4
    <3> QED
      BY <1>1, <1>2, <3>1, PartIs, Zenon
  <2>3. /\ 1 \in Nat /\ 1 >= 1 /\ Len(one) = 1 + 4 /\ 1 + 1 = 2 /\ 1 + 4 = 5
        /\ \A i \in 1..1 : one[i] # Cr \/ one[i + 2] # Cr
    BY <1>1, <1>4, <1>5
  <2>4. SubSeq(one, 1 + 1, 1 + 4) = EndOfHeader
    BY <2>1, <2>3
  <2> QED
    BY <1>1, <2>2, <2>3, <2>4, HeaderEnds
<1>15. Places(two, EndOfHeader) # {} /\ StartOf(two) = 8 /\ HeaderOf(two) = h2
  <2>1. SubSeq(two, 5, 8) = EndOfHeader
    <3>1. /\ 5 \in Nat /\ 8 \in Nat /\ 5 >= 1 /\ 8 <= Len(two)
          /\ Len(EndOfHeader) = 8 - 5 + 1
          /\ \A i \in 1..Len(EndOfHeader) : EndOfHeader[i] = two[5 + i - 1]
      BY <1>1, <1>3, <1>4
    <3> QED
      BY <1>1, <1>3, <3>1, PartIs, Zenon
  <2>2. SubSeq(two, 1, 4) = h2
    <3>1. /\ 1 \in Nat /\ 4 \in Nat /\ 1 >= 1 /\ 4 <= Len(two) /\ Len(h2) = 4 - 1 + 1
          /\ \A i \in 1..Len(h2) : h2[i] = two[1 + i - 1]
      BY <1>1, <1>2, <1>4
    <3> QED
      BY <1>1, <1>2, <3>1, PartIs, Zenon
  <2>3. /\ 4 \in Nat /\ 4 >= 1 /\ Len(two) = 4 + 4 /\ 4 + 1 = 5 /\ 4 + 4 = 8
        /\ \A i \in 1..4 : two[i] # Cr \/ two[i + 2] # Cr
    BY <1>1, <1>4, <1>5
  <2>4. SubSeq(two, 4 + 1, 4 + 4) = EndOfHeader
    BY <2>1, <2>3
  <2> QED
    BY <1>1, <2>2, <2>3, <2>4, HeaderEnds
<1>16. ASSUME NEW head \in Seq(U), frame = head \o body, Places(head, EndOfHeader) # {},
             StartOf(head) = Len(head), HeaderOf(head) \in {h1, h2}
      PROVE  /\ Decode(frame).what = "message" /\ Decode(frame).body = body
             /\ Decode(frame).rest = <<>>
  <2>1. Len(head) \in Nat /\ Len(frame) = Len(head) + n /\ frame \in Seq(U)
    BY <1>1, <1>6, <1>16, ConcatProperties, LenProperties
  <2>2. n <= MaxUsize
    BY <1>0, <2>1, MaxUsizeAssumption
  <2>3. ~Flawed(head) /\ LengthOf(head) = n
    BY <1>0, <1>16, <2>2, PlainHeader, TwoLineHeader, MaxUsizeAssumption
    DEF Flawed, LengthOf, h1, h2, cl
  <2>4. /\ Places(frame, EndOfHeader) # {} /\ ~Flawed(frame)
        /\ StartOf(frame) = Len(head) /\ LengthOf(frame) = n
    BY <1>1, <1>16, <2>3, HeaderOfPrefix
  <2>5. Len(head) + n <= MaxUsize /\ Len(head) + n = Len(frame)
    BY <2>1
  <2>6. SubSeq(frame, Len(head) + 1, Len(head) + n) = body
    <3>1. \A i \in 1..n : body[i] = frame[Len(head) + 1 + i - 1]
      <4>1. \A i \in 1..(Len(head) + n) :
              frame[i] = IF i <= Len(head) THEN head[i] ELSE body[i - Len(head)]
        BY <1>1, <1>6, <1>16, ConcatProperties
      <4> TAKE i \in 1..n
      <4>2. /\ Len(head) + 1 + i - 1 = Len(head) + i /\ Len(head) + i \in 1..(Len(head) + n)
            /\ ~(Len(head) + i <= Len(head)) /\ Len(head) + i - Len(head) = i
        BY <1>0, <2>1
      <4> QED
        BY <4>1, <4>2
    <3>2. /\ Len(head) + 1 \in Nat /\ Len(head) + n \in Nat /\ Len(head) + 1 >= 1
          /\ n = Len(head) + n - (Len(head) + 1) + 1
      BY <1>0, <2>1
    <3> QED
      BY <1>1, <1>6, <2>1, <2>5, <3>1, <3>2, PartIs
  <2>7. Drained(frame, Len(head) + n) = <<>>
    BY <1>0, <2>1, SubSeqEmpty DEF Drained
  <2>8. Decode(frame) = Decoded("message", body, <<>>)
    <3>1. /\ ~(StartOf(frame) + LengthOf(frame) > MaxUsize)
          /\ ~(Len(frame) < StartOf(frame) + LengthOf(frame))
      BY <1>0, <2>1, <2>4, <2>5, MaxUsizeAssumption
    <3> QED
      BY <2>4, <2>6, <2>7, <3>1, DecodeCases
  <2> QED
    BY <2>8 DEF Decoded
<1>17. /\ Decode(frame).what = "message" /\ Decode(frame).body = body
      /\ Decode(frame).rest = <<>> /\ frame \in Seq(U)
  <2>1. frame \in Seq(U)
    <3>1. one \o body \in Seq(U) /\ two \o body \in Seq(U)
      BY <1>1, ConcatProperties
    <3> QED
      BY <1>13, <3>1
  <2>2. CASE frame = one \o body
    <3>1. StartOf(one) = Len(one) /\ HeaderOf(one) \in {h1, h2}
      BY <1>1, <1>14
    <3> QED
      BY <1>1, <1>14, <1>16, <2>1, <2>2, <3>1, Zenon
  <2>3. CASE frame = two \o body
    <3>1. StartOf(two) = Len(two) /\ HeaderOf(two) \in {h1, h2}
      BY <1>1, <1>15
    <3> QED
      BY <1>1, <1>15, <1>16, <2>1, <2>3, <3>1, Zenon
  <2> QED
    BY <1>13, <2>2, <2>3
<1>18. /\ Decode(frame \o rest).what = "message" /\ Decode(frame \o rest).body = body
      /\ Decode(frame \o rest).rest = <<>> \o rest
  <2>1. Decode(frame).what # "more"
    BY <1>17
  <2>2. /\ Decode(frame \o rest).what = Decode(frame).what
        /\ Decode(frame \o rest).body = Decode(frame).body
        /\ Decode(frame \o rest).rest = Decode(frame).rest \o rest
    BY <1>1, <1>17, <2>1, DecisionStands, Zenon
  <2> QED
    BY <1>17, <2>2
<1> QED
  BY <1>1, <1>18, ConcatEmptySeq
-----------------------------------------------------------------------------
(* The same of the frames of a stream.                                     *)
Frame(f) == f.header \o f.body

LEMMA StreamType ==
  ASSUME NEW fs \in Streams
  PROVE  /\ Len(fs) \in Nat /\ DOMAIN fs = 1..Len(fs)
         /\ \A i \in 1..Len(fs) : /\ fs[i].header \in Seq(Units(fs))
                                  /\ fs[i].body \in Seq(Units(fs))
                                  /\ Frame(fs[i]) \in Seq(Units(fs))
<1> DEFINE F == [header : Seq(Units(fs)), body : Seq(Units(fs))]
<1>1. fs \in Seq(F)
  BY StreamsAssumption
<1>2. \A i \in 1..Len(fs) : fs[i] \in F
  BY <1>1, ElementOfSeq
<1>3. \A i \in 1..Len(fs) : fs[i].header \in Seq(Units(fs)) /\ fs[i].body \in Seq(Units(fs))
  BY <1>2
<1>4. Len(fs) \in Nat /\ DOMAIN fs = 1..Len(fs)
  BY <1>1, LenProperties
<1>5. \A i \in 1..Len(fs) : Frame(fs[i]) \in Seq(Units(fs))
  BY <1>3, ConcatProperties DEF Frame
<1> QED
  BY <1>3, <1>4, <1>5

First(fs, k) == SubSeq(fs, 1, k)

LEMMA FirstType ==
  ASSUME NEW fs \in Streams, NEW k \in 0..Len(fs)
  PROVE  /\ Len(First(fs, k)) = k /\ DOMAIN First(fs, k) = 1..k
         /\ \A i \in 1..k : First(fs, k)[i] = fs[i]
         /\ First(fs, Len(fs)) = fs
<1> DEFINE F == [header : Seq(Units(fs)), body : Seq(Units(fs))]
<1>1. fs \in Seq(F) /\ Len(fs) \in Nat
  BY StreamsAssumption, LenProperties
<1> HIDE DEF F
<1>2. k \in Nat /\ k <= Len(fs) /\ 1 \in Nat /\ 1 >= 1
  BY <1>1
<1> DEFINE part == SubSeq(fs, 1, k)
<1>3. part \in Seq(F) /\ Len(part) = k /\ \A i \in 1..k : part[i] = fs[i]
  BY <1>1, <1>2, PartType
<1> HIDE DEF part
<1>4. DOMAIN part = 1..k
  BY <1>3, LenProperties
<1>5. SubSeq(fs, 1, Len(fs)) = fs
  BY <1>1, SubSeqFull
<1> QED
  BY <1>3, <1>4, <1>5 DEF part, First

LEMMA PartOfMap ==
  ASSUME NEW S, NEW n \in Nat, NEW seqs \in Seq(S), Len(seqs) = n, NEW k \in 0..n,
         NEW part \in [1..k -> S], \A i \in 1..k : part[i] = seqs[i]
  PROVE  part = SubSeq(seqs, 1, k)
<1>1. k \in Nat /\ k <= n /\ 1 \in Nat /\ 1 >= 1
  OBVIOUS
<1> DEFINE u == SubSeq(seqs, 1, k)
<1>2. u \in Seq(S) /\ Len(u) = k /\ \A i \in 1..k : u[i] = seqs[i]
  BY <1>1, PartType
<1> HIDE DEF u
<1>3. u \in [1..k -> S]
  BY <1>2, LenProperties
<1> QED
  BY <1>2, <1>3 DEF u

LEMMA BytesOfFirst ==
  ASSUME NEW fs \in Streams
  PROVE  /\ Bytes(First(fs, 0)) = <<>> /\ Bytes(First(fs, Len(fs))) = Bytes(fs)
         /\ \A k \in 0..Len(fs) : Bytes(First(fs, k)) \in Seq(Units(fs))
         /\ \A k \in 1..Len(fs) :
              Bytes(First(fs, k)) = Bytes(First(fs, k - 1)) \o Frame(fs[k])
         /\ \A k, m \in 0..Len(fs) : k <= m =>
              Begins(Units(fs), Bytes(First(fs, k)), Bytes(First(fs, m)))
<1> DEFINE seqs == [i \in 1..Len(fs) |-> Frame(fs[i])]
           U == Units(fs)
<1>0. Len(fs) \in Nat /\ \A i \in 1..Len(fs) : Frame(fs[i]) \in Seq(U)
  BY StreamType
<1> HIDE DEF U
<1>1. seqs \in Seq(Seq(U)) /\ Len(seqs) = Len(fs) /\ \A i \in 1..Len(fs) : seqs[i] = Frame(fs[i])
  BY <1>0
<1> HIDE DEF seqs
<1>2. ASSUME NEW k \in 0..Len(fs) PROVE Bytes(First(fs, k)) = FlattenSeq(SubSeq(seqs, 1, k))
  <2> DEFINE g == First(fs, k)
             part == [i \in DOMAIN g |-> g[i].header \o g[i].body]
  <2>1. Bytes(g) = FlattenSeq(part)
    BY DEF Bytes
  <2>2. DOMAIN g = 1..k /\ \A i \in 1..k : g[i] = fs[i]
    BY FirstType
  <2> HIDE DEF g
  <2>3. \A i \in 1..k : i \in 1..Len(fs)
    BY <1>0
  <2>4. \A i \in 1..k : part[i] = seqs[i]
    BY <1>1, <2>2, <2>3 DEF Frame
  <2>5. part \in [1..k -> Seq(U)]
    BY <1>0, <2>2, <2>3 DEF Frame
  <2> HIDE DEF part
  <2>6. part = SubSeq(seqs, 1, k)
    BY <1>0, <1>1, <2>4, <2>5, PartOfMap
  <2> QED
    BY <2>1, <2>6 DEF g
<1>3. /\ FlattenSeq(SubSeq(seqs, 1, 0)) = <<>>
      /\ \A k \in 0..Len(fs) : FlattenSeq(SubSeq(seqs, 1, k)) \in Seq(U)
      /\ \A k \in 1..Len(fs) :
           FlattenSeq(SubSeq(seqs, 1, k)) = FlattenSeq(SubSeq(seqs, 1, k - 1)) \o seqs[k]
      /\ \A k, m \in 0..Len(fs) : k <= m =>
           Begins(U, FlattenSeq(SubSeq(seqs, 1, k)), FlattenSeq(SubSeq(seqs, 1, m)))
  BY <1>1, FlattenedParts
<1>4. \A k \in 1..Len(fs) : k \in 0..Len(fs) /\ k - 1 \in 0..Len(fs)
  BY <1>0
<1>5. 0 \in 0..Len(fs) /\ Len(fs) \in 0..Len(fs)
  BY <1>0
<1>6. First(fs, Len(fs)) = fs
  BY <1>5, FirstType
<1> QED
  BY <1>1, <1>2, <1>3, <1>4, <1>5, <1>6 DEF U

LEMMA ToldType ==
  ASSUME NEW fs, NEW body \in Seq(Units(fs))
  PROVE  Told(body) \in Seq(Answers(fs))
<1>1. CASE ~Parses(body)
  BY <1>1, EmptySeq DEF Told
<1>2. CASE Parses(body)
  <2>1. PICK i \in Text(body), j \in Text(body) :
               Text(body) = {i, j} /\ i < j /\ body[i].is = "open"
    BY <1>2 DEF Parses
  <2>2. Text(body) \in SUBSET Nat /\ i \in 1..Len(body)
    BY LenProperties DEF Text
  <2>3. Min(Text(body)) = i
    <3>1. \A k \in Text(body) : i <= k
      BY <2>1, <2>2
    <3> QED
      BY <2>2, <3>1, MinIs
  <2>4. body[i] \in Units(fs)
    BY <2>2, ElementOfSeq
  <2>5. Message(body) = body[i].message
    BY <2>3 DEF Message, Start
  <2>6. Answer(Message(body)) \in Answers(fs)
    BY <2>1, <2>4, <2>5 DEF Answers
  <2> QED
    BY <1>2, <2>6 DEF Told
<1> QED
  BY <1>1, <1>2

LEMMA MeantOfFirst ==
  ASSUME NEW fs \in Streams
  PROVE  /\ Meant(First(fs, 0)) = <<>>
         /\ \A k \in 0..Len(fs) : Meant(First(fs, k)) \in Seq(Answers(fs))
         /\ \A k \in 1..Len(fs) :
              Meant(First(fs, k)) = Meant(First(fs, k - 1)) \o Told(fs[k].body)
         /\ \A k, m \in 0..Len(fs) : k <= m =>
              Begins(Answers(fs), Meant(First(fs, k)), Meant(First(fs, m)))
<1> DEFINE seqs == [i \in 1..Len(fs) |-> Told(fs[i].body)]
           U == Answers(fs)
<1>0. Len(fs) \in Nat /\ \A i \in 1..Len(fs) : Told(fs[i].body) \in Seq(U)
  BY StreamType, ToldType
<1> HIDE DEF U
<1>1. seqs \in Seq(Seq(U)) /\ Len(seqs) = Len(fs)
      /\ \A i \in 1..Len(fs) : seqs[i] = Told(fs[i].body)
  BY <1>0
<1> HIDE DEF seqs
<1>2. ASSUME NEW k \in 0..Len(fs) PROVE Meant(First(fs, k)) = FlattenSeq(SubSeq(seqs, 1, k))
  <2> DEFINE g == First(fs, k)
             part == [i \in DOMAIN g |-> Told(g[i].body)]
  <2>1. Meant(g) = FlattenSeq(part)
    BY DEF Meant
  <2>2. DOMAIN g = 1..k /\ \A i \in 1..k : g[i] = fs[i]
    BY FirstType
  <2> HIDE DEF g
  <2>3. \A i \in 1..k : i \in 1..Len(fs)
    BY <1>0
  <2>4. \A i \in 1..k : part[i] = seqs[i]
    BY <1>1, <2>2, <2>3
  <2>5. part \in [1..k -> Seq(U)]
    BY <1>0, <2>2, <2>3
  <2> HIDE DEF part
  <2>6. part = SubSeq(seqs, 1, k)
    BY <1>0, <1>1, <2>4, <2>5, PartOfMap
  <2> QED
    BY <2>1, <2>6 DEF g
<1>3. /\ FlattenSeq(SubSeq(seqs, 1, 0)) = <<>>
      /\ \A k \in 0..Len(fs) : FlattenSeq(SubSeq(seqs, 1, k)) \in Seq(U)
      /\ \A k \in 1..Len(fs) :
           FlattenSeq(SubSeq(seqs, 1, k)) = FlattenSeq(SubSeq(seqs, 1, k - 1)) \o seqs[k]
      /\ \A k, m \in 0..Len(fs) : k <= m =>
           Begins(U, FlattenSeq(SubSeq(seqs, 1, k)), FlattenSeq(SubSeq(seqs, 1, m)))
  BY <1>1, FlattenedParts
<1>4. \A k \in 1..Len(fs) : k \in 0..Len(fs) /\ k - 1 \in 0..Len(fs)
  BY <1>0
<1>5. 0 \in 0..Len(fs)
  BY <1>0
<1> QED
  BY <1>1, <1>2, <1>3, <1>4, <1>5 DEF U

----------------------------------------------------------------------------
(* One more message, or none: the step of AtOnce. *)
OneMore(last) ==
  LET d == Decode(last.rest)
  IN  IF d.what = "message"
      THEN [told |-> last.told \o Told(d.body), rest |-> d.rest] ELSE last

Steps(bytes, n) == AtOnce(bytes)[n + 1] = OneMore(AtOnce(bytes)[n])

LEMMA AtOnceSteps ==
  ASSUME NEW fs, NEW bytes \in Seq(Units(fs))
  PROVE  /\ AtOnce(bytes)[0] = [told |-> <<>>, rest |-> bytes]
         /\ \A n \in Nat : /\ Steps(bytes, n)
                           /\ AtOnce(bytes)[n].told \in Seq(Answers(fs))
                           /\ AtOnce(bytes)[n].rest \in Seq(Units(fs))
<1> DEFINE X == [told : Seq(Answers(fs)), rest : Seq(Units(fs))]
           x == [told |-> <<>>, rest |-> bytes]
           step == [n \in Nat |-> [last \in X |-> OneMore(last)]]
<1>1. x \in X
  BY EmptySeq
<1>2. ASSUME NEW last \in X PROVE OneMore(last) \in X
  <2>1. last.told \in Seq(Answers(fs)) /\ last.rest \in Seq(Units(fs))
    OBVIOUS
  <2> DEFINE d == Decode(last.rest)
  <2>2. d.body \in Seq(Units(fs)) /\ d.rest \in Seq(Units(fs))
    BY <2>1, DecodeType DEF OffTheFront
  <2> HIDE DEF d
  <2>3. last.told \o Told(d.body) \in Seq(Answers(fs))
    BY <2>1, <2>2, ToldType, ConcatProperties
  <2>4. [told |-> last.told \o Told(d.body), rest |-> d.rest] \in X
    BY <2>2, <2>3
  <2> QED
    BY <2>4 DEF OneMore, d
<1> HIDE DEF X, x
<1>3. step \in [Nat -> [X -> X]] /\ \A n \in Nat, y \in X : step[n][y] = OneMore(y)
  BY <1>2
<1> HIDE DEF step
<1>4. PICK f \in [Nat -> X] : Follows(f, x, step)
  BY <1>1, <1>3, Recursion
<1>5. f[0] = x /\ \A n \in Nat : f[n] \in X /\ f[n + 1] = OneMore(f[n])
  BY <1>3, <1>4 DEF Follows
<1> DEFINE Is(g) == g = [n \in Nat |-> IF n = 0 THEN x ELSE OneMore(g[n - 1])]
           whole == CHOOSE g : Is(g)
<1>6. AtOnce(bytes) = whole
  BY Zenon DEF AtOnce, OneMore, x
<1>7. Is(f)
  <2>1. \A n \in Nat : n # 0 => n - 1 \in Nat /\ n - 1 + 1 = n
    OBVIOUS
  <2>2. \A n \in Nat : f[n] = IF n = 0 THEN x ELSE OneMore(f[n - 1])
    BY <1>5, <2>1
  <2> QED
    BY <2>2
<1>8. Is(whole)
  BY <1>7, Zenon
<1> HIDE DEF whole
<1>9. \A n \in Nat : whole[n] = IF n = 0 THEN x ELSE OneMore(whole[n - 1])
  BY <1>8
<1> DEFINE T == {n \in Nat : whole[n] # f[n]}
<1>10. T = {}
  <2> SUFFICES ASSUME T # {} PROVE FALSE
    OBVIOUS
  <2>1. PICK m \in T : \A i \in Nat : i < m => i \notin T
    <3>1. T \in SUBSET Nat
      OBVIOUS
    <3> HIDE DEF T
    <3> QED
      BY <3>1, LeastElement
  <2>2. m \in Nat /\ whole[m] # f[m]
    BY <2>1
  <2>3. m # 0
    BY <1>5, <1>9, <2>2
  <2>4. m - 1 \in Nat /\ m - 1 < m /\ m - 1 + 1 = m
    BY <2>2, <2>3
  <2>5. whole[m - 1] = f[m - 1]
    BY <2>1, <2>4
  <2>6. f[m] = OneMore(f[m - 1])
    BY <1>5, <2>4
  <2> QED
    BY <1>9, <2>2, <2>3, <2>5, <2>6
<1>11. \A n \in Nat : whole[n] = f[n]
  BY <1>10
<1>12. whole[0] = x /\ \A n \in Nat : whole[n] \in X /\ whole[n + 1] = OneMore(whole[n])
  <2>1. 0 \in Nat /\ \A n \in Nat : n + 1 \in Nat
    OBVIOUS
  <2> HIDE DEF Is
  <2> QED
    BY <1>5, <1>11, <2>1, Zenon
<1>13. \A y \in X : y.told \in Seq(Answers(fs)) /\ y.rest \in Seq(Units(fs))
  BY DEF X
<1> QED
  BY <1>6, <1>12, <1>13 DEF x, Steps

----------------------------------------------------------------------------
LEMMA BeginsTransitive ==
  ASSUME NEW S, NEW a \in Seq(S), NEW b, NEW c, Begins(S, a, b), Begins(S, b, c)
  PROVE  Begins(S, a, c)
<1>1. PICK p \in Seq(S) : c = b \o p
  BY DEF Begins
<1>2. Begins(S, a, b \o p)
  BY <1>1, BeginsLonger
<1> QED
  BY <1>1, <1>2

(* After p, t continues what begins with s. *)
Continues(S, p, s, t) == \E w \in Seq(S) : t = s \o w /\ p \o t = (p \o s) \o w

LEMMA CancelPrefix ==
  ASSUME NEW S, NEW p \in Seq(S), NEW s \in Seq(S), NEW t \in Seq(S),
         Begins(S, p \o s, p \o t)
  PROVE  Continues(S, p, s, t)
<1>1. PICK w \in Seq(S) : p \o t = (p \o s) \o w
  BY DEF Begins
<1>2. (p \o s) \o w = p \o (s \o w)
  BY ConcatAssociative
<1>3. s \o w \in Seq(S)
  BY ConcatProperties
<1> DEFINE v == s \o w
<1>4. v \in Seq(S) /\ p \o t = p \o v
  BY <1>1, <1>2, <1>3
<1> HIDE DEF v
<1>5. t = v
  BY <1>4, ConcatSimplifications
<1> QED
  BY <1>1, <1>5 DEF v, Continues

(* The decoder finds a message at the front of s. *)
Finds(s, body, rest) ==
  Decode(s).what = "message" /\ Decode(s).body = body /\ Decode(s).rest = rest

LEMMA FrameDecodes ==
  ASSUME NEW S, NEW f, f.body \in Seq(S), NEW rest \in Seq(S), Proper(f)
  PROVE  Finds(Frame(f) \o rest, f.body, rest)
<1>1. /\ Frame(f) \in {Encode(f.body), <<Header>> \o CrLf \o Encode(f.body)}
      /\ Len(Frame(f)) <= MaxUsize
  BY DEF Proper, Frame
<1> QED
  BY <1>1, EncodedDecodes DEF Finds

(* Where what is left of a stream begins with a proper frame, this is the  *)
(* frame that is decoded.                                                  *)
LEMMA NextFrame ==
  ASSUME NEW fs \in Streams, NEW left \in Seq(Units(fs)), NEW k \in 1..Len(fs),
         Bytes(fs) = Bytes(First(fs, k - 1)) \o left, Proper(fs[k])
  PROVE  \E w \in Seq(Units(fs)) :
           /\ left = Frame(fs[k]) \o w /\ Bytes(fs) = Bytes(First(fs, k)) \o w
           /\ Finds(left, fs[k].body, w)
<1> DEFINE U == Units(fs)
           p == Bytes(First(fs, k - 1))
           q == Bytes(First(fs, k))
           frame == Frame(fs[k])
           body == fs[k].body
<1>1. /\ Len(fs) \in Nat /\ k \in 0..Len(fs) /\ k - 1 \in 0..Len(fs)
      /\ Len(fs) \in 0..Len(fs) /\ k <= Len(fs)
  BY StreamType
<1>2. p \in Seq(U) /\ q \in Seq(U) /\ frame \in Seq(U) /\ body \in Seq(U)
  BY <1>1, StreamType, BytesOfFirst
<1>3. q = p \o frame
  BY BytesOfFirst
<1>4. Begins(U, q, Bytes(fs))
  BY <1>1, BytesOfFirst
<1>6. Bytes(fs) = p \o left /\ left \in Seq(U)
  OBVIOUS
<1> HIDE DEF U, p, q, frame, body
<1>7. PICK w \in Seq(U) : left = frame \o w /\ p \o left = (p \o frame) \o w
  <2>1. Begins(U, p \o frame, p \o left)
    BY <1>3, <1>4, <1>6, Zenon
  <2>2. Continues(U, p, frame, left)
    BY <1>2, <1>6, <2>1, CancelPrefix, Zenon
  <2> QED
    BY <2>2, Zenon DEF Continues
<1>8. Finds(frame \o w, body, w)
  BY <1>2, FrameDecodes, Zenon DEF frame, body
<1> QED
  BY <1>3, <1>6, <1>7, <1>8, Zenon DEF U, q, frame, body

LEMMA NothingLeft ==
  ASSUME NEW fs \in Streams, NEW left \in Seq(Units(fs)), Bytes(fs) = Bytes(fs) \o left
  PROVE  left = <<>>
<1>1. Len(fs) \in 0..Len(fs)
  BY StreamType
<1>2. Bytes(fs) \in Seq(Units(fs))
  BY <1>1, BytesOfFirst
<1> QED
  BY <1>2, ConcatEqualIffEmpty

LEMMA NothingDecodes == Decode(<<>>).what = "more"
<1>1. Len(<<>>) = 0 /\ Places(<<>>, EndOfHeader) = {}
  BY BlankLine, EmptySeq DEF Places
<1> QED
  BY <1>1, DecodeCases, Fields

----------------------------------------------------------------------------
(* The inductive invariant.  It is about what is left of the stream, in    *)
(* the buffer and in the pipe: receiving moves bytes from one to the other *)
(* and changes nothing else, and what the decoder takes from the buffer it *)
(* would have taken from all that is left (DecisionStands).                *)

(* all ends with s. *)
Ends(S, s, all) == \E z \in Seq(S) : all = z \o s

(* The loop on the whole stream is, after n messages, where this one is.   *)
(* Each message takes a byte at least.                                     *)
SameAfter(fs, left, answers, state, n) ==
  LET whole == AtOnce(Bytes(fs))[n] IN
  /\ n + Len(whole.rest) <= Len(Bytes(fs))
  /\ answers = whole.told
  /\ state \in {"reading", "eof"} => left = whole.rest
  /\ state \in {"error", "panic"} => Decode(whole.rest).what = state
AtOnceSoFar(fs, left, answers, state) ==
  \E n \in Nat : SameAfter(fs, left, answers, state, n)

(* The first k frames have been taken as they were written, and either     *)
(* nothing else has or the next one is not proper.                         *)
Exactly(fs, left, answers, state, k) ==
  /\ Bytes(fs) = Bytes(First(fs, k)) \o left
  /\ answers = Meant(First(fs, k))
  /\ state \in {"reading", "eof"}
PastBroken(fs, answers, k) ==
  /\ k < Len(fs) /\ ~Proper(fs[k + 1])
  /\ Begins(Answers(fs), Meant(First(fs, k)), answers)
AllProper(fs, k) == \A j \in 1..k : Proper(fs[j])
FrameByFrame(fs, left, answers, state) ==
  \E k \in 0..Len(fs) :
    AllProper(fs, k) /\ (Exactly(fs, left, answers, state, k) \/ PastBroken(fs, answers, k))

Typed ==
  /\ frames \in Streams
  /\ buf \in Seq(Units(frames)) /\ unread \in Seq(Units(frames))
  /\ Ends(Units(frames), buf \o unread, Bytes(frames))
  /\ reader \in {"reading", "eof", "error", "panic"}
  /\ told \in Seq(Answers(frames))

Inv ==
  /\ Typed
  /\ AtOnceSoFar(frames, buf \o unread, told, reader)
  /\ FrameByFrame(frames, buf \o unread, told, reader)
  /\ reader = "eof" => Decode(buf).what = "more"

(* What the decoder takes from the buffer it would take from all that is   *)
(* left.                                                                   *)
Ahead(b, u) ==
  /\ Decode(b \o u).what = Decode(b).what
  /\ Decode(b \o u).body = Decode(b).body
  /\ Decode(b \o u).rest = Decode(b).rest \o u

LEMMA DecodeAhead ==
  ASSUME NEW S, NEW b \in Seq(S), NEW u \in Seq(S), Decode(b).what # "more"
  PROVE  Ahead(b, u)
BY DecisionStands DEF Ahead

LEMMA EndsRest ==
  ASSUME NEW S, NEW b \in Seq(S), NEW u \in Seq(S), NEW all, Ends(S, b \o u, all)
  PROVE  Ends(S, Decode(b).rest \o u, all)
<1> DEFINE r == Decode(b).rest
<1>1. r \in Seq(S) /\ \E y \in Seq(S) : b = y \o r
  BY DecodeType DEF OffTheFront
<1> HIDE DEF r
<1>2. PICK y \in Seq(S) : b = y \o r
  BY <1>1
<1>3. PICK z \in Seq(S) : all = z \o (b \o u)
  BY DEF Ends
<1>4. (y \o r) \o u = y \o (r \o u)
  BY <1>1, ConcatAssociative, SMTT(60)
<1> DEFINE v == r \o u
<1>5. v \in Seq(S) /\ b \o u = y \o v
  BY <1>1, <1>2, <1>4, ConcatProperties
<1> HIDE DEF v
<1>6. (z \o y) \o v = z \o (y \o v)
  BY <1>5, ConcatAssociative, SMTT(60)
<1>7. z \o y \in Seq(S)
  BY ConcatProperties
<1>8. all = (z \o y) \o v
  BY <1>3, <1>5, <1>6
<1> QED
  BY <1>7, <1>8 DEF Ends, v, r

(* A message is one more message of AtOnce... *)
LEMMA MessageAtOnce ==
  ASSUME NEW fs \in Streams, NEW left \in Seq(Units(fs)), NEW answers,
         AtOnceSoFar(fs, left, answers, "reading"), Decode(left).what = "message"
  PROVE  AtOnceSoFar(fs, Decode(left).rest, answers \o Told(Decode(left).body), "reading")
<1> DEFINE B == Bytes(fs)
           rest == Decode(left).rest
           more == answers \o Told(Decode(left).body)
<1>1. PICK n \in Nat : SameAfter(fs, left, answers, "reading", n)
  BY DEF AtOnceSoFar
<1>2. B \in Seq(Units(fs)) /\ Len(B) \in Nat
  <2>1. Len(fs) \in 0..Len(fs)
    BY StreamType
  <2>2. B \in Seq(Units(fs))
    BY <2>1, BytesOfFirst
  <2> HIDE DEF B
  <2> QED
    BY <2>2, LenProperties
<1> DEFINE whole == AtOnce(B)[n]
           next == AtOnce(B)[n + 1]
<1>3. /\ n + Len(whole.rest) <= Len(B)
      /\ answers = whole.told /\ left = whole.rest
  BY <1>1 DEF SameAfter
<1>4. next = OneMore(whole)
  <2>1. Steps(B, n)
    <3> HIDE DEF B
    <3> QED
      BY <1>2, AtOnceSteps, Zenon
  <2> QED
    BY <2>1, Zenon DEF Steps
<1> HIDE DEF B, whole, next
<1>5. next.told = more /\ next.rest = rest
  BY <1>3, <1>4 DEF OneMore
<1>6. Len(rest) \in Nat /\ Len(left) \in Nat /\ Len(rest) < Len(left)
  BY DecodeType, LenProperties DEF OffTheFront
<1> HIDE DEF rest, more
<1>7. n + 1 \in Nat /\ n + 1 + Len(next.rest) <= Len(B)
  <2>1. \A x, y, m, len \in Nat : m + y <= len /\ x < y => m + 1 \in Nat /\ m + 1 + x <= len
    OBVIOUS
  <2> QED
    BY <1>2, <1>3, <1>5, <1>6, <2>1, Zenon
<1>8. SameAfter(fs, rest, more, "reading", n + 1)
  BY <1>5, <1>7 DEF SameAfter, B, next
<1> QED
  BY <1>7, <1>8 DEF AtOnceSoFar, rest, more

(* ...and one more frame, if the next one is proper. *)
LEMMA MessageByFrame ==
  ASSUME NEW fs \in Streams, NEW left \in Seq(Units(fs)), NEW answers \in Seq(Answers(fs)),
         FrameByFrame(fs, left, answers, "reading"), Decode(left).what = "message"
  PROVE  FrameByFrame(fs, Decode(left).rest, answers \o Told(Decode(left).body), "reading")
<1> DEFINE R == Answers(fs)
           rest == Decode(left).rest
           body == Decode(left).body
           more == answers \o Told(body)
<1>0. Len(fs) \in Nat
  BY StreamType
<1>1. PICK k \in 0..Len(fs) :
        /\ AllProper(fs, k)
        /\ Exactly(fs, left, answers, "reading", k) \/ PastBroken(fs, answers, k)
  BY DEF FrameByFrame
<1>2. Meant(First(fs, k)) \in Seq(R) /\ Told(body) \in Seq(R)
  BY MeantOfFirst, DecodeType, ToldType DEF OffTheFront
<1>3. CASE PastBroken(fs, answers, k)
  <2>1. Begins(R, Meant(First(fs, k)), more)
    BY <1>2, <1>3, BeginsLonger DEF PastBroken
  <2>2. PastBroken(fs, more, k)
    BY <1>3, <2>1 DEF PastBroken
  <2> QED
    BY <1>1, <2>2 DEF FrameByFrame
<1>4. CASE Exactly(fs, left, answers, "reading", k) /\ k < Len(fs) /\ ~Proper(fs[k + 1])
  <2>1. Begins(R, Meant(First(fs, k)), answers)
    BY <1>2, <1>4, BeginsSame DEF Exactly
  <2>2. Begins(R, Meant(First(fs, k)), more)
    BY <1>2, <2>1, BeginsLonger
  <2>3. PastBroken(fs, more, k)
    BY <1>4, <2>2 DEF PastBroken
  <2> QED
    BY <1>1, <2>3 DEF FrameByFrame
<1>5. CASE Exactly(fs, left, answers, "reading", k) /\ k < Len(fs) /\ Proper(fs[k + 1])
  <2> DEFINE m == k + 1
  <2>1. m \in 1..Len(fs) /\ m \in 0..Len(fs) /\ m - 1 = k
    BY <1>0, <1>5
  <2>2. \A j \in 1..m : j \in 1..k \/ j = m
    BY <1>0
  <2>3. Proper(fs[m])
    BY <1>5
  <2> HIDE DEF m
  <2>4. PICK w \in Seq(Units(fs)) :
             Bytes(fs) = Bytes(First(fs, m)) \o w /\ Finds(left, fs[m].body, w)
    BY <1>5, <2>1, <2>3, NextFrame DEF Exactly
  <2>5. rest = w /\ body = fs[m].body
    BY <2>4 DEF Finds
  <2>6. more = Meant(First(fs, m))
    BY <1>5, <2>1, <2>5, MeantOfFirst DEF Exactly
  <2>7. Exactly(fs, rest, more, "reading", m)
    BY <2>4, <2>5, <2>6 DEF Exactly
  <2>8. AllProper(fs, m)
    BY <1>1, <2>2, <2>3 DEF AllProper
  <2> QED
    BY <2>1, <2>7, <2>8 DEF FrameByFrame
<1>6. CASE Exactly(fs, left, answers, "reading", k) /\ ~(k < Len(fs))
  <2>1. Bytes(fs) = Bytes(fs) \o left
    BY <1>0, <1>6, BytesOfFirst DEF Exactly
  <2> QED
    BY <2>1, NothingLeft, NothingDecodes
<1> QED
  BY <1>1, <1>3, <1>4, <1>5, <1>6

(* What stops the loop stops AtOnce, and is not proper. *)
LEMMA BreakAtOnce ==
  ASSUME NEW fs \in Streams, NEW left, NEW answers, NEW what \in {"error", "panic"}, NEW after,
         AtOnceSoFar(fs, left, answers, "reading"), Decode(left).what = what
  PROVE  AtOnceSoFar(fs, after, answers, what)
BY DEF AtOnceSoFar, SameAfter

LEMMA BreakByFrame ==
  ASSUME NEW fs \in Streams, NEW left \in Seq(Units(fs)), NEW answers,
         NEW what \in {"error", "panic"}, NEW after,
         FrameByFrame(fs, left, answers, "reading"), Decode(left).what = what
  PROVE  FrameByFrame(fs, after, answers, what)
<1>0. Len(fs) \in Nat
  BY StreamType
<1>1. PICK k \in 0..Len(fs) :
        /\ AllProper(fs, k)
        /\ Exactly(fs, left, answers, "reading", k) \/ PastBroken(fs, answers, k)
  BY DEF FrameByFrame
<1>2. Meant(First(fs, k)) \in Seq(Answers(fs))
  BY MeantOfFirst
<1>3. CASE PastBroken(fs, answers, k)
  BY <1>1, <1>3 DEF FrameByFrame
<1>4. CASE Exactly(fs, left, answers, "reading", k) /\ k < Len(fs) /\ ~Proper(fs[k + 1])
  <2>1. Begins(Answers(fs), Meant(First(fs, k)), answers)
    BY <1>2, <1>4, BeginsSame DEF Exactly
  <2>2. PastBroken(fs, answers, k)
    BY <1>4, <2>1 DEF PastBroken
  <2> QED
    BY <1>1, <2>2 DEF FrameByFrame
<1>5. CASE Exactly(fs, left, answers, "reading", k) /\ k < Len(fs) /\ Proper(fs[k + 1])
  <2> DEFINE m == k + 1
  <2>1. m \in 1..Len(fs) /\ m - 1 = k
    BY <1>0, <1>5
  <2>2. Proper(fs[m])
    BY <1>5
  <2> HIDE DEF m
  <2>3. \E w \in Seq(Units(fs)) : Finds(left, fs[m].body, w)
    BY <1>5, <2>1, <2>2, NextFrame DEF Exactly
  <2> QED
    BY <2>3 DEF Finds
<1>6. CASE Exactly(fs, left, answers, "reading", k) /\ ~(k < Len(fs))
  <2>1. Bytes(fs) = Bytes(fs) \o left
    BY <1>0, <1>6, BytesOfFirst DEF Exactly
  <2> QED
    BY <2>1, NothingLeft, NothingDecodes
<1> QED
  BY <1>1, <1>3, <1>4, <1>5, <1>6

(* Of two beginnings of a sequence, the longer begins with the shorter. *)
LEMMA FrontOfConcat ==
  ASSUME NEW S, NEW s \in Seq(S), NEW w \in Seq(S), NEW b \in Seq(S), NEW u \in Seq(S),
         b \o u = s \o w, Len(s) <= Len(b)
  PROVE  Begins(S, s, b)
<1>1. Len(s) \in Nat /\ Len(b) \in Nat
  BY LenProperties
<1>2. SubSeq(b \o u, 1, Len(s)) = SubSeq(b, 1, Len(s))
  BY <1>1, PartOfPrefix
<1>3. SubSeq(s \o w, 1, Len(s)) = SubSeq(s, 1, Len(s))
  BY <1>1, PartOfPrefix
<1>4. SubSeq(s, 1, Len(s)) = s
  BY SubSeqFull
<1>5. IsPrefix(s, b)
  BY <1>1, <1>2, <1>3, <1>4 DEF IsPrefix
<1> QED
  BY <1>5, PrefixIs

(* Reading moves bytes from the pipe to the buffer. *)
Moves(b, u, n) == (b \o SubSeq(u, 1, n)) \o SubSeq(u, n + 1, Len(u)) = b \o u

LEMMA ReceiveMoves ==
  ASSUME NEW S, NEW b \in Seq(S), NEW u \in Seq(S), NEW n \in 1..Len(u)
  PROVE  /\ b \o SubSeq(u, 1, n) \in Seq(S) /\ SubSeq(u, n + 1, Len(u)) \in Seq(S)
         /\ Moves(b, u, n)
<1> DEFINE p == SubSeq(u, 1, n)
           q == SubSeq(u, n + 1, Len(u))
<1>1. Len(u) \in Nat
  BY LenProperties
<1>2. p \in Seq(S) /\ q \in Seq(S)
  BY <1>1, PartType
<1>3. p \o q = u
  <2>1. /\ 1 \in 1..(Len(u) + 1) /\ n \in (1 - 1)..Len(u) /\ Len(u) \in n..Len(u)
    BY <1>1
  <2>2. p \o q = SubSeq(u, 1, Len(u))
    BY <2>1, ConcatAdjacentSubSeq
  <2> QED
    BY <2>2, SubSeqFull
<1> HIDE DEF p, q
<1>4. (b \o p) \o q = b \o (p \o q)
  BY <1>1, <1>2, ConcatAssociative, SMTT(60)
<1>5. b \o p \in Seq(S)
  BY <1>2, ConcatProperties
<1> QED
  BY <1>2, <1>3, <1>4, <1>5 DEF p, q, Moves

(* The read loop keeps its invariant: what is left is what the whole       *)
(* stream's reading leaves, and the frames told are the first ones.        *)
THEOREM Invariance == Spec => []Inv
<1>1. Init => Inv
  <2> SUFFICES ASSUME Init PROVE Inv
    OBVIOUS
  <2> DEFINE U == Units(frames)
             B == Bytes(frames)
  <2>1. /\ frames \in Streams /\ unread = B /\ buf = <<>> /\ reader = "reading"
        /\ told = <<>>
    BY DEF Init
  <2>2. Len(frames) \in Nat /\ 0 \in 0..Len(frames) /\ Len(frames) \in 0..Len(frames)
    BY <2>1, StreamType
  <2>3. B \in Seq(U) /\ <<>> \in Seq(U) /\ <<>> \in Seq(Answers(frames))
    BY <2>1, <2>2, BytesOfFirst, EmptySeq
  <2>4. /\ AtOnce(B)[0] = [told |-> <<>>, rest |-> B]
        /\ Bytes(First(frames, 0)) = <<>> /\ Meant(First(frames, 0)) = <<>>
    BY <2>1, <2>3, AtOnceSteps, BytesOfFirst, MeantOfFirst
  <2> HIDE DEF U, B
  <2>5. <<>> \o B = B /\ Len(B) \in Nat
    BY <2>3, ConcatEmptySeq, LenProperties
  <2>6. buf \o unread = B
    BY <2>1, <2>5
  <2>7. Typed
    <3>1. B = <<>> \o B
      BY <2>5
    <3>2. Ends(U, B, B)
      BY <2>3, <3>1 DEF Ends
    <3> QED
      BY <2>1, <2>3, <2>6, <3>2 DEF Typed, U, B
  <2>8. AtOnceSoFar(frames, B, told, reader)
    <3>1. 0 \in Nat /\ 0 + Len(B) <= Len(B)
      BY <2>5
    <3>2. SameAfter(frames, B, told, reader, 0)
      BY <2>1, <2>4, <3>1 DEF SameAfter, B
    <3> QED
      BY <3>1, <3>2 DEF AtOnceSoFar
  <2>9. FrameByFrame(frames, B, told, reader)
    <3>1. Exactly(frames, B, told, reader, 0)
      BY <2>1, <2>4, <2>5 DEF Exactly, B
    <3>2. AllProper(frames, 0)
      BY DEF AllProper
    <3> QED
      BY <2>2, <3>1, <3>2 DEF FrameByFrame
  <2> QED
    BY <2>1, <2>6, <2>7, <2>8, <2>9 DEF Inv
<1>2. Inv /\ [Next]_vars => Inv'
  <2> SUFFICES ASSUME Inv, [Next]_vars PROVE Inv'
    OBVIOUS
  <2> DEFINE U == Units(frames)
             R == Answers(frames)
             d == Decode(buf)
             left == buf \o unread
  <2>1. /\ frames \in Streams
        /\ buf \in Seq(U) /\ unread \in Seq(U) /\ told \in Seq(R)
        /\ Ends(U, left, Bytes(frames))
        /\ AtOnceSoFar(frames, left, told, reader)
        /\ FrameByFrame(frames, left, told, reader)
    BY DEF Inv, Typed
  <2>2. left \in Seq(U) /\ d.body \in Seq(U) /\ d.rest \in Seq(U)
    BY <2>1, ConcatProperties, DecodeType DEF OffTheFront
  <2>3. ASSUME d.what # "more"
        PROVE  Decode(left).what = d.what /\ Decode(left).body = d.body
               /\ Decode(left).rest = d.rest \o unread
    BY <2>1, <2>3, DecodeAhead DEF Ahead
  <2>4. Ends(U, d.rest \o unread, Bytes(frames))
    BY <2>1, EndsRest
  <2>5. ASSUME NEW n \in 1..Len(unread), Receive(n) PROVE Inv'
    <3>0. buf \in Seq(U) /\ unread \in Seq(U)
      BY <2>1
    <3>4. /\ buf \o SubSeq(unread, 1, n) \in Seq(U)
          /\ SubSeq(unread, n + 1, Len(unread)) \in Seq(U)
          /\ Moves(buf, unread, n)
      <4> HIDE DEF U, d, left
      <4> QED
        BY <3>0, ReceiveMoves, Zenon
    <3>1. (buf \o SubSeq(unread, 1, n)) \o SubSeq(unread, n + 1, Len(unread)) = left
      BY <3>4, Zenon DEF Moves
    <3>2. buf' \in Seq(U) /\ unread' \in Seq(U) /\ buf' \o unread' = left
      BY <2>5, <3>1, <3>4 DEF Receive, Chunk
    <3>3. frames' = frames /\ reader' = reader /\ told' = told /\ reader = "reading"
      BY <2>5 DEF Receive
    <3> HIDE DEF U, R, left
    <3> QED
      BY <2>1, <3>2, <3>3 DEF Inv, Typed, U, R
  <2>6. CASE Deliver
    <3>1. /\ reader = "reading" /\ d.what = "message" /\ reader' = "reading"
          /\ told' = told \o Told(d.body) /\ buf' = d.rest
          /\ frames' = frames /\ unread' = unread
      BY <2>6 DEF Deliver, OnMessage
    <3>2. Told(d.body) \in Seq(R)
      BY <2>2, ToldType
    <3>3. told' \in Seq(R)
      BY <2>1, <3>1, <3>2, ConcatProperties
    <3>4. AtOnceSoFar(frames, d.rest \o unread, told', "reading")
      BY <2>1, <2>2, <2>3, <3>1, MessageAtOnce
    <3>5. FrameByFrame(frames, d.rest \o unread, told', "reading")
      BY <2>1, <2>2, <2>3, <3>1, MessageByFrame
    <3> HIDE DEF U, R, d, left
    <3> QED
      BY <2>1, <2>2, <2>4, <3>1, <3>3, <3>4, <3>5 DEF Inv, Typed, U, R
  <2>7. CASE Break
    <3>1. /\ reader = "reading" /\ d.what \in {"error", "panic"} /\ reader' = d.what
          /\ told' = told /\ buf' = d.rest /\ frames' = frames /\ unread' = unread
      BY <2>7 DEF Break
    <3>2. Decode(left).what = d.what
      BY <2>3, <3>1
    <3>3. AtOnceSoFar(frames, d.rest \o unread, told, d.what)
      BY <2>1, <3>1, <3>2, BreakAtOnce
    <3>4. FrameByFrame(frames, d.rest \o unread, told, d.what)
      BY <2>1, <2>2, <3>1, <3>2, BreakByFrame
    <3> HIDE DEF U, R, d, left
    <3> QED
      BY <2>1, <2>2, <2>4, <3>1, <3>3, <3>4 DEF Inv, Typed, U, R
  <2>8. CASE Eof
    <3>1. /\ reader = "reading" /\ d.what = "more" /\ reader' = "eof"
          /\ told' = told /\ buf' = buf /\ frames' = frames /\ unread' = unread
      BY <2>8 DEF Eof
    <3>2. AtOnceSoFar(frames, left, told, "eof")
      BY <2>1, <3>1 DEF AtOnceSoFar, SameAfter
    <3>3. FrameByFrame(frames, left, told, "eof")
      BY <2>1, <3>1 DEF FrameByFrame, Exactly
    <3> QED
      BY <2>1, <3>1, <3>2, <3>3 DEF Inv, Typed
  <2>9. CASE UNCHANGED vars
    BY <2>9 DEF Inv, Typed, vars
  <2> QED
    BY <2>5, <2>6, <2>7, <2>8, <2>9 DEF Next
<1> QED
  BY <1>1, <1>2, PTL DEF Spec

(* Nothing is in the buffer or the pipe but the end of what the server     *)
(* wrote, and nothing is told but an answer to a message in it.            *)
THEOREM TypeCorrect == Spec => []TypeOK
<1>1. Inv => TypeOK
  <2> SUFFICES ASSUME Inv PROVE TypeOK
    OBVIOUS
  <2>1. /\ buf \o unread \in Seq(Units(frames))
        /\ Ends(Units(frames), buf \o unread, Bytes(frames))
    BY ConcatProperties DEF Inv, Typed
  <2>2. IsSuffix(buf \o unread, Bytes(frames))
    BY <2>1, SuffixIs DEF Ends
  <2> QED
    BY <2>2 DEF Inv, Typed, TypeOK
<1> QED
  BY <1>1, Invariance, PTL

(* Decoder::push and next_message: whatever chunks the stream comes in,    *)
(* the loop is where it would be had it come in one.                       *)
THEOREM ChunksAreHarmless == Spec => []ChunksDoNotMatter
<1>1. Inv => ChunksDoNotMatter
  <2> SUFFICES ASSUME Inv PROVE ChunksDoNotMatter
    OBVIOUS
  <2> DEFINE B == Bytes(frames)
  <2>1. PICK n \in Nat : SameAfter(frames, buf \o unread, told, reader, n)
    BY DEF Inv, AtOnceSoFar
  <2>2. B \in Seq(Units(frames))
    <3>1. frames \in Streams /\ Len(frames) \in 0..Len(frames)
      BY StreamType DEF Inv, Typed
    <3> QED
      BY <3>1, BytesOfFirst
  <2> DEFINE whole == AtOnce(B)[n]
  <2>3. whole.rest \in Seq(Units(frames))
    BY <2>2, AtOnceSteps
  <2>4. n + Len(whole.rest) <= Len(B)
    BY <2>1 DEF SameAfter
  <2>5. IsAsAtOnce(n)
    BY <2>1 DEF SameAfter, IsAsAtOnce
  <2> HIDE DEF B, whole
  <2>6. n \in 0..Len(B)
    <3>1. Len(whole.rest) \in Nat /\ Len(B) \in Nat
      BY <2>2, <2>3, LenProperties
    <3> QED
      BY <2>4, <3>1
  <2> QED
    BY <2>5, <2>6 DEF ChunksDoNotMatter, B
<1> QED
  BY <1>1, Invariance, PTL

(* read_loop: every proper frame received whole has been answered to, in   *)
(* order, whatever its body is.                                            *)
THEOREM FramesArrive == Spec => []ProperFramesArrive
<1>1. Inv => ProperFramesArrive
  <2> SUFFICES ASSUME Inv, reader # "reading" \/ Decode(buf).what = "more",
                      NEW i \in 0..Len(frames), AllProper(frames, i),
                      Len(Bytes(frames)) - Len(unread) >= Len(Bytes(First(frames, i)))
               PROVE  IsPrefix(Meant(First(frames, i)), told)
    BY DEF ProperFramesArrive, AllProper, First
  <2> DEFINE U == Units(frames)
             R == Answers(frames)
             B == Bytes(frames)
  <2>1. /\ frames \in Streams /\ buf \in Seq(U) /\ unread \in Seq(U) /\ told \in Seq(R)
        /\ reader = "eof" => Decode(buf).what = "more"
    BY DEF Inv, Typed
  <2>2. Len(frames) \in Nat
    BY <2>1, StreamType
  <2>3. PICK k \in 0..Len(frames) :
          /\ AllProper(frames, k)
          /\ \/ Exactly(frames, buf \o unread, told, reader, k)
             \/ PastBroken(frames, told, k)
    BY DEF Inv, FrameByFrame
  <2>4. Meant(First(frames, i)) \in Seq(R) /\ Meant(First(frames, k)) \in Seq(R)
    BY <2>1, MeantOfFirst
  <2>5. ASSUME i <= k PROVE Begins(R, Meant(First(frames, i)), told)
    <3>1. Begins(R, Meant(First(frames, i)), Meant(First(frames, k)))
      BY <2>1, <2>5, MeantOfFirst
    <3>2. Begins(R, Meant(First(frames, k)), told)
      BY <2>3, <2>4, BeginsSame DEF Exactly, PastBroken
    <3> QED
      BY <2>4, <3>1, <3>2, BeginsTransitive
  <2>6. ASSUME ~(i <= k) PROVE FALSE
    <3> DEFINE m == k + 1
               frame == Frame(frames[m])
    <3>1. m \in 1..Len(frames) /\ m \in 1..i /\ m - 1 = k /\ m \in 0..Len(frames) /\ m <= i
      BY <2>2, <2>6
    <3>2. Proper(frames[m])
      BY <3>1 DEF AllProper
    <3>3. Exactly(frames, buf \o unread, told, reader, k)
      BY <2>3, <3>2 DEF PastBroken
    <3>4. Decode(buf).what = "more"
      BY <2>1, <3>3 DEF Exactly
    <3> DEFINE p == Bytes(First(frames, k))
               q == Bytes(First(frames, m))
               left == buf \o unread
    <3>5. B = p \o left
      BY <3>3 DEF Exactly
    <3>6. left \in Seq(U) /\ Len(left) = Len(buf) + Len(unread)
      BY <2>1, ConcatProperties
    <3>7. p \in Seq(U) /\ q \in Seq(U) /\ frame \in Seq(U) /\ frames[m].body \in Seq(U)
      BY <2>1, <3>1, BytesOfFirst, StreamType
    <3>8. q = p \o frame
      BY <2>1, <3>1, BytesOfFirst
    <3>9. Len(q) <= Len(Bytes(First(frames, i)))
      <4>1. Begins(U, q, Bytes(First(frames, i)))
        BY <2>1, <3>1, BytesOfFirst
      <4> HIDE DEF U, q
      <4> QED
        BY <3>7, <4>1, ConcatProperties, LenProperties DEF Begins
    <3>10. PICK w \in Seq(U) : left = frame \o w
      <4>1. Bytes(frames) = Bytes(First(frames, m - 1)) \o left
        BY <3>1, <3>5
      <4> QED
        BY <2>1, <3>1, <3>2, <3>6, <4>1, NextFrame
    <3>11. Len(frame) \in Nat /\ Len(frame) <= Len(buf)
      <4> HIDE DEF U, B, p, q, frame, left
      <4>1. Len(q) = Len(p) + Len(frame) /\ Len(B) = Len(p) + Len(left)
        BY <3>5, <3>6, <3>7, <3>8, ConcatProperties
      <4>2. /\ Len(p) \in Nat /\ Len(q) \in Nat /\ Len(frame) \in Nat /\ Len(left) \in Nat
            /\ Len(buf) \in Nat /\ Len(unread) \in Nat
        BY <2>1, <3>6, <3>7, LenProperties
      <4>3. Bytes(First(frames, i)) \in Seq(U)
        BY <2>1, BytesOfFirst DEF U
      <4>4. Len(Bytes(First(frames, i))) \in Nat
        BY <4>3, LenProperties
      <4>5. Len(B) - Len(unread) >= Len(Bytes(First(frames, i)))
        BY DEF B
      <4> QED
        BY <3>6, <3>9, <4>1, <4>2, <4>4, <4>5
    <3>12. \E y \in Seq(U) : buf = frame \o y
      <4> HIDE DEF U, frame
      <4>1. Begins(U, frame, buf)
        BY <2>1, <3>7, <3>10, <3>11, FrontOfConcat
      <4> QED
        BY <4>1 DEF Begins
    <3>13. PICK y \in Seq(U) : buf = frame \o y
      BY <3>12
    <3> HIDE DEF U, B, p, q, left, m
    <3>14. Finds(frame \o y, frames[m].body, y)
      BY <3>2, <3>7, FrameDecodes, Zenon
    <3> QED
      BY <3>4, <3>13, <3>14 DEF Finds
  <2> QED
    BY <2>1, <2>4, <2>5, <2>6, PrefixIs
<1> QED
  BY <1>1, Invariance, PTL

(* read_loop ends on an error of the decoder, or dies in it, only after a  *)
(* frame that is not proper.                                               *)
THEOREM OnlyBrokenStop == Spec => []OnlyBrokenFramesStop
<1>1. Inv => OnlyBrokenFramesStop
  <2> SUFFICES ASSUME Inv, reader \in {"error", "panic"}
               PROVE  \E i \in DOMAIN frames : ~Proper(frames[i])
    BY DEF OnlyBrokenFramesStop
  <2>1. PICK k \in 0..Len(frames) : PastBroken(frames, told, k)
    BY DEF Inv, FrameByFrame, Exactly
  <2>2. k + 1 \in DOMAIN frames
    BY <2>1, StreamType DEF Inv, Typed, PastBroken
  <2> QED
    BY <2>1, <2>2 DEF PastBroken
<1> QED
  BY <1>1, Invariance, PTL
=============================================================================
