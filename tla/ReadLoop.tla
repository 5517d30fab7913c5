------------------------------ MODULE ReadLoop ------------------------------
(***************************************************************************)
(* From the server's bytes to messages: read_loop of transport/mod.rs on   *)
(* the decoder (Codec).                                                    *)
(*                                                                         *)
(* Init fixes what the server writes: frames, each a header and a body.    *)
(* They arrive in chunks of any size.  Which call an answer belongs to is  *)
(* the business of Transport; here every message is an answer, to the call *)
(* it names, and `told` is what those calls return, Answer(m) for m.       *)
(***************************************************************************)
EXTENDS Codec

CONSTANTS
  Streams,    \* the sequences of frames [header, body] a server may write
  Answer(_)   \* what a call makes of its answer

Units(fs) == UNION {ToSet(fs[i].header) \cup ToSet(fs[i].body) : i \in DOMAIN fs}

ASSUME StreamsAssumption ==
  \A fs \in Streams : fs \in Seq([header : Seq(Units(fs)), body : Seq(Units(fs))])

VARIABLES
  frames,   \* what the server writes
  unread,   \* the bytes of it still in the pipe
  buf,      \* Decoder.buf
  reader,   \* "reading", or why it stopped: "eof", "error", "panic"
  told      \* what each answer made its call return

vars == <<frames, unread, buf, reader, told>>

Bytes(fs) == FlattenSeq([i \in DOMAIN fs |-> fs[i].header \o fs[i].body])

(* serde_json::from_slice: an object and white space, nothing else. *)
Parses(body) ==
  \E i, j \in Text(body) :
    /\ Text(body) = {i, j} /\ i < j
    /\ body[i].is = "open" /\ body[j] = Close(body[i].message)
Message(body) == Start(body).message

(* Mutant: the whole chunk is pushed, with what is in it past n. *)
WholeChunk(n) == SubSeq(unread, 1, n) \o <<NotUtf8>>

Chunk(n) == SubSeq(unread, 1, n)

(* What the body of a frame makes some call return: a body that is not     *)
(* JSON is skipped.                                                        *)
Told(body) == IF Parses(body) THEN <<Answer(Message(body))>> ELSE <<>>

Init ==
  /\ frames \in Streams
  /\ unread = Bytes(frames)
  /\ buf = <<>> /\ reader = "reading" /\ told = <<>>

(* reader.read: any number of the bytes that are there *)
Receive(n) ==
  /\ reader = "reading" /\ Decode(buf).what = "more"
  /\ n \in 1..Len(unread)
  /\ buf' = buf \o Chunk(n)
  /\ unread' = SubSeq(unread, n + 1, Len(unread))
  /\ UNCHANGED <<frames, reader, told>>

(* Mutant: a body that is not JSON ends the loop. *)
OnMessageStrict(body) ==
  IF Parses(body) THEN told' = told \o Told(body) /\ UNCHANGED reader
  ELSE reader' = "error" /\ UNCHANGED told

OnMessage(body) == told' = told \o Told(body) /\ UNCHANGED reader

Deliver ==
  LET d == Decode(buf) IN
  /\ reader = "reading" /\ d.what = "message"
  /\ OnMessage(d.body)
  /\ buf' = d.rest
  /\ UNCHANGED <<frames, unread>>

(* A frame that does not parse ends the loop; so does the panic. *)
Break ==
  LET d == Decode(buf) IN
  /\ reader = "reading" /\ d.what \in {"error", "panic"}
  /\ reader' = d.what
  /\ buf' = d.rest
  /\ UNCHANGED <<frames, unread, told>>

(* Ok(0) | Err(_): the server closed the pipe, or it broke. *)
Eof ==
  /\ reader = "reading" /\ Decode(buf).what = "more"
  /\ reader' = "eof"
  /\ UNCHANGED <<frames, unread, buf, told>>

Next == (\E n \in 1..Len(unread) : Receive(n)) \/ Deliver \/ Break \/ Eof

Spec == Init /\ [][Next]_vars

Answers(fs) == {Answer(unit.message) : unit \in {u \in Units(fs) : u.is = "open"}}

(* Nothing is in the buffer or the pipe but the end of what the server     *)
(* wrote, and nothing is told but an answer to a message in it.            *)
TypeOK ==
  /\ IsSuffix(buf \o unread, Bytes(frames))
  /\ reader \in {"reading", "eof", "error", "panic"}
  /\ told \in Seq(Answers(frames))

-----------------------------------------------------------------------------
(* A frame whose header is UTF-8, `key: value` lines only, the length its, *)
(* and whose size fits a usize.                                            *)
Proper(f) ==
  /\ f.header \o f.body \in {Encode(f.body), <<Header>> \o CrLf \o Encode(f.body)}
  /\ Len(f.header \o f.body) <= MaxUsize

(* The frames up to the first improper one. *)
Sound(fs) == SubSeq(fs, 1, Max({i \in 0..Len(fs) : \A j \in 1..i : Proper(fs[j])}))

(* What the messages of some frames are answered with. *)
Meant(fs) == FlattenSeq([i \in DOMAIN fs |-> Told(fs[i].body)])

(* The loop on a stream that is all there: what it has told, and what is   *)
(* left, after n messages.                                                 *)
AtOnce(bytes) ==
  LET after[n \in Nat] ==
        IF n = 0 THEN [told |-> <<>>, rest |-> bytes]
        ELSE LET last == after[n - 1]
                 d    == Decode(last.rest)
             IN  IF d.what = "message"
                 THEN [told |-> last.told \o Told(d.body), rest |-> d.rest] ELSE last
  IN  after

(* The loop is where that one is after n messages. *)
IsAsAtOnce(n) ==
  LET whole == AtOnce(Bytes(frames))[n] IN
  /\ told = whole.told
  /\ reader \in {"reading", "eof"} => buf \o unread = whole.rest
  /\ reader \in {"error", "panic"} => Decode(whole.rest).what = reader

(* However the bytes of a stream are split over reads, the loop is where   *)
(* it would be had they come in one read: it has told the same, the same   *)
(* is left, and it stops where that one stops, improper frames included.   *)
ChunksDoNotMatter == \E n \in 0..Len(Bytes(frames)) : IsAsAtOnce(n)

(* Every proper frame that was received whole, up to the first improper    *)
(* one, has been answered to, once and in order: a body that is not JSON,  *)
(* or has a blank line in it, loses no later one.                          *)
ProperFramesArrive ==
  reader # "reading" \/ Decode(buf).what = "more" =>
    \A i \in 0..Len(frames) :
      LET first == SubSeq(frames, 1, i) IN
      (\A j \in 1..i : Proper(frames[j]))
        /\ Len(Bytes(frames)) - Len(unread) >= Len(Bytes(first))
      => IsPrefix(Meant(first), told)

(* The connection is given up, or its reader dies, only after a frame that *)
(* was not proper.                                                         *)
OnlyBrokenFramesStop ==
  reader \in {"error", "panic"} => \E i \in DOMAIN frames : ~Proper(frames[i])
=============================================================================
