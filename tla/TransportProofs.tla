-------------------------- MODULE TransportProofs --------------------------
(***************************************************************************)
(* Proofs about Transport: the invariants of the connection hold for any   *)
(* number of calls and of requests of the server, any capacity of the      *)
(* pipes, and a server that does or does not read while it writes.         *)
(*                                                                         *)
(* The inductive invariant follows a request number from the counter to    *)
(* the answer: every message about the request under way, wherever it is,  *)
(* carries that request's own number; and it follows the requests of the   *)
(* server the other way, from its counter through the two pipes.           *)
(***************************************************************************)
EXTENDS Transport, SequenceLemmas

(* The writer mutex is held exactly by the thread that is writing. *)
MutexHeld ==
  /\ (caller = "writing") <=> (writer = "caller")
  /\ (reader = "writing") <=> (writer = "reader")

(* The call record describes the operation under way, or the last one. *)
CallKnown ==
  /\ nextId <= calls
  /\ pending \subseteq 1..nextId
  /\ leaked \subseteq 1..nextId
  /\ caller # "idle" => call.op # "none"
  /\ caller = "waiting" => call.op = "request"
  /\ call.op = "request" => call.id = nextId /\ nextId \in Id /\ call.no \in Id
  /\ call.op # "request" => call.id = 0

(* With the process its end of the pipes is gone. *)
ExitedIsSilent == ~alive => stdin = <<>> /\ owed = {} /\ emitting = <<>>

(* A message about request id, when it is the one under way, is about this call. *)
OwnNo(id, no) ==
  /\ id <= nextId
  /\ call.op = "request" /\ id = call.id => no = call.no

MessagesOwn(s, kind) ==
  \A i \in 1..Len(s) : s[i].kind = kind => OwnNo(s[i].id, s[i].no)

OwnEverywhere ==
  /\ MessagesOwn(stdin, "request")
  /\ \A r \in owed : OwnNo(r.id, r.no)
  /\ MessagesOwn(emitting, "response")
  /\ MessagesOwn(stdout, "response")
  /\ call.op = "request" /\ rx \in Id => rx = call.no

(* The request under way is registered as long as its channel is empty. *)
Registered ==
  caller # "idle" /\ call.op = "request" => (call.id \in pending <=> rx = NoAnswer)

(* The server's requests that are in the pipe or read. *)
EmittingAsk == emitting # <<>> /\ emitting[1].kind = "ask"
AsksSent == IF EmittingAsk THEN asks - 1 ELSE asks

(* What the reader has still to read is what it was asked after replyTo. *)
AsksInOrder ==
  /\ EmittingAsk => emitting[1].id = asks
  /\ alive /\ reader # "dead" => InOrder(stdout, "ask", replyTo, AsksSent)

Inv ==
  /\ TypeOK
  /\ MutexHeld
  /\ CallKnown
  /\ ExitedIsSilent
  /\ OwnEverywhere
  /\ Registered
  /\ OnlyLivePending
  /\ AnswerIsOwn
  /\ AsksInOrder
  /\ RepliesInOrder

----------------------------------------------------------------------------
(* What queueing in order gives: the next message of the kind at the end,  *)
(* one of another kind anywhere, and the first of the kind taken off.      *)
LEMMA InOrderAppend ==
  ASSUME NEW s, NEW t, Len(s) \in Nat, Len(t) = Len(s) + 1,
         \A i \in 1..Len(s) : t[i] = s[i],
         NEW kind, NEW lo \in Int, NEW hi \in Int, InOrder(s, kind, lo, hi)
  PROVE  /\ t[Len(t)].kind = kind /\ t[Len(t)].id = hi + 1 => InOrder(t, kind, lo, hi + 1)
         /\ t[Len(t)].kind # kind => InOrder(t, kind, lo, hi)
<1>1. CASE t[Len(t)].kind = kind /\ t[Len(t)].id = hi + 1
  <2>1. \A i \in 1..Len(t) : t[i].kind = kind => t[i].id \in (lo + 1)..(hi + 1)
    BY <1>1, SMTT(60) DEF InOrder
  <2>2. \A i, j \in 1..Len(t) :
          i < j /\ t[i].kind = kind /\ t[j].kind = kind => t[i].id < t[j].id
    <3> SUFFICES ASSUME NEW i \in 1..Len(t), NEW j \in 1..Len(t),
                        i < j, t[i].kind = kind, t[j].kind = kind
                 PROVE  t[i].id < t[j].id
      OBVIOUS
    <3>1. i \in 1..Len(s) /\ t[i] = s[i] /\ s[i].id \in (lo + 1)..hi
      BY DEF InOrder
    <3>2. CASE j = Len(t)
      BY <1>1, <3>1, <3>2
    <3>3. CASE j # Len(t)
      <4>1. j \in 1..Len(s) /\ t[j] = s[j]
        BY <3>3
      <4> QED
        BY <3>1, <4>1 DEF InOrder
    <3> QED
      BY <3>2, <3>3
  <2>3. \A a \in (lo + 1)..(hi + 1) : \E i \in 1..Len(t) : t[i].kind = kind /\ t[i].id = a
    <3>1. ASSUME NEW a \in (lo + 1)..(hi + 1), a # hi + 1
          PROVE  \E i \in 1..Len(t) : t[i].kind = kind /\ t[i].id = a
      <4>1. PICK i \in 1..Len(s) : s[i].kind = kind /\ s[i].id = a
        BY <3>1 DEF InOrder
      <4> QED
        BY <4>1
    <3> QED
      BY <1>1, <3>1
  <2> QED
    BY <1>1, <2>1, <2>2, <2>3 DEF InOrder
<1>2. CASE t[Len(t)].kind # kind
  <2>0. \A i \in 1..Len(t) : t[i].kind = kind => i \in 1..Len(s) /\ t[i] = s[i]
    BY <1>2
  <2>1. \A a \in (lo + 1)..hi : \E i \in 1..Len(t) : t[i].kind = kind /\ t[i].id = a
    <3> TAKE a \in (lo + 1)..hi
    <3>1. PICK i \in 1..Len(s) : s[i].kind = kind /\ s[i].id = a
      BY DEF InOrder
    <3> QED
      BY <3>1
  <2> QED
    BY <1>2, <2>0, <2>1 DEF InOrder
<1> QED
  BY <1>1, <1>2, Zenon

LEMMA InOrderTail ==
  ASSUME NEW S, NEW s \in Seq(S), s # <<>>,
         NEW kind, NEW lo \in Int, NEW hi \in Int, InOrder(s, kind, lo, hi)
  PROVE  /\ Head(s).kind = kind =>
              Head(s).id = lo + 1 /\ lo < hi /\ InOrder(Tail(s), kind, lo + 1, hi)
         /\ Head(s).kind # kind => InOrder(Tail(s), kind, lo, hi)
<1>1. /\ Head(s) = s[1] /\ Len(s) \in Nat /\ Len(s) >= 1 /\ Len(Tail(s)) = Len(s) - 1
      /\ \A i \in 1..Len(Tail(s)) : Tail(s)[i] = s[i + 1]
  BY TailIndex
<1>2. \A i, j \in 1..Len(Tail(s)) :
        i < j /\ Tail(s)[i].kind = kind /\ Tail(s)[j].kind = kind
          => Tail(s)[i].id < Tail(s)[j].id
  BY <1>1 DEF InOrder
<1>3. CASE s[1].kind = kind
  <2>1. s[1].id \in (lo + 1)..hi
    BY <1>1, <1>3 DEF InOrder
  <2>2. \A i \in 2..Len(s) : s[i].kind = kind => s[i].id > s[1].id
    BY <1>1, <1>3, <2>1 DEF InOrder
  <2>3. s[1].id = lo + 1
    <3>1. PICK i \in 1..Len(s) : s[i].kind = kind /\ s[i].id = lo + 1
      BY <2>1 DEF InOrder
    <3> QED
      BY <1>1, <2>1, <2>2, <3>1
  <2>4. \A i \in 1..Len(Tail(s)) :
          Tail(s)[i].kind = kind => Tail(s)[i].id \in (lo + 2)..hi
    <3> SUFFICES ASSUME NEW i \in 1..Len(Tail(s)), s[i + 1].kind = kind
                 PROVE  s[i + 1].id \in (lo + 2)..hi
      BY <1>1
    <3>1. s[i + 1].id \in (lo + 1)..hi
      BY <1>1 DEF InOrder
    <3> QED
      BY <1>1, <2>2, <2>3, <3>1
  <2>5. \A a \in (lo + 2)..hi :
          \E i \in 1..Len(Tail(s)) : Tail(s)[i].kind = kind /\ Tail(s)[i].id = a
    <3> TAKE a \in (lo + 2)..hi
    <3>1. PICK i \in 1..Len(s) : s[i].kind = kind /\ s[i].id = a
      BY DEF InOrder
    <3>2. i # 1 /\ i - 1 \in 1..Len(Tail(s)) /\ Tail(s)[i - 1] = s[i]
      BY <1>1, <2>3, <3>1
    <3> QED
      BY <3>1, <3>2
  <2> QED
    BY <1>1, <1>2, <1>3, <2>1, <2>3, <2>4, <2>5 DEF InOrder
<1>4. CASE s[1].kind # kind
  <2>1. \A a \in (lo + 1)..hi :
          \E i \in 1..Len(Tail(s)) : Tail(s)[i].kind = kind /\ Tail(s)[i].id = a
    <3> TAKE a \in (lo + 1)..hi
    <3>1. PICK i \in 1..Len(s) : s[i].kind = kind /\ s[i].id = a
      BY DEF InOrder
    <3>2. i # 1 /\ i - 1 \in 1..Len(Tail(s)) /\ Tail(s)[i - 1] = s[i]
      BY <1>1, <1>4, <3>1
    <3> QED
      BY <3>1, <3>2
  <2>2. \A i \in 1..Len(Tail(s)) :
          Tail(s)[i].kind = kind => Tail(s)[i].id \in (lo + 1)..hi
    BY <1>1 DEF InOrder
  <2> QED
    BY <1>1, <1>2, <1>4, <2>1, <2>2 DEF InOrder
<1> QED
  BY <1>1, <1>3, <1>4

(* What the fields of a message are, by its kind. *)
LEMMA MessageKinds ==
  /\ \A i, n \in Id : Request(i, n) \in ToServer /\ Response(i, n) \in ToClient
  /\ \A a \in 1..MaxAsks : Reply(a) \in ToServer /\ ServerAsk(a) \in ToClient
  /\ Note \in ToServer /\ Noise \in ToClient /\ Unframed \in ToClient
  /\ \A m \in ToServer : m.kind = "request" => m.id \in Id /\ m.no \in Id
  /\ \A m \in ToServer : m.kind = "reply" => m.id \in 1..MaxAsks
  /\ \A m \in ToClient : m.kind = "response" => m.id \in Id /\ m.no \in Id
  /\ \A m \in ToClient : m.kind = "ask" => m.id \in 1..MaxAsks
<1>1. /\ \A i, n \in Id : Request(i, n) \in ToServer
      /\ \A a \in 1..MaxAsks : Reply(a) \in ToServer
      /\ Note \in ToServer
  BY DEF ToServer
<1>2. /\ \A i, n \in Id : Response(i, n) \in ToClient
      /\ \A a \in 1..MaxAsks : ServerAsk(a) \in ToClient
      /\ Noise \in ToClient /\ Unframed \in ToClient
  BY DEF ToClient
<1>3. ASSUME NEW m \in ToServer
      PROVE  /\ m.kind = "request" => m.id \in Id /\ m.no \in Id
             /\ m.kind = "reply" => m.id \in 1..MaxAsks
  BY DEF ToServer, Request, Reply, Note
<1>4. ASSUME NEW m \in ToClient
      PROVE  /\ m.kind = "response" => m.id \in Id /\ m.no \in Id
             /\ m.kind = "ask" => m.id \in 1..MaxAsks
  BY DEF ToClient, Response, ServerAsk, Noise, Unframed
<1> QED
  BY <1>1, <1>2, <1>3, <1>4

----------------------------------------------------------------------------
(* Every step keeps the types.  The counters stay below their bounds       *)
(* because a reply read answers a request of the server not yet            *)
(* acknowledged, and a fresh id is the number of a call.                   *)
LEMMA TypeStep ==
  ASSUME Inv, [Next]_vars
  PROVE  TypeOK'
<1> USE BoundsAssumption, SizeAssumption, MessageKinds
<1> TypeOK
  BY DEF Inv
<1>1. CASE StartRequest
  BY <1>1 DEF StartRequest, TypeOK, Inv, CallKnown, FreshId, Id, Hangup, NoAnswer, readerVars,
              serverVars, pipeVars
<1>2. CASE StartNotify
  BY <1>2 DEF StartNotify, TypeOK, readerVars, serverVars, pipeVars
<1>3. CASE CallerLocks
  BY <1>3 DEF CallerLocks, TypeOK, readerVars, serverVars, pipeVars
<1>4. CASE CallerWrites
  <2>1. (IF call.op = "notify" THEN Note ELSE Request(call.id, call.no)) \in ToServer
    BY <1>4 DEF CallerWrites, Inv, CallKnown, TypeOK
  <2>2. stdin' \in Seq(ToServer) /\ Len(stdin') <= StdinSize
    BY <1>4, <2>1, AppendIndex, SMTT(60) DEF CallerWrites, TypeOK
  <2> QED
    BY <1>4, <2>2 DEF CallerWrites, Return, TypeOK, readerVars, serverVars
<1>5. CASE CallerWriteFails
  <2>1. leaked' \subseteq Id
    BY <1>5 DEF CallerWriteFails, Inv, CallKnown, TypeOK
  <2>2. outcome' = [kind |-> "unwritable", no |-> call.no, of |-> 0] /\ caller' = "idle"
    BY <1>5 DEF CallerWriteFails, Return
  <2> QED
    BY <1>5, <2>1, <2>2 DEF CallerWriteFails, TypeOK, readerVars, serverVars, pipeVars
<1>6. CASE CallerAnswered
  BY <1>6 DEF CallerAnswered, Return, TypeOK, Id, readerVars, serverVars, pipeVars
<1>7. CASE CallerHungUp
  BY <1>7 DEF CallerHungUp, Return, TypeOK, readerVars, serverVars, pipeVars
<1>8. CASE CallerExpires \/ CallerTimesOut
  <2>1. CASE CallerExpires
    BY <2>1 DEF CallerExpires, TypeOK, readerVars, serverVars, pipeVars
  <2>2. CASE CallerTimesOut
    BY <2>2 DEF CallerTimesOut, PendingAfterTimeout, Return, TypeOK, readerVars, serverVars,
                pipeVars
  <2> QED
    BY <1>8, <2>1, <2>2
<1>9. CASE ReadResponse
  <2>1. stdout' \in Seq(ToClient) /\ Len(stdout') <= StdoutSize /\ Head(stdout).no \in Id
    BY <1>9, TailIndex DEF ReadResponse, Reads, TypeOK
  <2>2. rx' \in 0..Hangup
    BY <1>9, <2>1 DEF ReadResponse, TypeOK, Id, Hangup
  <2>3. pending' \subseteq Id
    BY <1>9 DEF ReadResponse, TypeOK
  <2> QED
    BY <1>9, <2>1, <2>2, <2>3 DEF ReadResponse, TypeOK, readerVars, serverVars
<1>10. CASE ReadNoise
  <2>1. stdout' \in Seq(ToClient) /\ Len(stdout') <= StdoutSize
    BY <1>10, TailIndex DEF ReadNoise, Reads, TypeOK
  <2> QED
    BY <1>10, <2>1 DEF ReadNoise, TypeOK, clientVars, readerVars, serverVars
<1>11. CASE ReadAsk
  <2>1. stdout' \in Seq(ToClient) /\ Len(stdout') <= StdoutSize /\ Head(stdout).id \in 1..MaxAsks
    BY <1>11, TailIndex DEF ReadAsk, Reads, TypeOK
  <2> QED
    BY <1>11, <2>1, SMTT(60) DEF ReadAsk, EchoedId, TypeOK, clientVars, serverVars
<1>12. CASE ReaderLocks
  BY <1>12 DEF ReaderLocks, TypeOK, clientVars, serverVars, pipeVars
<1>13. CASE ReaderReplies
  <2>1. alive => replyTo \in 1..MaxAsks
    BY <1>13 DEF ReaderReplies, Inv, RepliesInOrder, Replied, InOrder, TypeOK
  <2>2. stdin' \in Seq(ToServer) /\ Len(stdin') <= StdinSize
    <3>1. CASE alive
      <4>1. Reply(replyTo) \in ToServer
        BY <2>1, <3>1
      <4>2. stdin' = Append(stdin, Reply(replyTo)) /\ Len(stdin) < StdinSize
        BY <1>13, <3>1 DEF ReaderReplies
      <4> QED
        BY <4>1, <4>2, AppendIndex DEF TypeOK
    <3>2. CASE ~alive
      BY <1>13, <3>2 DEF ReaderReplies, TypeOK
    <3> QED
      BY <3>1, <3>2
  <2> QED
    BY <1>13, <2>2 DEF ReaderReplies, TypeOK, clientVars, serverVars
<1>14. CASE ReadEnds \/ ReadPanics
  BY <1>14 DEF ReadEnds, ReadPanics, TypeOK, clientVars, serverVars, pipeVars
<1>15. CASE ClearPending
  BY <1>15 DEF ClearPending, PendingAfterEnd, TypeOK, Hangup, serverVars, pipeVars
<1>16. CASE ServerReads
  <2>1. /\ stdin # <<>> /\ alive /\ stdin' = Tail(stdin)
        /\ Tail(stdin) \in Seq(ToServer) /\ Len(Tail(stdin)) <= StdinSize
        /\ Head(stdin) \in ToServer
    BY <1>16, TailIndex DEF ServerReads, ServerMayRead, TypeOK
  <2>2. owed' \subseteq [id : Id, no : Id]
    BY <1>16, <2>1 DEF ServerReads, TypeOK
  <2>3. acked' \in 0..MaxAsks
    <3>1. acked \in Int /\ Replied \in Int /\ Replied <= MaxAsks
      BY DEF TypeOK, Replied
    <3>2. Head(stdin).kind = "reply" => acked < Replied
      BY <2>1, <3>1, InOrderTail DEF Inv, RepliesInOrder, TypeOK
    <3> QED
      BY <1>16, <3>1, <3>2 DEF ServerReads, TypeOK
  <2> QED
    BY <1>16, <2>1, <2>2, <2>3 DEF ServerReads, TypeOK, clientVars, readerVars
<1>17. CASE ServerEmits
  <2>1. PICK m \in ToClient : emitting' = <<m>>
    BY <1>17 DEF ServerEmits, TypeOK
  <2>2. emitting' \in Seq(ToClient) /\ Len(emitting') <= 1
    BY <2>1
  <2> QED
    BY <1>17, <2>2 DEF ServerEmits, TypeOK, clientVars, readerVars, pipeVars
<1>18. CASE ServerWrites
  <2>1. stdout' \in Seq(ToClient) /\ Len(stdout') <= StdoutSize
    <3>1. CASE reader = "dead"
      BY <1>18, <3>1 DEF ServerWrites, TypeOK
    <3>2. CASE reader # "dead"
      <4>1. stdout' = stdout \o emitting /\ Len(stdout) < StdoutSize /\ emitting # <<>>
        BY <1>18, <3>2 DEF ServerWrites
      <4> QED
        BY <4>1, ConcatOne DEF TypeOK
    <3> QED
      BY <3>1, <3>2
  <2>2. emitting' \in Seq(ToClient) /\ Len(emitting') <= 1
    BY <1>18 DEF ServerWrites
  <2> QED
    BY <1>18, <2>1, <2>2 DEF ServerWrites, TypeOK, clientVars, readerVars
<1>19. CASE ServerExits
  <2>1. /\ stdin' \in Seq(ToServer) /\ Len(stdin') <= StdinSize
        /\ emitting' \in Seq(ToClient) /\ Len(emitting') <= 1
    BY <1>19 DEF ServerExits
  <2> QED
    BY <1>19, <2>1 DEF ServerExits, TypeOK, clientVars, readerVars
<1>20. CASE UNCHANGED vars
  BY <1>20 DEF vars, TypeOK, clientVars, readerVars, serverVars, pipeVars
<1> QED
  BY <1>1, <1>2, <1>3, <1>4, <1>5, <1>6, <1>7, <1>8, <1>9, <1>10, <1>11, <1>12, <1>13,
     <1>14, <1>15, <1>16, <1>17, <1>18, <1>19, <1>20 DEF Next, CallerStep, ReaderStep

----------------------------------------------------------------------------
(* Locking, registering and exiting: the parts of the invariant that do    *)
(* not look into the queues.                                               *)
LEMMA MutexStep ==
  ASSUME Inv, [Next]_vars
  PROVE  MutexHeld'
<1> MutexHeld
  BY DEF Inv
<1>1. CASE CallerStep
  BY <1>1 DEF CallerStep, CallerLocks, CallerWrites, CallerWriteFails, CallerAnswered,
              CallerHungUp, CallerExpires, CallerTimesOut, Return, MutexHeld, readerVars
<1>2. CASE ReaderLocks \/ ReaderReplies
  BY <1>2 DEF ReaderLocks, ReaderReplies, MutexHeld, clientVars
<1>5. CASE ReadResponse \/ ReadNoise \/ ReadAsk \/ ReadEnds \/ ReadPanics \/ ClearPending
  BY <1>5 DEF ReadResponse, ReadNoise, ReadAsk, ReadEnds, ReadPanics, ClearPending, Reads,
              MutexHeld, clientVars, readerVars
<1>3. CASE StartRequest \/ StartNotify
  BY <1>3 DEF StartRequest, StartNotify, MutexHeld, readerVars
<1>4. CASE ServerReads \/ ServerEmits \/ ServerWrites \/ ServerExits \/ UNCHANGED vars
  BY <1>4 DEF ServerReads, ServerEmits, ServerWrites, ServerExits, vars, clientVars, readerVars,
              MutexHeld
<1> QED
  BY <1>1, <1>2, <1>3, <1>4, <1>5 DEF Next, ReaderStep

LEMMA CallStep ==
  ASSUME Inv, [Next]_vars
  PROVE  CallKnown'
<1> CallKnown /\ TypeOK
  BY DEF Inv
<1> USE BoundsAssumption
<1>1. CASE StartRequest
  BY <1>1 DEF StartRequest, FreshId, CallKnown, TypeOK, Id
<1>2. CASE StartNotify
  BY <1>2 DEF StartNotify, CallKnown, TypeOK
<1>3. CASE CallerLocks \/ CallerWrites
  BY <1>3 DEF CallerLocks, CallerWrites, Return, CallKnown, TypeOK
<1>4. CASE CallerWriteFails
  <2>1. call.op = "request" => call.id \in 1..nextId
    BY DEF CallKnown, Id
  <2>2. leaked' \subseteq 1..nextId
    BY <1>4, <2>1 DEF CallerWriteFails, CallKnown
  <2> QED
    BY <1>4, <2>2 DEF CallerWriteFails, Return, CallKnown
<1>5. CASE CallerAnswered \/ CallerHungUp
  BY <1>5 DEF CallerAnswered, CallerHungUp, Return, CallKnown
<1>6. CASE CallerExpires \/ CallerTimesOut
  BY <1>6 DEF CallerExpires, CallerTimesOut, PendingAfterTimeout, Return, CallKnown
<1>7. CASE ReadResponse \/ ClearPending
  <2>1. UNCHANGED <<nextId, calls, leaked, call, caller>> /\ pending' \subseteq pending
    BY <1>7 DEF ReadResponse, ClearPending, PendingAfterEnd
  <2> QED
    BY <2>1 DEF CallKnown
<1>8. CASE \/ ReadNoise \/ ReadAsk \/ ReaderLocks \/ ReaderReplies \/ ReadEnds \/ ReadPanics
           \/ ServerReads \/ ServerEmits \/ ServerWrites \/ ServerExits \/ UNCHANGED vars
  <2>1. UNCHANGED clientVars
    BY <1>8 DEF ReadNoise, ReadAsk, ReaderLocks, ReaderReplies, ReadEnds, ReadPanics, ServerReads,
                ServerEmits, ServerWrites, ServerExits, vars
  <2> QED
    BY <2>1 DEF clientVars, CallKnown
<1> QED
  BY <1>1, <1>2, <1>3, <1>4, <1>5, <1>6, <1>7, <1>8 DEF Next, CallerStep, ReaderStep

LEMMA SilentStep ==
  ASSUME Inv, [Next]_vars
  PROVE  ExitedIsSilent'
<1> ExitedIsSilent
  BY DEF Inv
<1>1. CASE StartRequest \/ StartNotify \/ CallerStep
  BY <1>1 DEF StartRequest, StartNotify, CallerStep, CallerLocks, CallerWrites,
              CallerWriteFails, CallerAnswered, CallerHungUp, CallerExpires, CallerTimesOut,
              serverVars, pipeVars, ExitedIsSilent
<1>2. CASE ReaderStep
  BY <1>2 DEF ReaderStep, ReadResponse, ReadNoise, ReadAsk, ReaderLocks, ReaderReplies,
              ReadEnds, ReadPanics, ClearPending, serverVars, pipeVars, ExitedIsSilent
<1>3. CASE ServerReads \/ ServerEmits \/ ServerWrites \/ ServerExits \/ UNCHANGED vars
  BY <1>3 DEF ServerReads, ServerMayRead, ServerEmits, ServerWrites, ServerExits, vars,
              serverVars, pipeVars, ExitedIsSilent
<1> QED
  BY <1>1, <1>2, <1>3 DEF Next

(* An answer, a hang-up and nothing else fill the channel of the request   *)
(* under way, and each unregisters it.                                     *)
LEMMA RegisteredStep ==
  ASSUME Inv, [Next]_vars
  PROVE  Registered'
<1> Registered /\ TypeOK /\ CallKnown
  BY DEF Inv
<1> USE BoundsAssumption
<1>1. CASE StartRequest
  BY <1>1 DEF StartRequest, Registered
<1>2. CASE StartNotify
  BY <1>2 DEF StartNotify, Registered
<1>3. CASE CallerStep
  BY <1>3 DEF CallerStep, CallerLocks, CallerWrites, CallerWriteFails, CallerAnswered,
              CallerHungUp, CallerExpires, CallerTimesOut, Return, Registered
<1>4. CASE ReadResponse
  <2>1. Head(stdout).no # NoAnswer
    BY <1>4, TailIndex, MessageKinds DEF ReadResponse, Reads, TypeOK, Id, NoAnswer
  <2> QED
    BY <1>4, <2>1 DEF ReadResponse, Claimed, Registered
<1>5. CASE ClearPending
  BY <1>5 DEF ClearPending, PendingAfterEnd, Registered, Hangup, NoAnswer
<1>6. CASE \/ ReadNoise \/ ReadAsk \/ ReaderLocks \/ ReaderReplies \/ ReadEnds \/ ReadPanics
           \/ ServerReads \/ ServerEmits \/ ServerWrites \/ ServerExits \/ UNCHANGED vars
  BY <1>6 DEF ReadNoise, ReadAsk, ReaderLocks, ReaderReplies, ReadEnds, ReadPanics, ServerReads,
              ServerEmits, ServerWrites, ServerExits, vars, clientVars, Registered
<1> QED
  BY <1>1, <1>2, <1>3, <1>4, <1>5, <1>6 DEF Next, ReaderStep

LEMMA LivePendingStep ==
  ASSUME Inv, [Next]_vars
  PROVE  OnlyLivePending'
<1> OnlyLivePending /\ Registered /\ TypeOK /\ CallKnown
  BY DEF Inv
<1> USE BoundsAssumption
<1>1. CASE StartRequest
  BY <1>1 DEF StartRequest, OnlyLivePending
<1>2. CASE StartNotify
  BY <1>2 DEF StartNotify, OnlyLivePending
<1>3. CASE CallerLocks \/ CallerExpires
  BY <1>3 DEF CallerLocks, CallerExpires, OnlyLivePending
<1>4. CASE CallerWrites
  BY <1>4 DEF CallerWrites, Return, OnlyLivePending, CallKnown
<1>5. CASE CallerWriteFails
  BY <1>5 DEF CallerWriteFails, Return, OnlyLivePending
<1>6. CASE CallerAnswered \/ CallerHungUp
  <2>1. rx # NoAnswer
    BY <1>6 DEF CallerAnswered, CallerHungUp, Hangup, NoAnswer, Id
  <2>2. call.id \notin pending
    BY <1>6, <2>1 DEF CallerAnswered, CallerHungUp, Registered, CallKnown
  <2> QED
    BY <1>6, <2>2 DEF CallerAnswered, CallerHungUp, Return, OnlyLivePending
<1>7. CASE CallerTimesOut
  BY <1>7 DEF CallerTimesOut, PendingAfterTimeout, Return, OnlyLivePending
<1>8. CASE ReadResponse \/ ClearPending
  BY <1>8 DEF ReadResponse, ClearPending, PendingAfterEnd, OnlyLivePending
<1>9. CASE \/ ReadNoise \/ ReadAsk \/ ReaderLocks \/ ReaderReplies \/ ReadEnds \/ ReadPanics
           \/ ServerReads \/ ServerEmits \/ ServerWrites \/ ServerExits \/ UNCHANGED vars
  BY <1>9 DEF ReadNoise, ReadAsk, ReaderLocks, ReaderReplies, ReadEnds, ReadPanics, ServerReads,
              ServerEmits, ServerWrites, ServerExits, vars, clientVars, OnlyLivePending
<1> QED
  BY <1>1, <1>2, <1>3, <1>4, <1>5, <1>6, <1>7, <1>8, <1>9 DEF Next, CallerStep, ReaderStep

(* The answer a request returns with is the one in its channel. *)
LEMMA AnswerStep ==
  ASSUME Inv, [Next]_vars
  PROVE  AnswerIsOwn'
<1> AnswerIsOwn
  BY DEF Inv
<1>1. CASE CallerAnswered
  BY <1>1 DEF CallerAnswered, Return, AnswerIsOwn, Inv, OwnEverywhere, CallKnown
<1>2. CASE CallerWrites \/ CallerWriteFails \/ CallerHungUp \/ CallerExpires \/ CallerTimesOut
  BY <1>2 DEF CallerWrites, CallerWriteFails, CallerHungUp, CallerExpires, CallerTimesOut,
              Return, AnswerIsOwn
<1>3. CASE StartRequest \/ StartNotify \/ CallerLocks
  BY <1>3 DEF StartRequest, StartNotify, CallerLocks, AnswerIsOwn
<1>4. CASE ReaderStep
  BY <1>4 DEF ReaderStep, ReadResponse, ReadNoise, ReadAsk, ReaderLocks, ReaderReplies,
              ReadEnds, ReadPanics, ClearPending, clientVars, AnswerIsOwn
<1>5. CASE ServerReads \/ ServerEmits \/ ServerWrites \/ ServerExits \/ UNCHANGED vars
  BY <1>5 DEF ServerReads, ServerEmits, ServerWrites, ServerExits, vars, clientVars, AnswerIsOwn
<1> QED
  BY <1>1, <1>2, <1>3, <1>4, <1>5 DEF Next, CallerStep

----------------------------------------------------------------------------
(* Every message about the request under way is about this very call.      *)
LEMMA OwnTail ==
  ASSUME NEW S, NEW s \in Seq(S), s # <<>>, NEW kind, MessagesOwn(s, kind)
  PROVE  /\ MessagesOwn(Tail(s), kind)
         /\ Head(s).kind = kind => OwnNo(Head(s).id, Head(s).no)
  BY TailIndex DEF MessagesOwn

LEMMA OwnAppend ==
  ASSUME NEW s, NEW t, Len(s) \in Nat, Len(t) = Len(s) + 1,
         \A i \in 1..Len(s) : t[i] = s[i],
         NEW kind, MessagesOwn(s, kind),
         t[Len(t)].kind = kind => OwnNo(t[Len(t)].id, t[Len(t)].no)
  PROVE  MessagesOwn(t, kind)
  BY DEF MessagesOwn

(* Numbers stay one's own while the call stays, and when a fresh one begins. *)
LEMMA OwnNoStep ==
  ASSUME Inv, UNCHANGED <<nextId, call>> \/ StartRequest \/ StartNotify
  PROVE  \A id \in Id : \A no : OwnNo(id, no) => OwnNo(id, no)'
<1> TAKE id \in Id
<1> TAKE no
<1>1. CASE UNCHANGED <<nextId, call>>
  BY <1>1 DEF OwnNo
<1>2. CASE StartRequest
  BY <1>2 DEF StartRequest, FreshId, OwnNo, Inv, TypeOK, Id
<1>3. CASE StartNotify
  BY <1>3 DEF StartNotify, OwnNo
<1> QED
  BY <1>1, <1>2, <1>3

LEMMA OwnQueuesStep ==
  ASSUME Inv, UNCHANGED <<nextId, call>> \/ StartRequest \/ StartNotify
  PROVE  /\ UNCHANGED stdin => MessagesOwn(stdin, "request")'
         /\ UNCHANGED owed => (\A r \in owed : OwnNo(r.id, r.no))'
         /\ UNCHANGED emitting => MessagesOwn(emitting, "response")'
         /\ UNCHANGED stdout => MessagesOwn(stdout, "response")'
<1> OwnEverywhere /\ TypeOK
  BY DEF Inv
<1>1. \A i \in 1..Len(stdin) :
        stdin[i].kind = "request" => stdin[i].id \in Id /\ OwnNo(stdin[i].id, stdin[i].no)
  BY ElementOfSeq, MessageKinds DEF TypeOK, OwnEverywhere, MessagesOwn
<1>2. \A i \in 1..Len(stdout) :
        stdout[i].kind = "response" => stdout[i].id \in Id /\ OwnNo(stdout[i].id, stdout[i].no)
  BY ElementOfSeq, MessageKinds DEF TypeOK, OwnEverywhere, MessagesOwn
<1>3. \A i \in 1..Len(emitting) :
        emitting[i].kind = "response"
          => emitting[i].id \in Id /\ OwnNo(emitting[i].id, emitting[i].no)
  BY ElementOfSeq, MessageKinds DEF TypeOK, OwnEverywhere, MessagesOwn
<1>4. \A r \in owed : r.id \in Id /\ OwnNo(r.id, r.no)
  BY DEF TypeOK, OwnEverywhere
<1>5. ASSUME UNCHANGED stdin PROVE MessagesOwn(stdin, "request")'
  BY <1>1, <1>5, OwnNoStep DEF MessagesOwn, OwnNo
<1>6. ASSUME UNCHANGED stdout PROVE MessagesOwn(stdout, "response")'
  BY <1>2, <1>6, OwnNoStep DEF MessagesOwn, OwnNo
<1>7. ASSUME UNCHANGED emitting PROVE MessagesOwn(emitting, "response")'
  BY <1>3, <1>7, OwnNoStep DEF MessagesOwn, OwnNo
<1>8. ASSUME UNCHANGED owed PROVE (\A r \in owed : OwnNo(r.id, r.no))'
  BY <1>4, <1>8, OwnNoStep DEF OwnNo
<1> QED
  BY <1>5, <1>6, <1>7, <1>8

LEMMA OwnStep ==
  ASSUME Inv, [Next]_vars
  PROVE  OwnEverywhere'
<1> OwnEverywhere /\ TypeOK /\ CallKnown
  BY DEF Inv
<1>1. CASE StartRequest
  <2>1. MessagesOwn(stdin, "request")' /\ (\A r \in owed : OwnNo(r.id, r.no))'
        /\ MessagesOwn(emitting, "response")' /\ MessagesOwn(stdout, "response")'
    BY <1>1, OwnQueuesStep DEF StartRequest, serverVars, pipeVars
  <2>2. rx' \notin Id
    BY <1>1 DEF StartRequest, NoAnswer, Id
  <2> QED
    BY <2>1, <2>2 DEF OwnEverywhere
<1>2. CASE StartNotify
  <2>1. MessagesOwn(stdin, "request")' /\ (\A r \in owed : OwnNo(r.id, r.no))'
        /\ MessagesOwn(emitting, "response")' /\ MessagesOwn(stdout, "response")'
    BY <1>2, OwnQueuesStep DEF StartNotify, serverVars, pipeVars
  <2> QED
    BY <1>2, <2>1 DEF StartNotify, OwnEverywhere
<1>3. CASE CallerWrites
  <2>1. (\A r \in owed : OwnNo(r.id, r.no))'
        /\ MessagesOwn(emitting, "response")' /\ MessagesOwn(stdout, "response")'
    BY <1>3, OwnQueuesStep DEF CallerWrites, serverVars
  <2> DEFINE m == IF call.op = "notify" THEN Note ELSE Request(call.id, call.no)
  <2>2. m \in ToServer /\ stdin' = Append(stdin, m)
    BY <1>3, MessageKinds DEF CallerWrites, Inv, MutexHeld, TypeOK, CallKnown
  <2>3. m.kind = "request" => OwnNo(m.id, m.no)
    BY DEF Note, Request, OwnNo, CallKnown, TypeOK, Id
  <2> HIDE DEF m
  <2>4. MessagesOwn(stdin', "request")
    <3>1. /\ Len(stdin) \in Nat /\ Len(stdin') = Len(stdin) + 1
          /\ \A i \in 1..Len(stdin) : stdin'[i] = stdin[i]
          /\ stdin'[Len(stdin')] = m
      BY <2>2, AppendIndex DEF TypeOK
    <3> QED
      BY <2>3, <3>1, OwnAppend DEF OwnEverywhere
  <2>5. MessagesOwn(stdin, "request")'
    BY <1>3, <2>4 DEF CallerWrites, MessagesOwn, OwnNo
  <2> QED
    BY <1>3, <2>1, <2>5 DEF CallerWrites, OwnEverywhere
<1>4. CASE \/ CallerLocks \/ CallerWriteFails \/ CallerAnswered \/ CallerHungUp
           \/ CallerExpires \/ CallerTimesOut \/ ReadEnds \/ ReadPanics \/ ReaderLocks \/ UNCHANGED vars
  <2>1. UNCHANGED <<nextId, call, rx, stdin, stdout, owed, emitting>>
    BY <1>4 DEF CallerLocks, CallerWriteFails, CallerAnswered, CallerHungUp, CallerExpires,
                CallerTimesOut, ReadEnds, ReadPanics, ReaderLocks, vars, clientVars, serverVars, pipeVars
  <2> QED
    BY <2>1, OwnQueuesStep DEF OwnEverywhere
<1>5. CASE ReadResponse
  <2>1. MessagesOwn(stdin, "request")' /\ (\A r \in owed : OwnNo(r.id, r.no))'
        /\ MessagesOwn(emitting, "response")'
    BY <1>5, OwnQueuesStep DEF ReadResponse, serverVars
  <2>2. stdout # <<>> /\ Head(stdout).kind = "response" /\ stdout' = Tail(stdout)
    BY <1>5 DEF ReadResponse, Reads
  <2>3. /\ MessagesOwn(Tail(stdout), "response")
        /\ OwnNo(Head(stdout).id, Head(stdout).no)
    BY <2>2, OwnTail DEF TypeOK, OwnEverywhere
  <2>4. MessagesOwn(stdout, "response")'
    BY <1>5, <2>2, <2>3 DEF ReadResponse, MessagesOwn, OwnNo
  <2>5. (call.op = "request" /\ rx \in Id => rx = call.no)'
    BY <1>5, <2>3 DEF ReadResponse, OwnEverywhere, OwnNo
  <2> QED
    BY <2>1, <2>4, <2>5 DEF OwnEverywhere
<1>6. CASE ReadNoise \/ ReadAsk
  <2>1. /\ MessagesOwn(stdin, "request")' /\ (\A r \in owed : OwnNo(r.id, r.no))'
        /\ MessagesOwn(emitting, "response")' /\ UNCHANGED <<nextId, call, rx>>
    BY <1>6, OwnQueuesStep DEF ReadNoise, ReadAsk, clientVars, serverVars
  <2>2. stdout # <<>> /\ stdout' = Tail(stdout)
    BY <1>6 DEF ReadNoise, ReadAsk, Reads
  <2>3. MessagesOwn(Tail(stdout), "response")
    BY <2>2, OwnTail DEF TypeOK, OwnEverywhere
  <2>4. MessagesOwn(stdout, "response")'
    BY <2>1, <2>2, <2>3 DEF MessagesOwn, OwnNo
  <2> QED
    BY <2>1, <2>4 DEF OwnEverywhere
<1>7. CASE ReaderReplies
  <2>1. /\ (\A r \in owed : OwnNo(r.id, r.no))' /\ UNCHANGED <<nextId, call, rx>>
        /\ MessagesOwn(emitting, "response")' /\ MessagesOwn(stdout, "response")'
    BY <1>7, OwnQueuesStep DEF ReaderReplies, clientVars, serverVars
  <2>2. CASE ~alive
    BY <1>7, <2>1, <2>2, OwnQueuesStep DEF ReaderReplies, OwnEverywhere
  <2>3. CASE alive
    <3>1. Reply(replyTo) \in ToServer /\ Reply(replyTo).kind # "request"
      <4>1. replyTo \in 1..MaxAsks
        BY <1>7, <2>3 DEF ReaderReplies, Inv, RepliesInOrder, Replied, InOrder, TypeOK
      <4> QED
        BY <4>1, MessageKinds DEF Reply
    <3>2. stdin' = Append(stdin, Reply(replyTo))
      BY <1>7, <2>3 DEF ReaderReplies
    <3>3. /\ Len(stdin) \in Nat /\ Len(stdin') = Len(stdin) + 1
          /\ \A i \in 1..Len(stdin) : stdin'[i] = stdin[i]
          /\ stdin'[Len(stdin')].kind # "request"
      BY <3>1, <3>2, AppendIndex DEF TypeOK
    <3>4. MessagesOwn(stdin', "request")
      BY <3>3, OwnAppend DEF OwnEverywhere
    <3>5. MessagesOwn(stdin, "request")'
      BY <2>1, <3>4 DEF MessagesOwn, OwnNo
    <3> QED
      BY <2>1, <3>5 DEF OwnEverywhere
  <2> QED
    BY <2>2, <2>3
<1>8. CASE ClearPending
  <2>1. UNCHANGED <<nextId, call, stdin, stdout, owed, emitting>>
    BY <1>8 DEF ClearPending, serverVars, pipeVars
  <2>2. (call.op = "request" /\ rx \in Id => rx = call.no)'
    BY <1>8, BoundsAssumption DEF ClearPending, OwnEverywhere, Hangup, Id
  <2> QED
    BY <2>1, <2>2, OwnQueuesStep DEF OwnEverywhere
<1>9. CASE ServerReads
  <2>1. /\ MessagesOwn(emitting, "response")' /\ MessagesOwn(stdout, "response")'
        /\ UNCHANGED <<nextId, call, rx>>
    BY <1>9, OwnQueuesStep DEF ServerReads, clientVars
  <2>2. stdin # <<>> /\ stdin' = Tail(stdin)
    BY <1>9 DEF ServerReads, ServerMayRead
  <2>3. /\ MessagesOwn(Tail(stdin), "request")
        /\ Head(stdin).kind = "request" => OwnNo(Head(stdin).id, Head(stdin).no)
    BY <2>2, OwnTail DEF TypeOK, OwnEverywhere
  <2>4. MessagesOwn(stdin, "request")'
    BY <2>1, <2>2, <2>3 DEF MessagesOwn, OwnNo
  <2>5. (\A r \in owed : OwnNo(r.id, r.no))'
    BY <1>9, <2>1, <2>3 DEF ServerReads, OwnEverywhere, OwnNo
  <2> QED
    BY <2>1, <2>4, <2>5 DEF OwnEverywhere
<1>10. CASE ServerEmits
  <2>1. /\ MessagesOwn(stdin, "request")' /\ MessagesOwn(stdout, "response")'
        /\ UNCHANGED <<nextId, call, rx>> /\ owed' \subseteq owed
    BY <1>10, OwnQueuesStep DEF ServerEmits, clientVars, pipeVars
  <2>2. (\A r \in owed : OwnNo(r.id, r.no))'
    BY <2>1 DEF OwnEverywhere, OwnNo
  <2>3. PICK m : emitting' = <<m>> /\ (m.kind = "response" => OwnNo(m.id, m.no))
    BY <1>10 DEF ServerEmits, OwnEverywhere, Response, ServerAsk, Noise, Unframed
  <2>4. MessagesOwn(emitting, "response")'
    BY <2>1, <2>3 DEF MessagesOwn, OwnNo
  <2> QED
    BY <2>1, <2>2, <2>4 DEF OwnEverywhere
<1>11. CASE ServerWrites
  <2>1. /\ MessagesOwn(stdin, "request")' /\ (\A r \in owed : OwnNo(r.id, r.no))'
        /\ UNCHANGED <<nextId, call, rx>>
    BY <1>11, OwnQueuesStep DEF ServerWrites, clientVars
  <2>2. MessagesOwn(emitting, "response")'
    BY <1>11 DEF ServerWrites, MessagesOwn
  <2>3. MessagesOwn(stdout, "response")'
    <3>1. CASE reader = "dead"
      BY <1>11, <3>1, OwnQueuesStep DEF ServerWrites, clientVars
    <3>2. CASE reader # "dead"
      <4>1. stdout' = stdout \o emitting /\ emitting # <<>>
        BY <1>11, <3>2 DEF ServerWrites
      <4>2. /\ Len(stdout) \in Nat /\ Len(stdout') = Len(stdout) + 1
            /\ \A i \in 1..Len(stdout) : stdout'[i] = stdout[i]
            /\ stdout'[Len(stdout')] = emitting[1] /\ Len(emitting) = 1
        BY <4>1, ConcatOne DEF TypeOK
      <4>3. emitting[1].kind = "response" => OwnNo(emitting[1].id, emitting[1].no)
        BY <4>2 DEF OwnEverywhere, MessagesOwn
      <4>4. MessagesOwn(stdout', "response")
        BY <4>2, <4>3, OwnAppend DEF OwnEverywhere
      <4> QED
        BY <2>1, <4>4 DEF MessagesOwn, OwnNo
    <3> QED
      BY <3>1, <3>2
  <2> QED
    BY <2>1, <2>2, <2>3 DEF OwnEverywhere
<1>12. CASE ServerExits
  <2>1. MessagesOwn(stdout, "response")' /\ UNCHANGED <<nextId, call, rx>>
    BY <1>12, OwnQueuesStep DEF ServerExits, clientVars
  <2> QED
    BY <1>12, <2>1 DEF ServerExits, OwnEverywhere, MessagesOwn
<1> QED
  BY <1>1, <1>2, <1>3, <1>4, <1>5, <1>6, <1>7, <1>8, <1>9, <1>10, <1>11, <1>12
     DEF Next, CallerStep, ReaderStep

----------------------------------------------------------------------------
(* The server's requests reach the reader in the order they are made.      *)
LEMMA AsksStep ==
  ASSUME Inv, [Next]_vars
  PROVE  AsksInOrder'
<1> AsksInOrder /\ TypeOK
  BY DEF Inv
<1>0. replyTo \in Int /\ asks \in Int /\ AsksSent \in Int
  BY DEF TypeOK, AsksSent
<1>1. CASE \/ StartRequest \/ StartNotify \/ CallerStep \/ ReaderLocks \/ ReaderReplies
           \/ ReadEnds \/ ReadPanics \/ ClearPending \/ UNCHANGED vars
  <2>1. /\ UNCHANGED <<emitting, asks, alive, stdout, replyTo>>
        /\ reader' # "dead" => reader # "dead"
    BY <1>1 DEF StartRequest, StartNotify, CallerStep, CallerLocks, CallerWrites,
                CallerWriteFails, CallerAnswered, CallerHungUp, CallerExpires, CallerTimesOut,
                ReaderLocks, ReaderReplies, ReadEnds, ReadPanics, ClearPending, Reads, vars,
                readerVars, serverVars, pipeVars
  <2> QED
    BY <2>1 DEF AsksInOrder, AsksSent, EmittingAsk
<1>2. CASE ReadResponse \/ ReadNoise
  <2>1. /\ UNCHANGED <<emitting, asks, alive, replyTo, reader>>
        /\ stdout # <<>> /\ stdout' = Tail(stdout) /\ Head(stdout).kind # "ask"
    BY <1>2 DEF ReadResponse, ReadNoise, Reads, readerVars, serverVars
  <2>2. alive /\ reader # "dead" => InOrder(Tail(stdout), "ask", replyTo, AsksSent)
    BY <1>0, <2>1, InOrderTail DEF AsksInOrder, TypeOK
  <2> QED
    BY <2>1, <2>2 DEF AsksInOrder, AsksSent, EmittingAsk
<1>3. CASE ReadAsk
  <2>1. /\ UNCHANGED <<emitting, asks, alive>> /\ reader # "dead"
        /\ stdout # <<>> /\ stdout' = Tail(stdout) /\ Head(stdout).kind = "ask"
        /\ replyTo' = Head(stdout).id
    BY <1>3 DEF ReadAsk, EchoedId, Reads, serverVars
  <2>2. alive => Head(stdout).id = replyTo + 1
                 /\ InOrder(Tail(stdout), "ask", replyTo + 1, AsksSent)
    BY <1>0, <2>1, InOrderTail, SMTT(60) DEF AsksInOrder, TypeOK
  <2> QED
    BY <2>1, <2>2 DEF AsksInOrder, AsksSent, EmittingAsk
<1>4. CASE ServerReads
  BY <1>4 DEF ServerReads, readerVars, AsksInOrder, AsksSent, EmittingAsk
<1>5. CASE ServerEmits
  <2>1. AsksSent = asks /\ UNCHANGED <<alive, reader, replyTo, stdout>>
    BY <1>5 DEF ServerEmits, AsksSent, EmittingAsk, readerVars, pipeVars
  <2>2. AsksSent' = asks /\ (EmittingAsk => emitting[1].id = asks)'
    <3>1. PICK m : emitting' = <<m>> /\ IF m.kind = "ask" THEN m.id = asks' /\ asks' = asks + 1
                                                         ELSE asks' = asks
      BY <1>5 DEF ServerEmits, Response, ServerAsk, Noise, Unframed
    <3> QED
      BY <1>0, <3>1 DEF AsksSent, EmittingAsk
  <2> QED
    BY <2>1, <2>2 DEF AsksInOrder
<1>6. CASE ServerWrites
  <2>1. /\ UNCHANGED <<alive, reader, replyTo, asks>> /\ emitting # <<>> /\ emitting' = <<>>
        /\ ~EmittingAsk' /\ AsksSent' = asks
    BY <1>6 DEF ServerWrites, readerVars, AsksSent, EmittingAsk
  <2>2. ASSUME alive, reader # "dead"
        PROVE  InOrder(stdout', "ask", replyTo, asks)
    <3>1. stdout' = stdout \o emitting
      BY <1>6, <2>2 DEF ServerWrites
    <3>2. /\ Len(stdout) \in Nat /\ Len(stdout') = Len(stdout) + 1
          /\ \A i \in 1..Len(stdout) : stdout'[i] = stdout[i]
          /\ stdout'[Len(stdout')] = emitting[1]
      BY <2>1, <3>1, ConcatOne DEF TypeOK
    <3>3. InOrder(stdout, "ask", replyTo, AsksSent)
      BY <2>2 DEF AsksInOrder
    <3>4. CASE emitting[1].kind = "ask"
      <4>1. AsksSent = asks - 1 /\ emitting[1].id = AsksSent + 1 /\ asks = AsksSent + 1
        BY <1>0, <2>1, <3>4 DEF AsksSent, EmittingAsk, AsksInOrder
      <4> QED
        BY <1>0, <3>2, <3>3, <3>4, <4>1, InOrderAppend
    <3>5. CASE emitting[1].kind # "ask"
      <4>1. AsksSent = asks
        BY <3>5 DEF AsksSent, EmittingAsk
      <4> QED
        BY <1>0, <3>2, <3>3, <3>5, <4>1, InOrderAppend
    <3> QED
      BY <3>4, <3>5
  <2> QED
    BY <2>1, <2>2 DEF AsksInOrder
<1>7. CASE ServerExits
  BY <1>7 DEF ServerExits, AsksInOrder, EmittingAsk
<1> QED
  BY <1>1, <1>2, <1>3, <1>4, <1>5, <1>6, <1>7 DEF Next, ReaderStep

(* The reader answers in the order it reads, one at a time. *)
LEMMA RepliesStep ==
  ASSUME Inv, [Next]_vars
  PROVE  RepliesInOrder'
<1> RepliesInOrder /\ TypeOK
  BY DEF Inv
<1>0. replyTo \in Int /\ asks \in Int /\ acked \in Int /\ Replied \in Int
  BY DEF TypeOK, Replied
<1>1. CASE \/ StartRequest \/ StartNotify \/ CallerLocks \/ CallerWriteFails \/ CallerAnswered
           \/ CallerHungUp \/ CallerExpires \/ CallerTimesOut \/ UNCHANGED vars
  <2>1. UNCHANGED <<stdin, alive, asks, acked, reader, replyTo>>
    BY <1>1 DEF StartRequest, StartNotify, CallerLocks, CallerWriteFails, CallerAnswered,
                CallerHungUp, CallerExpires, CallerTimesOut, vars, readerVars, serverVars, pipeVars
  <2> QED
    BY <2>1 DEF RepliesInOrder, Replied
<1>2. CASE ReadResponse \/ ReadNoise \/ ReaderLocks \/ ReadEnds \/ ReadPanics \/ ClearPending
  <2>1. UNCHANGED <<stdin, alive, asks, acked>> /\ Replied' = Replied
    BY <1>2 DEF ReadResponse, ReadNoise, ReaderLocks, ReadEnds, ReadPanics, ClearPending, Reads,
                Replied, readerVars, serverVars, pipeVars
  <2> QED
    BY <2>1 DEF RepliesInOrder
<1>3. CASE ReadAsk
  <2>1. UNCHANGED <<stdin, alive, asks, acked>>
    BY <1>3 DEF ReadAsk, serverVars
  <2>2. alive => replyTo' = replyTo + 1
    <3>1. /\ stdout # <<>> /\ Head(stdout).kind = "ask" /\ replyTo' = Head(stdout).id
          /\ reader # "dead"
      BY <1>3 DEF ReadAsk, EchoedId, Reads
    <3>2. AsksSent \in Int
      BY <1>0 DEF AsksSent
    <3> QED
      BY <1>0, <3>1, <3>2, InOrderTail DEF Inv, AsksInOrder, TypeOK
  <2>3. alive => Replied' = Replied
    BY <1>0, <1>3, <2>2 DEF ReadAsk, Reads, Replied
  <2> QED
    BY <2>1, <2>3 DEF RepliesInOrder
<1>4. CASE CallerWrites
  <2>1. UNCHANGED <<alive, asks, acked, reader, replyTo>> /\ alive /\ Replied' = Replied
    BY <1>4 DEF CallerWrites, Replied, readerVars, serverVars
  <2> DEFINE m == IF call.op = "notify" THEN Note ELSE Request(call.id, call.no)
  <2>2. m \in ToServer /\ stdin' = Append(stdin, m) /\ m.kind # "reply"
    BY <1>4, MessageKinds DEF CallerWrites, Inv, MutexHeld, TypeOK, CallKnown, Note, Request
  <2> HIDE DEF m
  <2>3. /\ Len(stdin) \in Nat /\ Len(stdin') = Len(stdin) + 1
        /\ \A i \in 1..Len(stdin) : stdin'[i] = stdin[i]
        /\ stdin'[Len(stdin')].kind # "reply"
    BY <2>2, AppendIndex DEF TypeOK
  <2>4. InOrder(stdin', "reply", acked, Replied)
    BY <1>0, <2>1, <2>3, InOrderAppend DEF RepliesInOrder
  <2> QED
    BY <2>1, <2>4 DEF RepliesInOrder
<1>5. CASE ReaderReplies
  <2>1. UNCHANGED <<alive, asks, acked, replyTo>> /\ Replied = replyTo - 1 /\ Replied' = replyTo
    BY <1>5 DEF ReaderReplies, Replied, serverVars
  <2>2. ASSUME alive
        PROVE  replyTo <= asks /\ InOrder(stdin', "reply", acked, replyTo)
    <3>1. InOrder(stdin, "reply", acked, Replied)
      BY <2>2 DEF RepliesInOrder
    <3>2. replyTo <= asks
      BY <1>0, <1>5, <2>2 DEF ReaderReplies, Inv, AsksInOrder, AsksSent, InOrder
    <3>3. replyTo \in 1..MaxAsks
      BY <1>0, <2>1, <3>1, <3>2 DEF InOrder, TypeOK
    <3>4. Reply(replyTo) \in ToServer /\ stdin' = Append(stdin, Reply(replyTo))
      BY <1>5, <2>2, <3>3, MessageKinds DEF ReaderReplies
    <3>5. /\ Len(stdin) \in Nat /\ Len(stdin') = Len(stdin) + 1
          /\ \A i \in 1..Len(stdin) : stdin'[i] = stdin[i]
          /\ stdin'[Len(stdin')] = Reply(replyTo)
      BY <3>4, AppendIndex DEF TypeOK
    <3>6. stdin'[Len(stdin')].kind = "reply" /\ stdin'[Len(stdin')].id = Replied + 1
      BY <1>0, <2>1, <3>5 DEF Reply
    <3>7. InOrder(stdin', "reply", acked, Replied + 1)
      BY <1>0, <3>1, <3>5, <3>6, InOrderAppend
    <3> QED
      BY <1>0, <2>1, <3>2, <3>7
  <2> QED
    BY <2>1, <2>2 DEF RepliesInOrder
<1>6. CASE ServerReads
  <2>1. /\ UNCHANGED <<alive, asks, reader, replyTo>> /\ alive /\ Replied' = Replied
        /\ stdin # <<>> /\ stdin' = Tail(stdin)
        /\ acked' = IF Head(stdin).kind = "reply" THEN acked + 1 ELSE acked
    BY <1>6 DEF ServerReads, ServerMayRead, Replied, readerVars
  <2>2. InOrder(stdin, "reply", acked, Replied) /\ Replied <= asks
    BY <2>1 DEF RepliesInOrder
  <2>3. CASE Head(stdin).kind = "reply"
    <3>1. InOrder(Tail(stdin), "reply", acked + 1, Replied)
      BY <1>0, <2>1, <2>2, <2>3, InOrderTail DEF TypeOK
    <3>2. acked + 1 <= asks
      BY <1>0, <2>2, <3>1 DEF InOrder
    <3> QED
      BY <2>1, <2>2, <2>3, <3>1, <3>2 DEF RepliesInOrder
  <2>4. CASE Head(stdin).kind # "reply"
    <3>1. InOrder(Tail(stdin), "reply", acked, Replied)
      BY <1>0, <2>1, <2>2, <2>4, InOrderTail DEF TypeOK
    <3> QED
      BY <2>1, <2>2, <2>4, <3>1 DEF RepliesInOrder
  <2> QED
    BY <2>3, <2>4
<1>7. CASE ServerEmits
  <2>1. UNCHANGED <<stdin, alive, acked>> /\ Replied' = Replied /\ asks' >= asks /\ asks' \in Int
    BY <1>0, <1>7 DEF ServerEmits, Replied, readerVars, pipeVars
  <2> QED
    BY <1>0, <2>1 DEF RepliesInOrder
<1>8. CASE ServerWrites
  BY <1>8 DEF ServerWrites, readerVars, RepliesInOrder, Replied
<1>9. CASE ServerExits
  BY <1>9 DEF ServerExits, RepliesInOrder
<1> QED
  BY <1>1, <1>2, <1>3, <1>4, <1>5, <1>6, <1>7, <1>8, <1>9 DEF Next, CallerStep, ReaderStep

----------------------------------------------------------------------------
LEMMA InitInv == Init => Inv
<1> SUFFICES ASSUME Init
             PROVE  Inv
  OBVIOUS
<1> USE DEF Init
<1>1. TypeOK
  BY BoundsAssumption, SizeAssumption DEF TypeOK, Hangup, NoAnswer
<1>2. MutexHeld /\ CallKnown /\ ExitedIsSilent /\ Registered /\ OnlyLivePending /\ AnswerIsOwn
  BY DEF MutexHeld, CallKnown, ExitedIsSilent, Registered, OnlyLivePending, AnswerIsOwn
<1>3. OwnEverywhere
  BY DEF OwnEverywhere, MessagesOwn
<1>4. AsksInOrder /\ RepliesInOrder
  BY DEF AsksInOrder, AsksSent, EmittingAsk, RepliesInOrder, Replied, InOrder
<1> QED
  BY <1>1, <1>2, <1>3, <1>4 DEF Inv

LEMMA NextInv == Inv /\ [Next]_vars => Inv'
  BY TypeStep, MutexStep, CallStep, SilentStep, OwnStep, RegisteredStep, LivePendingStep,
     AnswerStep, AsksStep, RepliesStep DEF Inv

(* The inductive invariant holds throughout. *)
THEOREM Invariance == Spec => []Inv
  BY InitInv, NextInv, PTL DEF Spec

(* Counters, pipes and channel stay within their types and bounds. *)
THEOREM TypeCorrect == Spec => []TypeOK
<1>1. Inv => TypeOK
  BY DEF Inv
<1> QED
  BY <1>1, Invariance, PTL

(* request() of transport/mod.rs returns the answer to its own request,    *)
(* however late or out of order the answers to others arrive.              *)
THEOREM AnswersAreOwn == Spec => []AnswerIsOwn
<1>1. Inv => AnswerIsOwn
  BY DEF Inv
<1> QED
  BY <1>1, Invariance, PTL

(* The pending map of the connection holds nothing of a call that returned *)
(* with an answer, a hang-up or a timeout.                                 *)
THEOREM PendingIsLive == Spec => []OnlyLivePending
<1>1. Inv => OnlyLivePending
  BY DEF Inv
<1> QED
  BY <1>1, Invariance, PTL

(* A request no longer registered has its answer or its hang-up in its     *)
(* channel: the reader never takes it off the map and drops it.            *)
THEOREM NoAnswerLost == Spec => []NoLostAnswer
<1>1. Inv => NoLostAnswer
  BY DEF Inv, Registered, CallKnown, NoLostAnswer
<1> QED
  BY <1>1, Invariance, PTL

(* read_loop answers the server's requests in the order they were made,    *)
(* each once and under its own id, and none that was not made.             *)
THEOREM ServerIsAnswered == Spec => []RepliesInOrder
<1>1. Inv => RepliesInOrder
  BY DEF Inv
<1> QED
  BY <1>1, Invariance, PTL

=============================================================================
