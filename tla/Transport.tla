----------------------------- MODULE Transport -----------------------------
(***************************************************************************)
(* The connection of transport/mod.rs: one caller issuing requests and     *)
(* notifications, the reader thread that hands answers back and replies to *)
(* the server's own requests, the writer mutex they share, and the two     *)
(* pipes to the language server.                                           *)
(*                                                                         *)
(* Connection holds a Receiver, so it is not Sync: there is one caller.    *)
(* A pipe holds whole messages, at most StdinSize and StdoutSize of them;  *)
(* the bytes of a message are the codec's business.  The server is not     *)
(* under src: it answers the requests it reads in any order or never, asks *)
(* its own, sends notifications and unparseable bodies ("noise"), breaks   *)
(* the framing, and exits, all as it likes.  Duplex says whether it keeps  *)
(* reading its input while a write of its own is blocked.                  *)
(*                                                                         *)
(* The `no` of a request and of its answer is a ghost: which call it is.   *)
(***************************************************************************)
EXTENDS Integers, Sequences

CONSTANTS
  MaxCalls, MaxAsks,      \* bounds: calls of the client, requests of the server
  StdinSize, StdoutSize,  \* capacities of the pipes
  Duplex

ASSUME BoundsAssumption == MaxCalls \in Nat /\ MaxAsks \in Nat
ASSUME SizeAssumption == StdinSize \in Nat \ {0} /\ StdoutSize \in Nat \ {0}
ASSUME DuplexAssumption == Duplex \in BOOLEAN

VARIABLES
  nextId,    \* AtomicI64
  pending,   \* keys of the pending map
  call,      \* the operation under way: its kind, id and number
  caller,    \* where it is: "idle", "locking", "writing", "waiting", "expired"
  rx,        \* its channel: NoAnswer, the number answered, or Hangup
  outcome,   \* how the last operation ended
  calls,     \* operations begun
  writer,    \* holder of the writer mutex: "free", "caller", "reader"
  stdin,     \* pipe to the server
  stdout,    \* pipe from the server
  reader,    \* "reading", "locking", "writing", "ending", "dead"
  replyTo,   \* the server's request the reader is answering
  alive,     \* the server process
  owed,      \* requests the server has read and not answered
  emitting,  \* what the server is writing: a sequence of at most one message
  asks,      \* requests the server has sent
  acked,     \* replies the server has read
  leaked     \* ghost: ids of the requests whose write failed

clientVars == <<nextId, pending, call, caller, rx, outcome, calls, leaked>>
readerVars == <<reader, replyTo>>
serverVars == <<alive, owed, emitting, asks, acked>>
pipeVars   == <<stdin, stdout>>
vars == <<clientVars, writer, readerVars, serverVars, pipeVars>>

NoAnswer == 0
Hangup   == MaxCalls + 1

Request(id, no)  == [kind |-> "request", id |-> id, no |-> no]
Note             == [kind |-> "note"]
Reply(id)        == [kind |-> "reply", id |-> id]
Response(id, no) == [kind |-> "response", id |-> id, no |-> no]
ServerAsk(id)    == [kind |-> "ask", id |-> id]
Noise            == [kind |-> "noise"]
Unframed         == [kind |-> "unframed"]

Id == 1..MaxCalls
ToServer == {Request(i, n) : i, n \in Id} \cup {Note} \cup {Reply(a) : a \in 1..MaxAsks}
ToClient == {Response(i, n) : i, n \in Id} \cup {ServerAsk(a) : a \in 1..MaxAsks}
              \cup {Noise, Unframed}

Init ==
  /\ nextId = 0 /\ pending = {} /\ calls = 0 /\ leaked = {}
  /\ call = [op |-> "none", id |-> 0, no |-> 0]
  /\ caller = "idle" /\ rx = NoAnswer
  /\ outcome = [kind |-> "none", no |-> 0, of |-> 0]
  /\ writer = "free" /\ stdin = <<>> /\ stdout = <<>>
  /\ reader = "reading" /\ replyTo = 0
  /\ alive = TRUE /\ owed = {} /\ emitting = <<>> /\ asks = 0 /\ acked = 0

----------------------------------------------------------------------------
(* The caller. *)

(* Mutant: the counter is not advanced. *)
SameId == 1

(* fetch_add(1) + 1 *)
FreshId == nextId + 1

StartRequest ==
  /\ caller = "idle" /\ calls < MaxCalls
  /\ nextId' = FreshId
  /\ pending' = pending \cup {FreshId}
  /\ calls' = calls + 1
  /\ call' = [op |-> "request", id |-> FreshId, no |-> calls + 1]
  /\ rx' = NoAnswer
  /\ caller' = "locking"
  /\ UNCHANGED <<outcome, leaked, writer, readerVars, serverVars, pipeVars>>

StartNotify ==
  /\ caller = "idle" /\ calls < MaxCalls
  /\ calls' = calls + 1
  /\ call' = [op |-> "notify", id |-> 0, no |-> calls + 1]
  /\ caller' = "locking"
  /\ UNCHANGED <<nextId, pending, rx, outcome, leaked, writer, readerVars,
                 serverVars, pipeVars>>

CallerLocks ==
  /\ caller = "locking" /\ writer = "free"
  /\ writer' = "caller"
  /\ caller' = "writing"
  /\ UNCHANGED <<nextId, pending, call, rx, outcome, calls, leaked, readerVars,
                 serverVars, pipeVars>>

(* The operation returns to its caller. *)
Return(kind, of) ==
  /\ outcome' = [kind |-> kind, no |-> call.no, of |-> of]
  /\ caller' = "idle"

(* write_all blocks while the pipe is full; there is no timeout on it. *)
CallerWrites ==
  /\ caller = "writing" /\ alive
  /\ Len(stdin) < StdinSize
  /\ stdin' = Append(stdin, IF call.op = "notify" THEN Note ELSE Request(call.id, call.no))
  /\ writer' = "free"
  /\ IF call.op = "notify"
     THEN Return("sent", 0)
     ELSE caller' = "waiting" /\ UNCHANGED outcome
  /\ UNCHANGED <<nextId, pending, call, rx, calls, leaked, readerVars, serverVars, stdout>>

(* A broken pipe: `write(..)?` returns, the request stays registered. *)
CallerWriteFails ==
  /\ caller = "writing" /\ ~alive
  /\ writer' = "free"
  /\ Return("unwritable", 0)
  /\ leaked' = IF call.op = "request" THEN leaked \cup {call.id} ELSE leaked
  /\ UNCHANGED <<nextId, pending, call, rx, calls, readerVars, serverVars, pipeVars>>

CallerAnswered ==
  /\ caller = "waiting" /\ rx \in Id
  /\ Return("answered", rx)
  /\ UNCHANGED <<nextId, pending, call, rx, calls, leaked, writer, readerVars,
                 serverVars, pipeVars>>

CallerHungUp ==
  /\ caller = "waiting" /\ rx = Hangup
  /\ Return("exited", 0)
  /\ UNCHANGED <<nextId, pending, call, rx, calls, leaked, writer, readerVars,
                 serverVars, pipeVars>>

(* Mutant: the request that timed out stays registered. *)
PendingUntouched == pending

(* What a timeout leaves registered. *)
PendingAfterTimeout == pending \ {call.id}

(* Mutant: recv, which waits for an answer or a hang-up only. *)
WaitsOn == FALSE

(* recv_timeout may give up: nothing has come. *)
MayExpire == rx = NoAnswer

CallerExpires ==
  /\ caller = "waiting" /\ MayExpire
  /\ caller' = "expired"
  /\ UNCHANGED <<nextId, pending, call, rx, outcome, calls, leaked, writer, readerVars,
                 serverVars, pipeVars>>

(* Then the request is unregistered, and has timed out even if its answer  *)
(* came in between; one may still come later.                              *)
CallerTimesOut ==
  /\ caller = "expired"
  /\ pending' = PendingAfterTimeout
  /\ Return("timeout", 0)
  /\ UNCHANGED <<nextId, call, rx, calls, leaked, writer, readerVars, serverVars, pipeVars>>

----------------------------------------------------------------------------
(* The reader thread. *)

Reads(kind) == reader = "reading" /\ stdout # <<>> /\ Head(stdout).kind = kind

(* Mutant: off by one in "an id of ours". *)
ClaimedIfOlder(id) == id \in pending /\ id < nextId

(* An answer is handed to the request registered under its id, and only    *)
(* once; one that nobody waits for any more is dropped.                    *)
Claimed(id) == id \in pending

ReadResponse ==
  /\ Reads("response")
  /\ LET m == Head(stdout) IN
       /\ pending' = pending \ {m.id}
       /\ rx' = IF Claimed(m.id) /\ call.id = m.id THEN m.no ELSE rx
  /\ stdout' = Tail(stdout)
  /\ UNCHANGED <<nextId, call, caller, outcome, calls, leaked, writer, readerVars,
                 serverVars, stdin>>

(* Mutant: `"id": null` taken for an id, what carries it for a request. *)
NullAnswered ==
  /\ Reads("noise")
  /\ stdout' = Tail(stdout)
  /\ replyTo' = MaxAsks + 1
  /\ reader' = "locking"
  /\ UNCHANGED <<clientVars, writer, serverVars, stdin>>

(* A notification goes to its channel, an unparseable body nowhere. *)
ReadNoise ==
  /\ Reads("noise")
  /\ stdout' = Tail(stdout)
  /\ UNCHANGED <<clientVars, writer, readerVars, serverVars, stdin>>

(* Mutant: every request of the server is answered under one id. *)
FixedId(m) == 1

(* The id to answer under: the request's own, echoed. *)
EchoedId(m) == m.id

ReadAsk ==
  /\ Reads("ask")
  /\ stdout' = Tail(stdout)
  /\ replyTo' = EchoedId(Head(stdout))
  /\ reader' = "locking"
  /\ UNCHANGED <<clientVars, writer, serverVars, stdin>>

ReaderLocks ==
  /\ reader = "locking" /\ writer = "free"
  /\ writer' = "reader"
  /\ reader' = "writing"
  /\ UNCHANGED <<clientVars, replyTo, serverVars, pipeVars>>

(* The reply is written, or its failure ignored. *)
ReaderReplies ==
  /\ reader = "writing"
  /\ IF alive
     THEN Len(stdin) < StdinSize /\ stdin' = Append(stdin, Reply(replyTo))
     ELSE UNCHANGED stdin
  /\ writer' = "free"
  /\ reader' = "reading"
  /\ UNCHANGED <<clientVars, replyTo, serverVars, stdout>>

(* End of file, or a frame that cannot be parsed: the loop returns. *)
ReadEnds ==
  /\ \/ Reads("unframed")
     \/ reader = "reading" /\ stdout = <<>> /\ ~alive
  /\ reader' = "ending"
  /\ UNCHANGED <<clientVars, writer, replyTo, serverVars, pipeVars>>

(* A length that overflows: the thread panics, and clears nothing. *)
ReadPanics ==
  /\ Reads("unframed")
  /\ reader' = "dead"
  /\ UNCHANGED <<clientVars, writer, replyTo, serverVars, pipeVars>>

(* The pending map is cleared: a request registered in it hangs up. *)
PendingAfterEnd == {}

ClearPending ==
  /\ reader = "ending"
  /\ pending' = PendingAfterEnd
  /\ rx' = IF call.id \in pending \ PendingAfterEnd THEN Hangup ELSE rx
  /\ reader' = "dead"
  /\ UNCHANGED <<nextId, call, caller, outcome, calls, leaked, writer, replyTo,
                 serverVars, pipeVars>>

----------------------------------------------------------------------------
(* The language server (external). *)

ServerMayRead == alive /\ stdin # <<>> /\ (Duplex \/ emitting = <<>>)

ServerReads ==
  /\ ServerMayRead
  /\ stdin' = Tail(stdin)
  /\ LET m == Head(stdin) IN
       /\ owed' = IF m.kind = "request" THEN owed \cup {[id |-> m.id, no |-> m.no]} ELSE owed
       /\ acked' = IF m.kind = "reply" THEN acked + 1 ELSE acked
  /\ UNCHANGED <<clientVars, writer, readerVars, alive, emitting, asks, stdout>>

(* The server decides on its next message... *)
ServerEmits ==
  /\ alive /\ emitting = <<>>
  /\ \/ \E r \in owed :
          /\ emitting' = <<Response(r.id, r.no)>>
          /\ owed' = owed \ {r}
          /\ UNCHANGED asks
     \/ /\ asks < MaxAsks
        /\ emitting' = <<ServerAsk(asks + 1)>>
        /\ asks' = asks + 1
        /\ UNCHANGED owed
     \/ emitting' \in {<<Noise>>, <<Unframed>>} /\ UNCHANGED <<owed, asks>>
  /\ UNCHANGED <<clientVars, writer, readerVars, alive, acked, pipeVars>>

(* ...and writes it once there is room.  The reader thread takes its end   *)
(* of the pipe with it: what is written after that is lost.                *)
ServerWrites ==
  /\ alive /\ emitting # <<>>
  /\ IF reader = "dead"
     THEN stdout' = stdout
     ELSE Len(stdout) < StdoutSize /\ stdout' = stdout \o emitting
  /\ emitting' = <<>>
  /\ UNCHANGED <<clientVars, writer, readerVars, alive, owed, asks, acked, stdin>>

ServerExits ==
  /\ alive
  /\ alive' = FALSE
  /\ emitting' = <<>>
  /\ owed' = {}
  /\ stdin' = <<>>
  /\ UNCHANGED <<clientVars, writer, readerVars, asks, acked, stdout>>

----------------------------------------------------------------------------
CallerStep ==
  \/ CallerLocks
  \/ CallerWrites
  \/ CallerWriteFails
  \/ CallerAnswered
  \/ CallerHungUp
  \/ CallerExpires
  \/ CallerTimesOut

ReaderStep ==
  \/ ReadResponse
  \/ ReadNoise
  \/ ReadAsk
  \/ ReaderLocks
  \/ ReaderReplies
  \/ ReadEnds
  \/ ReadPanics
  \/ ClearPending

Next ==
  \/ StartRequest
  \/ StartNotify
  \/ CallerStep
  \/ ReaderStep
  \/ ServerReads
  \/ ServerEmits
  \/ ServerWrites
  \/ ServerExits

(* Threads are scheduled, a timeout expires, and the server process keeps  *)
(* reading and writing while it lives (strongly: between two writes of its *)
(* own it comes back to its input); nothing obliges it to answer.          *)
Fairness ==
  /\ WF_vars(CallerStep)
  /\ WF_vars(ReaderStep)
  /\ SF_vars(ServerReads) /\ WF_vars(ServerWrites)

Spec == Init /\ [][Next]_vars /\ Fairness

----------------------------------------------------------------------------
(* Type invariant of the connection, the pipes and the server. *)
TypeOK ==
  /\ nextId \in 0..MaxCalls /\ calls \in 0..MaxCalls
  /\ pending \subseteq Id /\ leaked \subseteq Id
  /\ call \in [op : {"none", "request", "notify"}, id : 0..MaxCalls, no : 0..MaxCalls]
  /\ caller \in {"idle", "locking", "writing", "waiting", "expired"}
  /\ rx \in 0..Hangup
  /\ outcome \in [kind : {"none", "sent", "unwritable", "answered", "exited", "timeout"},
                  no : 0..MaxCalls, of : 0..MaxCalls]
  /\ writer \in {"free", "caller", "reader"}
  /\ stdin \in Seq(ToServer) /\ Len(stdin) <= StdinSize
  /\ stdout \in Seq(ToClient) /\ Len(stdout) <= StdoutSize
  /\ reader \in {"reading", "locking", "writing", "ending", "dead"}
  /\ replyTo \in 0..MaxAsks
  /\ alive \in BOOLEAN /\ owed \subseteq [id : Id, no : Id]
  /\ emitting \in Seq(ToClient) /\ Len(emitting) <= 1
  /\ asks \in 0..MaxAsks /\ acked \in 0..MaxAsks

(* A request is never given another request's answer: not one that arrives *)
(* after its own request timed out, nor one the server sends out of order. *)
AnswerIsOwn == outcome.kind = "answered" => outcome.of = outcome.no

(* Nothing stays registered of a call that is over: the pending map holds  *)
(* at most the request under way and those whose write failed, so timeouts *)
(* do not make it grow.                                                    *)
OnlyLivePending ==
  pending \subseteq leaked \cup (IF caller # "idle" /\ call.op = "request" THEN {call.id} ELSE {})

(* A request that waits and is no longer registered has its answer or its  *)
(* hang-up in its channel: the reader never takes it off the map and drops *)
(* it, so that it would be left to time out.  (One that gave up waiting    *)
(* times out even if its answer comes before it is unregistered.)          *)
NoLostAnswer ==
  caller = "waiting" /\ call.id \notin pending => rx # NoAnswer

(* The messages of a kind in queue s carry the ids lo + 1 to hi, in order. *)
InOrder(s, kind, lo, hi) ==
  /\ lo <= hi
  /\ \A i \in 1..Len(s) : s[i].kind = kind => s[i].id \in (lo + 1)..hi
  /\ \A i, j \in 1..Len(s) :
       i < j /\ s[i].kind = kind /\ s[j].kind = kind => s[i].id < s[j].id
  /\ \A a \in (lo + 1)..hi : \E i \in 1..Len(s) : s[i].kind = kind /\ s[i].id = a

(* Every request of the server is answered at most once, under its own id, *)
(* in the order it asked: the replies on their way continue those it read  *)
(* up to the last one written.                                             *)
Replied == IF reader \in {"locking", "writing"} THEN replyTo - 1 ELSE replyTo
RepliesInOrder ==
  /\ acked <= asks
  /\ alive => Replied <= asks /\ InOrder(stdin, "reply", acked, Replied)

(* Every operation returns, whatever the server does short of no longer    *)
(* reading its input: answered, hung up, timed out or unwritable.  A       *)
(* reader thread that panics hangs nobody up; the timeout is left then.    *)
CallReturns == (caller # "idle") ~> (caller = "idle")

=============================================================================
