------------------------------- MODULE Worker -------------------------------
(***************************************************************************)
(* The thread of worker.rs: it owns the engine, answers one request at a   *)
(* time, and shuts the engine down when its loop ends.                     *)
(*                                                                         *)
(* Taking a request, running it and sending the answer are one action: the *)
(* interface sees nothing of a request between its own send and the event. *)
(* An engine call always returns, a request to the server being given up   *)
(* after REQUEST_TIMEOUT.  The receive error that ends the loop when the   *)
(* interface is gone is not an action: main sends Shutdown before it drops *)
(* its sender.                                                             *)
(***************************************************************************)
EXTENDS Channels

VARIABLES
  known,   \* the symbols the engine has on record: expanding them cannot fail
  engine   \* "up", or "down" once Engine::shutdown has run

workerVars == <<known, engine>>

WorkerInit ==
  /\ worker = "starting"
  /\ known = {}
  /\ engine = "up"

Announce ==
  /\ worker = "starting"
  /\ \E can \in BOOLEAN : events' = Append(events, Ready(can))
  /\ worker' = "serving"
  /\ UNCHANGED <<reqs, workerVars>>

(* The head of the queue is a request of this kind. *)
Serves(kind) == worker = "serving" /\ reqs # <<>> /\ Head(reqs).kind = kind

Answer(ev) ==
  /\ reqs' = Tail(reqs)
  /\ events' = Append(events, ev)

(* What CoreEngine's search, seed and expand may make the worker send; the *)
(* engine may name a symbol, find no hierarchy for it, or fail, but never  *)
(* fails to expand what it has on record (ImplementsMemo of Engine).       *)
SearchAnswers(q) == {Matches(q, ms) : ms \in Results} \cup {Warning}
SeedAnswers(n)   == {Seeded(n), Seeded(NoNode), Warning}
ExpandAnswers(n) == {Expanded(n)} \cup IF n \in known THEN {} ELSE {Failed(n)}

ServeSearch ==
  /\ Serves("Search")
  /\ \E ev \in SearchAnswers(Head(reqs).query) : Answer(ev)
  /\ UNCHANGED <<worker, workerVars>>

ServeSeed ==
  /\ Serves("Seed")
  /\ \E ev \in SeedAnswers(Head(reqs).node) : Answer(ev)
  /\ UNCHANGED <<worker, workerVars>>

ServeExpand ==
  /\ Serves("Expand")
  /\ LET n == Head(reqs).node IN
       \E ev \in ExpandAnswers(n) :
         /\ Answer(ev)
         /\ known' = IF ev = Expanded(n) THEN known \cup {n} ELSE known
  /\ UNCHANGED <<worker, engine>>

(* The worker cannot build another engine, so a restart ends the session. *)
ServeRestart ==
  /\ Serves("Restart")
  /\ Answer(Fatal)
  /\ worker' = "closing"
  /\ UNCHANGED workerVars

ServeShutdown ==
  /\ Serves("Shutdown")
  /\ reqs' = Tail(reqs)
  /\ worker' = "closing"
  /\ UNCHANGED <<events, workerVars>>

(* engine.shutdown() after the loop; the thread and its sender then end. *)
CloseEngine ==
  /\ worker = "closing"
  /\ engine' = "down"
  /\ worker' = "stopped"
  /\ reqs' = <<>>
  /\ UNCHANGED <<events, known>>

WorkerNext ==
  \/ Announce
  \/ ServeSearch
  \/ ServeSeed
  \/ ServeExpand
  \/ ServeRestart
  \/ ServeShutdown
  \/ CloseEngine
=============================================================================
