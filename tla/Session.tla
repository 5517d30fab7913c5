------------------------------ MODULE Session ------------------------------
(***************************************************************************)
(* A whole session: the loop of main.rs on the interface thread, the       *)
(* worker thread, and the two channels between them.                       *)
(*                                                                         *)
(* The loop draws, drains the event channel until it is empty, polls one   *)
(* key, and ends when should_quit is set.  The worker interleaves with     *)
(* every one of these steps.  After the loop main asks the worker to shut  *)
(* down, joins it, and turns a leftover error into the exit status.        *)
(***************************************************************************)
EXTENDS Views, Worker, Integers

VARIABLES
  main,       \* "draw", "drain", "poll", "leaving", "joining", "exited"
  res,        \* the Result of the loop: "ok", or "err" when the terminal failed
  status,     \* the exit status, -1 before the end
  fatalSeen   \* ghost: a Fatal was handed to the interface

mainVars == <<main, res, status, fatalSeen>>
vars == <<channelVars, workerVars, appVars, mainVars>>

Init ==
  /\ AppInit
  /\ WorkerInit
  /\ reqs = <<>>
  /\ events = <<>>
  /\ main = "draw"
  /\ res = "ok"
  /\ status = -1
  /\ fatalSeen = FALSE

----------------------------------------------------------------------------
(* The terminal may fail in draw, poll and read: the loop returns the error. *)
TerminalFails ==
  /\ main \in {"draw", "poll"}
  /\ main' = "leaving"
  /\ res' = "err"
  /\ UNCHANGED <<channelVars, workerVars, appVars, status, fatalSeen>>

Draw ==
  /\ main = "draw"
  /\ main' = "drain"
  /\ UNCHANGED <<channelVars, workerVars, appVars, res, status, fatalSeen>>

(* try_recv returned an event: on_event, and its requests are sent. *)
DrainOne ==
  /\ main = "drain"
  /\ events # <<>>
  /\ OnEvent(Head(events))
  /\ events' = Tail(events)
  /\ fatalSeen' = (fatalSeen \/ Head(events).kind = "Fatal")
  /\ UNCHANGED <<worker, workerVars, main, res, status>>

(* An empty channel is Disconnected once the worker's sender is gone. *)
SenderGone == worker = "stopped"

DrainedAll ==
  /\ main = "drain"
  /\ events = <<>>
  /\ main' = "poll"
  /\ IF SenderGone
     THEN Quit
     ELSE UNCHANGED <<reqs, appVars>>
  /\ UNCHANGED <<events, worker, workerVars, res, status, fatalSeen>>

(* Mutant: should_quit is not looked at. *)
AfterPollAgain ==
  /\ main' = "draw"
  /\ UNCHANGED <<events, worker, workerVars, res, status, fatalSeen>>

(* At most one key is handled, then should_quit is looked at. *)
AfterPoll ==
  /\ main' = IF shouldQuit' THEN "leaving" ELSE "draw"
  /\ UNCHANGED <<events, worker, workerVars, res, status, fatalSeen>>

PollKey     == main = "poll" /\ HandleKey /\ AfterPoll
PollTimeout == main = "poll" /\ NoKey /\ AfterPoll

(* Shutdown is queued behind whatever was asked before it. *)
Leave ==
  /\ main = "leaving"
  /\ main' = "joining"
  /\ Ask(<<Shutdown>>)
  /\ UNCHANGED <<events, worker, workerVars, appVars, res, status, fatalSeen>>

(* Mutant: the process ends without waiting for the worker. *)
JoinedOrNot == worker \in {"starting", "serving", "closing", "stopped"}

(* handle.join() *)
Joined == worker = "stopped"

ExitStatus == IF res = "err" \/ Overlay THEN 1 ELSE 0

Exit ==
  /\ main = "joining"
  /\ Joined
  /\ main' = "exited"
  /\ status' = ExitStatus
  /\ UNCHANGED <<channelVars, workerVars, appVars, res, fatalSeen>>

(* The process has ended. *)
Done == main = "exited" /\ UNCHANGED vars

(* What the interface thread does without the user. *)
Loop ==
  \/ Draw
  \/ DrainOne
  \/ DrainedAll
  \/ PollTimeout
  \/ Leave
  \/ Exit

WorkerStep == WorkerNext /\ UNCHANGED <<appVars, mainVars>>

Next ==
  \/ Loop
  \/ PollKey
  \/ TerminalFails
  \/ WorkerStep
  \/ Done

(* poll returns after 50 ms with or without a key, and the worker's engine *)
(* calls return after their timeout at the latest.                         *)
Fairness == WF_vars(Loop) /\ WF_vars(WorkerStep)

Spec == Init /\ [][Next]_vars /\ Fairness

----------------------------------------------------------------------------
(* Type invariant of the channels, the interface, the worker and the loop. *)
TypeOK ==
  /\ reqs \in Seq(Request) /\ events \in Seq(Event)
  /\ worker \in {"starting", "serving", "closing", "stopped"}
  /\ known \subseteq NodeId /\ engine \in {"up", "down"}
  /\ screen \in {"Starting", "Search", "Graph"}
  /\ canSearch \in BOOLEAN /\ searched \in BOOLEAN /\ shouldQuit \in BOOLEAN
  /\ error \in Trouble \cup {"none"}
  /\ query \in Query /\ matchesFor \in Query
  /\ matches \in Seq(NodeId) /\ matchSel \in Nat
  /\ {focus, pending, failed} \subseteq NodeId \cup {NoNode}
  /\ callers \in Seq(NodeId) /\ callees \in Seq(NodeId)
  /\ callerSel \in Nat /\ calleeSel \in Nat
  /\ history \in Seq(NodeId) /\ pane \in {"Callers", "Focus", "Callees"}
  /\ main \in {"draw", "drain", "poll", "leaving", "joining", "exited"}
  /\ res \in {"ok", "err"} /\ status \in {-1, 0, 1} /\ fatalSeen \in BOOLEAN

(* A spinner always has an answer coming: the awaited expansion is queued, *)
(* being answered or on its way back, or the worker has left its loop and  *)
(* the session is about to end.  (Every path that sets `pending` must ask, *)
(* and every answer, failures included, must clear it.)                    *)
SpinnerIsBacked ==
  pending # NoNode /\ main # "exited" => Outstanding(pending) \/ ~Listening

(* Pending is not empty is not failed (tui-design 5): what is drawn around *)
(* the focus is the spinner of its own expansion, or the failure of that,  *)
(* or exactly what the server says of it.  An answer that arrives late,    *)
(* after the user went somewhere else or came back, never shows under      *)
(* another symbol's name, and no empty list stands for a missing answer.   *)
PanesAreHonest ==
  screen = "Graph" =>
    LET in == Shown.panes[1]  out == Shown.panes[2]  of == Shown.title IN
    /\ of # NoNode
    /\ in.kind = out.kind
    /\ CASE in.kind = "spinner"          -> pending = of
         [] in.kind = "expansion failed" -> failed = of
         [] in.kind = "list" -> /\ in.entries = Neighbours[of].callers
                                /\ out.entries = Neighbours[of].callees

(* Enter acts on what is highlighted: a list with entries that has the     *)
(* cursor highlights one of them, Enter takes that one, and nothing else   *)
(* can be taken, nor anything at all behind an error box.  (A list that an *)
(* event replaces, or empties behind a spinner, must take its selection    *)
(* with it.)                                                               *)
Highlighted ==
  {p.entries[p.highlighted] : p \in {q \in ToSet(Shown.panes) : q.highlighted > 0}}
Taken ==
  CASE On("Graph")  -> {n \in NodeId : Chosen(n)}
    [] On("Search") -> IF matchSel < Len(matches) THEN {matches[matchSel + 1]} ELSE {}
    [] OTHER        -> {}
Choosable ==
  \E i \in DOMAIN Shown.panes :
    /\ Shown.panes[i].entries # <<>>
    /\ screen = "Graph" => pane = <<"Callers", "Callees">>[i]
EnterTakesHighlighted ==
  IF Shown.over.message # "none" THEN Taken = {}
  ELSE Taken = Highlighted /\ (Choosable => Highlighted # {})

(* The process never ends before the worker has shut its engine down: no   *)
(* language server outlives the interface, whatever is still queued, and   *)
(* also when the terminal failed.                                          *)
NoOrphanedEngine == main = "exited" => worker = "stopped" /\ engine = "down"

(* A spinner on n does not turn for ever: the answer comes, the user goes  *)
(* elsewhere, or the session ends.                                         *)
SpinnerEnds == \A n \in NodeId : (pending = n) ~> (pending # n \/ main = "exited")

(* Once the loop has decided to quit, the process ends, however much was   *)
(* asked before: interface and worker do not wait for each other for ever. *)
QuitEnds == shouldQuit ~> (main = "exited")

----------------------------------------------------------------------------
(* app.rs:130-132: "the box and the result list must never disagree".      *)
(* Matches does not say which query it answers, so the answer to a search  *)
(* the user has since edited away is taken for the answer to the new text. *)
ResultsMatchQuery ==
  \A p \in ToSet(Shown.panes) :
    screen = "Search" /\ p.kind \in {"list", "no matches"} => matchesFor = query

(* tui-design 5: "the breadcrumb across the top records the path taken,    *)
(* and `u` walks back along it".  Every step of a path is a re-centring on *)
(* a neighbour; a symbol seeded from a search replaces the end of it.      *)
BreadcrumbIsPath ==
  \A i \in 1..(Len(Shown.crumbs) - 1) :
    LET around == Neighbours[Shown.crumbs[i]] IN
    Shown.crumbs[i + 1] \in ToSet(around.callers) \cup ToSet(around.callees)

(* app.rs:213-214: `pending` "is the current request's id".  With two      *)
(* requests about one node under way, the failure of the first clears it,  *)
(* and the answer to the current one is discarded: the panes stay marked   *)
(* failed although the expansion arrived.                                  *)
CurrentAnswerAwaited ==
  focus # NoNode /\ failed = focus => ~Contains(events, Expanded(focus))

(* main.rs:222-225: without the exit status a Fatal would let the session  *)
(* vanish "with no explanation and an exit status of 0".  One key is still *)
(* polled between the drain that delivers it and the end of the loop.      *)
FatalIsReported == main = "exited" /\ fatalSeen => status = 1
=============================================================================
