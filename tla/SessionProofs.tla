--------------------------- MODULE SessionProofs ---------------------------
(***************************************************************************)
(* Proofs about Session: its safety invariants hold for any symbols, any   *)
(* neighbours, any lists a search may return and any number of requests    *)
(* under way.                                                              *)
(***************************************************************************)
EXTENDS Session, SequenceLemmas

(* A selection is on an entry of its list, or at the start of an empty one. *)
OnEntry(sel, list) == sel = 0 \/ sel < Len(list)

SelectionsOnEntry ==
  /\ OnEntry(matchSel, matches)
  /\ OnEntry(callerSel, callers)
  /\ OnEntry(calleeSel, callees)

(* What is awaited or failed is the focus, and the lists are empty then;   *)
(* otherwise they are those of the focus.                                  *)
PanesFollowFocus ==
  /\ screen = "Graph" => focus # NoNode
  /\ pending # NoNode => pending = focus /\ failed = NoNode
  /\ failed # NoNode => failed = focus
  /\ pending # NoNode \/ failed # NoNode => callers = <<>> /\ callees = <<>>
  /\ focus # NoNode /\ pending = NoNode /\ failed = NoNode
       => callers = Neighbours[focus].callers /\ callees = Neighbours[focus].callees

NoneOf(kind, s) == \A i \in 1..Len(s) : s[i].kind # kind

(* A server that cannot search is never searched: the worker says whether  *)
(* it can first of all, and once.                                          *)
SearchAllowed ==
  /\ worker = "starting" => events = <<>> /\ ~canSearch
  /\ \A i \in 1..Len(events) : events[i].kind = "Ready" => i = 1 /\ ~canSearch
  /\ ~canSearch =>
       /\ matches = <<>>
       /\ NoneOf("Search", reqs)
       /\ NoneOf("Matches", events)

(* The thread ends after its engine, the process after the thread. *)
EngineFirst ==
  /\ worker = "stopped" => engine = "down"
  /\ main = "exited" => worker = "stopped"

Inv ==
  /\ TypeOK
  /\ SelectionsOnEntry
  /\ PanesFollowFocus
  /\ SearchAllowed
  /\ SpinnerIsBacked
  /\ EngineFirst

----------------------------------------------------------------------------
(* Requests and events by their kind. *)
LEMMA RequestKinds ==
  /\ \A q \in Query : Search(q) \in Request
  /\ \A n \in NodeId : Seed(n) \in Request /\ Expand(n) \in Request
  /\ Restart \in Request /\ Shutdown \in Request
  /\ \A r \in Request : r.kind = "Search" => r.query \in Query
  /\ \A r \in Request : r.kind \in {"Seed", "Expand"} => r.node \in NodeId
<1>1. /\ \A q \in Query : Search(q) \in Request
      /\ \A n \in NodeId : Seed(n) \in Request /\ Expand(n) \in Request
      /\ Restart \in Request /\ Shutdown \in Request
  BY DEF Request
<1>2. ASSUME NEW r \in Request
      PROVE  /\ r.kind = "Search" => r.query \in Query
             /\ r.kind \in {"Seed", "Expand"} => r.node \in NodeId
  BY DEF Request, Search, Seed, Expand, Restart, Shutdown
<1> QED
  BY <1>1, <1>2

LEMMA EventKinds ==
  /\ \A can \in BOOLEAN : Ready(can) \in Event
  /\ \A q \in Query, ms \in Results : Matches(q, ms) \in Event
  /\ \A n \in NodeId \cup {NoNode} : Seeded(n) \in Event
  /\ \A n \in NodeId : Expanded(n) \in Event /\ Failed(n) \in Event
  /\ Warning \in Event /\ Fatal \in Event
  /\ \A ev \in Event : ev.kind = "Ready" => ev.can \in BOOLEAN
  /\ \A ev \in Event : ev.kind = "Matches" => ev.query \in Query /\ ev.matches \in Seq(NodeId)
  /\ \A ev \in Event : ev.kind = "Seeded" => ev.node \in NodeId \cup {NoNode}
  /\ \A ev \in Event : ev.kind \in {"Expanded", "Failed"} => ev.node \in NodeId
  /\ \A ev \in Event : ev.kind = "Expanded" => ev = Expanded(ev.node)
  /\ \A ev \in Event : ev.kind = "Failed" => ev = Failed(ev.node)
<1>1. /\ \A can \in BOOLEAN : Ready(can) \in Event
      /\ \A n \in NodeId \cup {NoNode} : Seeded(n) \in Event
      /\ \A n \in NodeId : Expanded(n) \in Event /\ Failed(n) \in Event
      /\ Warning \in Event /\ Fatal \in Event
  BY DEF Event
<1>2. \A q \in Query, ms \in Results : Matches(q, ms) \in Event
  BY DEF Event
<1>3. ASSUME NEW ev \in Event
      PROVE  /\ ev.kind = "Ready" => ev.can \in BOOLEAN
             /\ ev.kind = "Matches" => ev.query \in Query /\ ev.matches \in Results
             /\ ev.kind = "Seeded" => ev.node \in NodeId \cup {NoNode}
             /\ ev.kind \in {"Expanded", "Failed"} => ev.node \in NodeId
             /\ ev.kind = "Expanded" => ev = Expanded(ev.node)
             /\ ev.kind = "Failed" => ev = Failed(ev.node)
  BY DEF Event, Ready, Matches, Seeded, Expanded, Failed, Warning, Fatal
<1> QED
  BY <1>1, <1>2, <1>3, ResultsAssumption

(* An entry of a queue is still in it after an append, and after its head  *)
(* is taken unless it was the head.                                        *)
LEMMA ContainsAppend ==
  ASSUME NEW S, NEW s \in Seq(S), NEW m \in S
  PROVE  /\ Contains(Append(s, m), m)
         /\ \A e : Contains(s, e) => Contains(Append(s, m), e)
<1>1. /\ Len(s) \in Nat /\ Len(Append(s, m)) = Len(s) + 1
      /\ \A i \in 1..Len(s) : Append(s, m)[i] = s[i]
      /\ Append(s, m)[Len(s) + 1] = m
  BY AppendIndex
<1>2. \A i \in 1..Len(s) : i \in 1..Len(Append(s, m))
  BY <1>1
<1>3. Len(s) + 1 \in 1..Len(Append(s, m))
  BY <1>1
<1> QED
  BY <1>1, <1>2, <1>3 DEF Contains

LEMMA ContainsTail ==
  ASSUME NEW S, NEW s \in Seq(S), s # <<>>, NEW e, Contains(s, e), Head(s) # e
  PROVE  Contains(Tail(s), e)
<1>1. PICK i \in 1..Len(s) : s[i] = e
  BY DEF Contains
<1>2. i - 1 \in 1..Len(Tail(s)) /\ Tail(s)[i - 1] = e
  BY <1>1, TailIndex
<1> QED
  BY <1>2 DEF Contains

LEMMA ConcatSingle ==
  ASSUME NEW S, NEW s \in Seq(S), NEW m \in S
  PROVE  s \o <<m>> = Append(s, m)
  BY AppendIsConcat

(* A request asked by the interface. *)
LEMMA AskAppends ==
  ASSUME TypeOK, NEW r \in Request, Ask(<<r>>)
  PROVE  /\ reqs' \in Seq(Request)
         /\ reqs' = IF Listening THEN Append(reqs, r) ELSE reqs
<1>1. reqs \o <<r>> = Append(reqs, r) /\ Append(reqs, r) \in Seq(Request)
  BY ConcatSingle, AppendIndex DEF TypeOK
<1> QED
  BY <1>1 DEF Ask, TypeOK

(* The smaller of two. *)
LEMMA MinPair ==
  ASSUME NEW a \in Int, NEW b \in Int
  PROVE  Min({a, b}) \in {a, b} /\ Min({a, b}) <= a /\ Min({a, b}) <= b
<1>1. \E x \in {a, b} : \A y \in {a, b} : x <= y
  <2>1. CASE a <= b
    BY <2>1
  <2>2. CASE ~(a <= b)
    BY <2>2
  <2> QED
    BY <2>1, <2>2
<1>2. Min({a, b}) \in {a, b} /\ \A y \in {a, b} : Min({a, b}) <= y
  BY <1>1 DEF Min
<1> QED
  BY <1>2

(* A step along a list ends on an entry of it. *)
LEMMA StepOnEntry ==
  ASSUME NEW S, NEW list \in Seq(S), NEW sel \in Nat, OnEntry(sel, list)
  PROVE  /\ StepDown(sel, Len(list)) \in Nat /\ OnEntry(StepDown(sel, Len(list)), list)
         /\ StepUp(sel) \in Nat /\ OnEntry(StepUp(sel), list)
<1> DEFINE n == Len(list)
<1>0. n \in Nat
  BY LenProperties
<1>1. OnEntry(sel, list) <=> (sel = 0 \/ sel < n)
  BY DEF OnEntry
<1> HIDE DEF n
<1>2. StepDown(sel, n) \in Nat /\ (StepDown(sel, n) = 0 \/ StepDown(sel, n) < n)
  <2>1. CASE n = 0
    BY <1>1, <2>1 DEF StepDown
  <2>2. CASE n # 0
    <3>1. sel + 1 \in Int /\ n - 1 \in Int
      BY <1>0
    <3>2. /\ Min({sel + 1, n - 1}) \in {sel + 1, n - 1}
          /\ Min({sel + 1, n - 1}) <= n - 1
      BY <3>1, MinPair
    <3> QED
      BY <1>0, <2>2, <3>2 DEF StepDown
  <2> QED
    BY <2>1, <2>2
<1>3. StepUp(sel) \in Nat /\ (StepUp(sel) = 0 \/ StepUp(sel) < n)
  BY <1>0, <1>1 DEF StepUp
<1> QED
  BY <1>2, <1>3 DEF OnEntry, n

(* The end of the breadcrumb. *)
LEMMA LastFront ==
  ASSUME NEW S, NEW s \in Seq(S), s # <<>>
  PROVE  Last(s) \in S /\ Front(s) \in Seq(S)
<1>1. Len(s) \in 1..Len(s)
  BY TailIndex
<1> QED
  BY <1>1, ElementOfSeq, SubSeqProperties, TailIndex DEF Last, Front

(* A node that becomes the focus is asked for. *)
LEMMA FocusStep ==
  ASSUME TypeOK, NEW n \in NodeId, Focus(n)
  PROVE  /\ reqs' \in Seq(Request)
         /\ focus' = n /\ pending' = n /\ failed' = NoNode
         /\ callers' = <<>> /\ callees' = <<>> /\ callerSel' = 0 /\ calleeSel' = 0
         /\ reqs' = IF Listening THEN Append(reqs, Expand(n)) ELSE reqs
  BY RequestKinds, AskAppends DEF Focus, Show

----------------------------------------------------------------------------
(* Every step keeps the types. *)
LEMMA EventType ==
  ASSUME TypeOK, NEW ev \in Event, OnEvent(ev)
  PROVE  /\ reqs' \in Seq(Request)
         /\ screen' \in {"Starting", "Search", "Graph"}
         /\ canSearch' \in BOOLEAN /\ searched' \in BOOLEAN /\ shouldQuit' \in BOOLEAN
         /\ error' \in Trouble \cup {"none"}
         /\ query' \in Query /\ matchesFor' \in Query
         /\ matches' \in Seq(NodeId) /\ matchSel' \in Nat
         /\ {focus', pending', failed'} \subseteq NodeId \cup {NoNode}
         /\ callers' \in Seq(NodeId) /\ callees' \in Seq(NodeId)
         /\ callerSel' \in Nat /\ calleeSel' \in Nat
         /\ history' \in Seq(NodeId) /\ pane' \in {"Callers", "Focus", "Callees"}
<1>3. CASE OnSeeded(ev)
  <2>1. ev.node \in NodeId /\ Focus(ev.node)
    BY <1>3, EventKinds DEF OnSeeded
  <2>2. /\ reqs' \in Seq(Request)
        /\ {focus', pending', failed'} \subseteq NodeId \cup {NoNode}
        /\ callers' = <<>> /\ callees' = <<>> /\ callerSel' = 0 /\ calleeSel' = 0
    BY <2>1, FocusStep
  <2> QED
    BY <1>3, <2>2 DEF OnSeeded, TypeOK, searchVars
<1> USE DEF TypeOK, searchVars, graphVars, listVars
<1>1. CASE OnReady(ev)
  BY <1>1, EventKinds DEF OnReady
<1>2. CASE OnMatches(ev)
  BY <1>2, EventKinds DEF OnMatches
<1>4. CASE OnUnseeded(ev)
  BY <1>4 DEF OnUnseeded, Trouble
<1>5. CASE OnExpanded(ev)
  <2>1. ev.node \in NodeId
    BY <1>5, EventKinds DEF OnExpanded
  <2>2. Neighbours[ev.node].callers \in Seq(NodeId) /\ Neighbours[ev.node].callees \in Seq(NodeId)
    BY <2>1, NeighboursAssumption
  <2> QED
    BY <1>5, <2>2, SMTT(60) DEF OnExpanded, Show
<1>6. CASE OnFailed(ev)
  <2>1. ev.node \in NodeId
    BY <1>6, EventKinds DEF OnFailed
  <2> QED
    BY <1>6, <2>1 DEF OnFailed, NoteFailure, Trouble
<1>7. CASE OnWarning(ev)
  BY <1>7 DEF OnWarning, Trouble
<1>8. CASE OnFatal(ev)
  BY <1>8 DEF OnFatal, Trouble
<1> QED
  BY <1>1, <1>2, <1>3, <1>4, <1>5, <1>6, <1>7, <1>8 DEF OnEvent

LEMMA KeyType ==
  ASSUME TypeOK, SelectionsOnEntry, HandleKey
  PROVE  /\ reqs' \in Seq(Request)
         /\ screen' \in {"Starting", "Search", "Graph"}
         /\ canSearch' \in BOOLEAN /\ searched' \in BOOLEAN /\ shouldQuit' \in BOOLEAN
         /\ error' \in Trouble \cup {"none"}
         /\ query' \in Query /\ matchesFor' \in Query
         /\ matches' \in Seq(NodeId) /\ matchSel' \in Nat
         /\ {focus', pending', failed'} \subseteq NodeId \cup {NoNode}
         /\ callers' \in Seq(NodeId) /\ callees' \in Seq(NodeId)
         /\ callerSel' \in Nat /\ calleeSel' \in Nat
         /\ history' \in Seq(NodeId) /\ pane' \in {"Callers", "Focus", "Callees"}
<1>0. 0 \in Query /\ (ClearMatches => matches' \in Seq(NodeId))
  <2>1. 0 \in Query
    BY BoundsAssumption DEF Query
  <2>2. <<>> \in Seq(NodeId)
    OBVIOUS
  <2> QED
    BY <2>1, <2>2 DEF ClearMatches
<1>s. /\ StepDown(matchSel, Len(matches)) \in Nat /\ StepUp(matchSel) \in Nat
      /\ StepDown(callerSel, Len(callers)) \in Nat /\ StepUp(callerSel) \in Nat
      /\ StepDown(calleeSel, Len(callees)) \in Nat /\ StepUp(calleeSel) \in Nat
  <2>1. /\ matches \in Seq(NodeId) /\ callers \in Seq(NodeId) /\ callees \in Seq(NodeId)
        /\ matchSel \in Nat /\ callerSel \in Nat /\ calleeSel \in Nat
    BY DEF TypeOK
  <2> QED
    BY <2>1, StepOnEntry DEF SelectionsOnEntry
<1>1. CASE DismissError
  <2>1. reqs' \in Seq(Request)
    BY <1>1, RequestKinds, AskAppends DEF DismissError, TypeOK
  <2> QED
    BY <1>1, <2>1 DEF DismissError, TypeOK, searchVars, graphVars, listVars
<1>2. CASE QuitKey
  BY <1>2 DEF QuitKey, Quit, TypeOK, searchVars, graphVars, listVars
<1>3. CASE LeaveSearch
  BY <1>3 DEF LeaveSearch, TypeOK, searchVars, graphVars, listVars
<1>4. CASE SubmitQuery
  <2>1. reqs' \in Seq(Request)
    <3>1. Search(query) \in Request
      BY RequestKinds DEF TypeOK
    <3> QED
      BY <1>4, <3>1, AskAppends DEF SubmitQuery
  <2> QED
    BY <1>4, <2>1 DEF SubmitQuery, TypeOK, appVars, searchVars, graphVars, listVars
<1>5. CASE ChooseMatch
  <2>1. reqs' \in Seq(Request)
    <3>1. matches[matchSel + 1] \in NodeId
      BY <1>5, ElementOfSeq DEF ChooseMatch, TypeOK
    <3>2. Seed(matches[matchSel + 1]) \in Request
      BY <3>1, RequestKinds
    <3> QED
      BY <1>5, <3>2, AskAppends DEF ChooseMatch
  <2> QED
    BY <1>5, <2>1 DEF ChooseMatch, TypeOK, appVars, searchVars, graphVars, listVars
<1>6. CASE EditQuery
  <2>1. query' \in Query
    BY <1>6, BoundsAssumption DEF EditQuery, TypeOK, Query
  <2> QED
    <3>1. ClearMatches /\ UNCHANGED <<reqs, screen, canSearch, error, shouldQuit, graphVars, pane>>
      BY <1>6 DEF EditQuery
    <3> QED
      BY <1>0, <2>1, <3>1 DEF ClearMatches, TypeOK, graphVars, listVars
<1>7. CASE SelectMatch
  <2>1. matchSel' \in Nat
    BY <1>7, <1>s DEF SelectMatch
  <2> QED
    <3>1. UNCHANGED <<reqs, screen, canSearch, error, shouldQuit, query, matches, searched,
                      matchesFor, graphVars, pane>>
      BY <1>7 DEF SelectMatch
    <3> QED
      BY <2>1, <3>1 DEF TypeOK, graphVars, listVars
<1>8. CASE EnterSearch
  BY <1>0, <1>8 DEF EnterSearch, ClearMatches, TypeOK, graphVars, listVars
<1>9. CASE Recentre
  <2>1. PICK n \in NodeId : Chosen(n) /\ Focus(n)
    BY <1>9 DEF Recentre
  <2>2. /\ reqs' \in Seq(Request)
        /\ {focus', pending', failed'} \subseteq NodeId \cup {NoNode}
        /\ callers' = <<>> /\ callees' = <<>> /\ callerSel' = 0 /\ calleeSel' = 0
    BY <2>1, FocusStep
  <2>3. history' \in Seq(NodeId)
    BY <1>9, AppendIndex DEF Recentre, TypeOK
  <2> QED
    BY <1>9, <2>2, <2>3 DEF Recentre, TypeOK, searchVars
<1>10. CASE Back
  <2>1. Last(history) \in NodeId /\ Front(history) \in Seq(NodeId)
    BY <1>10, LastFront DEF Back, TypeOK
  <2>2. /\ reqs' \in Seq(Request)
        /\ {focus', pending', failed'} \subseteq NodeId \cup {NoNode}
        /\ callers' = <<>> /\ callees' = <<>> /\ callerSel' = 0 /\ calleeSel' = 0
    BY <1>10, <2>1, FocusStep DEF Back
  <2> QED
    BY <1>10, <2>1, <2>2 DEF Back, TypeOK, searchVars
<1>11. CASE MovePane
  <2>1. pane' \in {"Callers", "Focus", "Callees"}
    BY <1>11 DEF MovePane, TypeOK
  <2> QED
    BY <1>11, <2>1 DEF MovePane, TypeOK, searchVars, graphVars, listVars
<1>12. CASE SelectNeighbour
  <2>1. callerSel' \in Nat /\ calleeSel' \in Nat
    BY <1>12, <1>s DEF SelectNeighbour, TypeOK
  <2> QED
    BY <1>12, <2>1 DEF SelectNeighbour, TypeOK, searchVars
<1> QED
  BY <1>1, <1>2, <1>3, <1>4, <1>5, <1>6, <1>7, <1>8, <1>9, <1>10, <1>11, <1>12 DEF HandleKey

LEMMA AnswerType ==
  ASSUME TypeOK, NEW ev \in Event, reqs # <<>>, Answer(ev)
  PROVE  reqs' \in Seq(Request) /\ events' \in Seq(Event)
  BY TailIndex, AppendIndex DEF TypeOK, Answer

LEMMA TypeStep ==
  ASSUME TypeOK, SelectionsOnEntry, [Next]_vars
  PROVE  TypeOK'
<1>1. CASE TerminalFails
  BY <1>1 DEF TerminalFails, TypeOK, channelVars, workerVars, appVars, searchVars, graphVars, listVars
<1>2. CASE Draw
  BY <1>2 DEF Draw, TypeOK, channelVars, workerVars, appVars, searchVars, graphVars, listVars
<1>3. CASE DrainOne
  <2>1. Head(events) \in Event /\ events' \in Seq(Event)
    BY <1>3, TailIndex DEF DrainOne, TypeOK
  <2>2. OnEvent(Head(events)) /\ UNCHANGED <<worker, workerVars, main, res, status>>
        /\ fatalSeen' \in BOOLEAN
    BY <1>3 DEF DrainOne
  <2> HIDE DEF OnEvent
  <2> QED
    BY <2>1, <2>2, EventType DEF TypeOK, workerVars
<1>4. CASE DrainedAll
  <2>1. /\ UNCHANGED <<events, worker, known, engine, res, status, fatalSeen>>
        /\ main' = "poll"
    BY <1>4 DEF DrainedAll, workerVars
  <2>2. shouldQuit' \in BOOLEAN /\ UNCHANGED <<reqs, screen, canSearch, error, searchVars, graphVars, pane>>
    BY <1>4 DEF DrainedAll, Quit, appVars, TypeOK
  <2> QED
    BY <2>1, <2>2, SMTT(60) DEF TypeOK, searchVars, graphVars, listVars
<1>5. CASE PollKey
  <2>1. HandleKey /\ UNCHANGED <<events, worker, workerVars, res, status, fatalSeen>>
        /\ main' \in {"draw", "leaving"}
    BY <1>5 DEF PollKey, AfterPoll
  <2> QED
    BY <2>1, KeyType DEF TypeOK, workerVars
<1>6. CASE PollTimeout
  BY <1>6 DEF PollTimeout, NoKey, AfterPoll, TypeOK, workerVars, appVars, searchVars, graphVars,
              listVars
<1>7. CASE Leave
  <2>1. reqs' \in Seq(Request)
    BY <1>7, RequestKinds, AskAppends DEF Leave
  <2> QED
    BY <1>7, <2>1 DEF Leave, TypeOK, workerVars, appVars, searchVars, graphVars, listVars
<1>8. CASE Exit
  BY <1>8 DEF Exit, ExitStatus, TypeOK, channelVars, workerVars, appVars, searchVars, graphVars,
              listVars
<1>9. CASE WorkerStep
  <2>1. /\ reqs' \in Seq(Request) /\ events' \in Seq(Event) /\ known' \subseteq NodeId
        /\ worker' \in {"starting", "serving", "closing", "stopped"} /\ engine' \in {"up", "down"}
    <3>1. CASE Announce
      <4>1. events' \in Seq(Event)
        BY <3>1, EventKinds, AppendIndex DEF Announce, TypeOK
      <4> QED
        BY <3>1, <4>1 DEF Announce, workerVars, TypeOK
    <3>2. CASE ServeSearch
      <4>1. PICK ev \in SearchAnswers(Head(reqs).query) : Answer(ev)
        BY <3>2 DEF ServeSearch
      <4>2. reqs # <<>> /\ Head(reqs).query \in Query
        BY <3>2, TailIndex, RequestKinds DEF ServeSearch, Serves, TypeOK
      <4>3. ev \in Event
        BY <4>1, <4>2, EventKinds DEF SearchAnswers
      <4> QED
        BY <3>2, <4>1, <4>2, <4>3, AnswerType DEF ServeSearch, workerVars, TypeOK
    <3>3. CASE ServeSeed
      <4>1. PICK ev \in SeedAnswers(Head(reqs).node) : Answer(ev)
        BY <3>3 DEF ServeSeed
      <4>2. reqs # <<>> /\ Head(reqs).node \in NodeId
        BY <3>3, TailIndex, RequestKinds DEF ServeSeed, Serves, TypeOK
      <4>3. ev \in Event
        BY <4>1, <4>2, EventKinds DEF SeedAnswers
      <4> QED
        BY <3>3, <4>1, <4>2, <4>3, AnswerType DEF ServeSeed, workerVars, TypeOK
    <3>4. CASE ServeExpand
      <4> DEFINE n == Head(reqs).node
      <4>1. PICK ev \in ExpandAnswers(n) :
              Answer(ev) /\ known' = IF ev = Expanded(n) THEN known \cup {n} ELSE known
        BY <3>4 DEF ServeExpand
      <4>2. reqs # <<>> /\ n \in NodeId
        BY <3>4, TailIndex, RequestKinds DEF ServeExpand, Serves, TypeOK
      <4>3. ev \in Event
        BY <4>1, <4>2, EventKinds DEF ExpandAnswers
      <4>4. known' \subseteq NodeId
        BY <4>1, <4>2 DEF TypeOK
      <4> QED
        BY <3>4, <4>1, <4>2, <4>3, <4>4, AnswerType DEF ServeExpand, TypeOK
    <3>5. CASE ServeRestart
      <4>1. Fatal \in Event /\ Answer(Fatal) /\ reqs # <<>>
        BY <3>5, EventKinds DEF ServeRestart, Serves
      <4> QED
        BY <3>5, <4>1, AnswerType DEF ServeRestart, workerVars, TypeOK
    <3>6. CASE ServeShutdown
      BY <3>6, TailIndex DEF ServeShutdown, Serves, workerVars, TypeOK
    <3>7. CASE CloseEngine
      BY <3>7 DEF CloseEngine, TypeOK
    <3> QED
      BY <1>9, <3>1, <3>2, <3>3, <3>4, <3>5, <3>6, <3>7 DEF WorkerStep, WorkerNext
  <2> QED
    BY <1>9, <2>1 DEF WorkerStep, TypeOK, appVars, searchVars, graphVars, listVars, mainVars
<1>10. CASE Done \/ UNCHANGED vars
  BY <1>10 DEF Done, vars, TypeOK, channelVars, workerVars, appVars, searchVars, graphVars,
              listVars, mainVars
<1> QED
  BY <1>1, <1>2, <1>3, <1>4, <1>5, <1>6, <1>7, <1>8, <1>9, <1>10 DEF Next, Loop

----------------------------------------------------------------------------
(* The steps that are neither an event handed to the interface nor a key:  *)
(* they leave what the screens show alone.                                 *)
Unseen ==
  \/ TerminalFails \/ Draw \/ DrainedAll \/ PollTimeout \/ Leave \/ Exit
  \/ WorkerStep \/ Done \/ UNCHANGED vars

LEMMA UnseenShowsNothing ==
  ASSUME Unseen
  PROVE  UNCHANGED <<screen, canSearch, error, searchVars, graphVars, pane>>
<1>1. CASE TerminalFails \/ Draw \/ Leave \/ Exit
  BY <1>1 DEF TerminalFails, Draw, Leave, Exit, appVars
<1>2. CASE DrainedAll \/ PollTimeout
  BY <1>2 DEF DrainedAll, Quit, PollTimeout, NoKey, appVars
<1>3. CASE WorkerStep
  BY <1>3 DEF WorkerStep, appVars
<1>4. CASE Done \/ UNCHANGED vars
  BY <1>4 DEF Done, vars, appVars
<1> QED
  BY <1>1, <1>2, <1>3, <1>4 DEF Unseen

LEMMA StepKinds ==
  ASSUME [Next]_vars
  PROVE  DrainOne \/ PollKey \/ Unseen
  BY DEF Next, Loop, Unseen

(* What a list loses its selection follows. *)
LEMMA SelectionStep ==
  ASSUME TypeOK, SelectionsOnEntry, [Next]_vars
  PROVE  SelectionsOnEntry'
<1>1. CASE DrainOne
  <2> DEFINE ev == Head(events)
  <2>1. OnEvent(ev)
    BY <1>1 DEF DrainOne
  <2>2. CASE OnReady(ev) \/ OnUnseeded(ev) \/ OnFailed(ev) \/ OnWarning(ev) \/ OnFatal(ev)
    BY <2>2 DEF OnReady, OnUnseeded, OnFailed, OnWarning, OnFatal, searchVars, graphVars, listVars,
                SelectionsOnEntry, OnEntry
  <2>3. CASE OnMatches(ev)
    BY <2>3 DEF OnMatches, graphVars, listVars, SelectionsOnEntry, OnEntry
  <2>4. CASE OnSeeded(ev)
    BY <2>4 DEF OnSeeded, Focus, Show, searchVars, SelectionsOnEntry, OnEntry
  <2>5. CASE OnExpanded(ev)
    BY <2>5 DEF OnExpanded, Show, searchVars, listVars, SelectionsOnEntry, OnEntry
  <2> QED
    BY <2>1, <2>2, <2>3, <2>4, <2>5 DEF OnEvent
<1>2. CASE PollKey
  <2>1. HandleKey
    BY <1>2 DEF PollKey
  <2>2. CASE \/ DismissError \/ QuitKey \/ LeaveSearch \/ SubmitQuery \/ ChooseMatch \/ MovePane
    BY <2>2 DEF DismissError, QuitKey, Quit, LeaveSearch, SubmitQuery, ChooseMatch, MovePane,
                appVars, searchVars, graphVars, listVars, SelectionsOnEntry, OnEntry
  <2>3. CASE EditQuery \/ EnterSearch
    <3>1. matchSel' = 0 /\ UNCHANGED graphVars
      BY <2>3 DEF EditQuery, EnterSearch, ClearMatches
    <3> QED
      BY <3>1 DEF graphVars, listVars, SelectionsOnEntry, OnEntry
  <2>4. CASE Recentre \/ Back
    BY <2>4 DEF Recentre, Back, Focus, Show, searchVars, SelectionsOnEntry, OnEntry
  <2>5. CASE SelectMatch
    <3>1. OnEntry(StepDown(matchSel, Len(matches)), matches) /\ OnEntry(StepUp(matchSel), matches)
      BY StepOnEntry DEF TypeOK, SelectionsOnEntry
    <3>2. OnEntry(matchSel', matches) /\ UNCHANGED <<matches, graphVars>>
      BY <2>5, <3>1 DEF SelectMatch
    <3> QED
      BY <3>2 DEF graphVars, listVars, SelectionsOnEntry, OnEntry
  <2>6. CASE SelectNeighbour
    <3>1. /\ OnEntry(StepDown(callerSel, Len(callers)), callers) /\ OnEntry(StepUp(callerSel), callers)
          /\ OnEntry(StepDown(calleeSel, Len(callees)), callees) /\ OnEntry(StepUp(calleeSel), callees)
      BY StepOnEntry DEF TypeOK, SelectionsOnEntry
    <3>2. /\ OnEntry(callerSel', callers) /\ OnEntry(calleeSel', callees)
          /\ UNCHANGED <<callers, callees, searchVars>>
      BY <2>6, <3>1 DEF SelectNeighbour, SelectionsOnEntry
    <3> QED
      BY <3>2 DEF searchVars, SelectionsOnEntry, OnEntry
  <2> QED
    BY <2>1, <2>2, <2>3, <2>4, <2>5, <2>6 DEF HandleKey
<1>3. CASE Unseen
  BY <1>3, UnseenShowsNothing DEF searchVars, graphVars, listVars, SelectionsOnEntry, OnEntry
<1> QED
  BY <1>1, <1>2, <1>3, StepKinds

(* A new focus empties the panes and waits; its answer fills them or marks *)
(* them failed; any other answer changes nothing.                          *)
LEMMA PanesStep ==
  ASSUME TypeOK, PanesFollowFocus, [Next]_vars
  PROVE  PanesFollowFocus'
<1>1. CASE DrainOne
  <2> DEFINE ev == Head(events)
  <2>1. OnEvent(ev) /\ ev \in Event
    BY <1>1, TailIndex DEF DrainOne, TypeOK
  <2> HIDE DEF ev
  <2>2. CASE OnReady(ev) \/ OnMatches(ev) \/ OnUnseeded(ev) \/ OnWarning(ev) \/ OnFatal(ev)
    BY <2>2 DEF OnReady, OnMatches, OnUnseeded, OnWarning, OnFatal, graphVars, listVars,
                PanesFollowFocus
  <2>3. CASE OnSeeded(ev)
    BY <2>3 DEF OnSeeded, Focus, Show, PanesFollowFocus
  <2>4. CASE OnExpanded(ev)
    <3>1. ev.node # NoNode
      BY <2>1, <2>4, EventKinds, NoNodeAssumption DEF OnExpanded
    <3> QED
      BY <2>4, <3>1 DEF OnExpanded, Awaited, Show, listVars, PanesFollowFocus
  <2>5. CASE OnFailed(ev)
    <3>1. ev.node # NoNode
      BY <2>1, <2>5, EventKinds, NoNodeAssumption DEF OnFailed
    <3> QED
      BY <2>5, <3>1 DEF OnFailed, NoteFailure, Awaited, PanesFollowFocus
  <2> QED
    BY <2>1, <2>2, <2>3, <2>4, <2>5 DEF OnEvent
<1>2. CASE PollKey
  <2>1. HandleKey
    BY <1>2 DEF PollKey
  <2>2. CASE \/ DismissError \/ QuitKey \/ LeaveSearch \/ SubmitQuery \/ ChooseMatch \/ EditQuery
             \/ SelectMatch \/ EnterSearch \/ MovePane
    <3>1. UNCHANGED graphVars /\ (screen' = "Graph" => screen = "Graph" \/ focus # NoNode)
      BY <2>2 DEF DismissError, QuitKey, Quit, LeaveSearch, SubmitQuery, ChooseMatch, EditQuery,
                  SelectMatch, EnterSearch, MovePane, appVars
    <3> QED
      BY <3>1 DEF graphVars, listVars, PanesFollowFocus
  <2>3. CASE Recentre
    <3>1. PICK n \in NodeId : Focus(n)
      BY <2>3 DEF Recentre
    <3> QED
      BY <3>1, NoNodeAssumption DEF Focus, Show, PanesFollowFocus
  <2>4. CASE Back
    <3>1. Last(history) \in NodeId /\ Focus(Last(history))
      BY <2>4, LastFront DEF Back, TypeOK
    <3> QED
      BY <3>1, NoNodeAssumption DEF Focus, Show, PanesFollowFocus
  <2>5. CASE SelectNeighbour
    BY <2>5 DEF SelectNeighbour, PanesFollowFocus
  <2> QED
    BY <2>1, <2>2, <2>3, <2>4, <2>5 DEF HandleKey
<1>3. CASE Unseen
  BY <1>3, UnseenShowsNothing DEF graphVars, listVars, PanesFollowFocus
<1> QED
  BY <1>1, <1>2, <1>3, StepKinds

----------------------------------------------------------------------------
(* What the interface asks of the worker while it handles an event or a    *)
(* key: at most one request, and a search only if the server can.          *)
LEMMA AskedStep ==
  ASSUME TypeOK, DrainOne \/ PollKey
  PROVE  \/ reqs' = reqs
         \/ \E r \in Request :
              /\ reqs' = Append(reqs, r)
              /\ r.kind = "Search" => canSearch /\ canSearch'
<1>1. ASSUME NEW r \in Request, Ask(<<r>>), r.kind = "Search" => canSearch /\ canSearch'
      PROVE  \/ reqs' = reqs
             \/ \E q \in Request :
                  reqs' = Append(reqs, q) /\ (q.kind = "Search" => canSearch /\ canSearch')
  BY <1>1, AskAppends
<1>2. ASSUME NEW n \in NodeId
      PROVE  /\ Expand(n) \in Request /\ Expand(n).kind # "Search"
             /\ Seed(n) \in Request /\ Seed(n).kind # "Search"
  BY RequestKinds DEF Expand, Seed
<1>3. CASE DrainOne
  <2> DEFINE ev == Head(events)
  <2>1. OnEvent(ev) /\ ev \in Event
    BY <1>3, TailIndex DEF DrainOne, TypeOK
  <2> HIDE DEF ev
  <2>2. CASE OnSeeded(ev)
    <3>1. ev.node \in NodeId /\ Ask(<<Expand(ev.node)>>)
      BY <2>1, <2>2, EventKinds DEF OnSeeded, Focus
    <3> QED
      BY <1>1, <1>2, <3>1
  <2>3. CASE \/ OnReady(ev) \/ OnMatches(ev) \/ OnUnseeded(ev) \/ OnExpanded(ev) \/ OnFailed(ev)
             \/ OnWarning(ev) \/ OnFatal(ev)
    BY <2>3 DEF OnReady, OnMatches, OnUnseeded, OnExpanded, OnFailed, OnWarning, OnFatal
  <2> QED
    BY <2>1, <2>2, <2>3 DEF OnEvent
<1>4. CASE PollKey
  <2>1. HandleKey
    BY <1>4 DEF PollKey
  <2>2. CASE \/ QuitKey \/ LeaveSearch \/ EditQuery \/ SelectMatch \/ EnterSearch \/ MovePane
             \/ SelectNeighbour
    BY <2>2 DEF QuitKey, Quit, LeaveSearch, EditQuery, SelectMatch, EnterSearch, MovePane,
                SelectNeighbour
  <2>3. CASE DismissError
    BY <1>1, <2>3, RequestKinds DEF DismissError, Restart
  <2>4. CASE SubmitQuery
    <3>1. Search(query) \in Request /\ Ask(<<Search(query)>>) /\ canSearch /\ canSearch'
      BY <2>4, RequestKinds DEF SubmitQuery, TypeOK, appVars
    <3> QED
      BY <1>1, <3>1
  <2>5. CASE ChooseMatch
    <3>1. matches[matchSel + 1] \in NodeId
      BY <2>5, ElementOfSeq DEF ChooseMatch, TypeOK
    <3> QED
      BY <1>1, <1>2, <2>5, <3>1 DEF ChooseMatch
  <2>6. CASE Recentre
    <3>1. PICK n \in NodeId : Ask(<<Expand(n)>>)
      BY <2>6 DEF Recentre, Focus
    <3> QED
      BY <1>1, <1>2, <3>1
  <2>7. CASE Back
    <3>1. Last(history) \in NodeId /\ Ask(<<Expand(Last(history))>>)
      BY <2>7, LastFront DEF Back, Focus, TypeOK
    <3> QED
      BY <1>1, <1>2, <3>1
  <2> QED
    BY <2>1, <2>2, <2>3, <2>4, <2>5, <2>6, <2>7 DEF HandleKey
<1> QED
  BY <1>3, <1>4

LEMMA NoneOfQueue ==
  ASSUME NEW S, NEW s \in Seq(S), NEW kind, NoneOf(kind, s)
  PROVE  /\ s # <<>> => Head(s).kind # kind /\ NoneOf(kind, Tail(s))
         /\ \A m \in S : m.kind # kind => NoneOf(kind, Append(s, m))
<1>1. ASSUME s # <<>> PROVE Head(s).kind # kind /\ NoneOf(kind, Tail(s))
  BY <1>1, TailIndex DEF NoneOf
<1>2. ASSUME NEW m \in S, m.kind # kind PROVE NoneOf(kind, Append(s, m))
  BY <1>2, AppendIndex DEF NoneOf
<1> QED
  BY <1>1, <1>2

LEMMA SearchStep ==
  ASSUME TypeOK, SearchAllowed, [Next]_vars
  PROVE  SearchAllowed'
<1>0. reqs \in Seq(Request) /\ events \in Seq(Event)
  BY DEF TypeOK
<1>1. CASE DrainOne
  <2> DEFINE ev == Head(events)
  <2>1. /\ OnEvent(ev) /\ ev \in Event /\ events # <<>> /\ events' = Tail(events)
        /\ worker' = worker /\ ev = events[1] /\ Len(events) >= 1
    BY <1>1, TailIndex DEF DrainOne, TypeOK
  <2> HIDE DEF ev
  <2>2. worker' # "starting"
    BY <2>1 DEF SearchAllowed
  <2>3. NoneOf("Ready", events')
    BY <1>0, <2>1, TailIndex DEF SearchAllowed, NoneOf
  <2>4. ASSUME ~canSearch'
        PROVE  matches' = <<>> /\ NoneOf("Search", reqs') /\ NoneOf("Matches", events')
    <3>1. ~canSearch
      <4>1. CASE ev.kind = "Ready"
        BY <1>0, <2>1, <4>1, LenProperties DEF SearchAllowed
      <4>2. CASE ev.kind # "Ready"
        BY <2>1, <2>4, <4>2 DEF OnEvent, OnReady, OnMatches, OnSeeded, OnUnseeded, OnExpanded,
           OnFailed, OnWarning, OnFatal
      <4> QED
        BY <4>1, <4>2
    <3>2. matches = <<>> /\ NoneOf("Search", reqs) /\ NoneOf("Matches", events)
      BY <3>1 DEF SearchAllowed
    <3>3. ev.kind # "Matches" /\ NoneOf("Matches", events')
      BY <1>0, <2>1, <3>2, NoneOfQueue DEF ev
    <3>4. matches' = matches
      BY <2>1, <3>3 DEF OnEvent, OnReady, OnMatches, OnSeeded, OnUnseeded, OnExpanded,
         OnFailed, OnWarning, OnFatal, searchVars
    <3>5. NoneOf("Search", reqs')
      BY <1>0, <1>1, <3>1, <3>2, AskedStep, NoneOfQueue
    <3> QED
      BY <3>2, <3>3, <3>4, <3>5
  <2> QED
    BY <2>2, <2>3, <2>4 DEF SearchAllowed, NoneOf
<1>2. CASE PollKey
  <2>1. HandleKey /\ UNCHANGED <<events, worker>>
    BY <1>2 DEF PollKey, AfterPoll
  <2>2. canSearch' = canSearch /\ (matches' = matches \/ matches' = <<>>)
    BY <2>1 DEF HandleKey, DismissError, QuitKey, Quit, LeaveSearch, SubmitQuery, ChooseMatch,
       EditQuery, SelectMatch, EnterSearch, Recentre, Back, MovePane, SelectNeighbour,
       ClearMatches, appVars, searchVars
  <2>3. ~canSearch /\ NoneOf("Search", reqs) => NoneOf("Search", reqs')
    BY <1>0, <1>2, AskedStep, NoneOfQueue
  <2> QED
    BY <2>1, <2>2, <2>3 DEF SearchAllowed, NoneOf
<1>3. CASE Unseen
  <2>1. UNCHANGED <<canSearch, matches>>
    BY <1>3, UnseenShowsNothing DEF searchVars
  <2>2. CASE WorkerStep
    <3>1. CASE Announce
      <4>1. PICK can \in BOOLEAN : events' = Append(events, Ready(can))
        BY <3>1 DEF Announce
      <4>2. /\ events = <<>> /\ ~canSearch /\ worker' = "serving" /\ UNCHANGED reqs
        BY <3>1 DEF Announce, SearchAllowed
      <4>3. Len(events') = 1 /\ events'[1] = Ready(can)
        BY <4>1, <4>2
      <4>4. NoneOf("Matches", events')
        BY <4>3 DEF NoneOf, Ready
      <4> QED
        BY <2>1, <4>2, <4>3, <4>4 DEF SearchAllowed
    <3>2. ASSUME NEW ev \in Event, Answer(ev), reqs # <<>>, worker # "starting",
                 worker' # "starting", ev.kind # "Ready",
                 ev.kind = "Matches" => Head(reqs).kind = "Search"
          PROVE  SearchAllowed'
      <4>1. reqs' = Tail(reqs) /\ events' = Append(events, ev)
        BY <3>2 DEF Answer
      <4>2. \A i \in 1..Len(events') : events'[i].kind = "Ready" => i = 1 /\ ~canSearch'
        BY <1>0, <2>1, <3>2, <4>1, AppendIndex DEF SearchAllowed
      <4>3. ~canSearch => NoneOf("Search", reqs') /\ NoneOf("Matches", events')
        BY <1>0, <3>2, <4>1, NoneOfQueue DEF SearchAllowed
      <4> QED
        BY <2>1, <3>2, <4>2, <4>3 DEF SearchAllowed
    <3>3. CASE ServeSearch
      <4>1. /\ reqs # <<>> /\ Head(reqs) \in Request /\ Head(reqs).kind = "Search"
            /\ worker = "serving" /\ worker' = "serving"
        BY <1>0, <3>3, TailIndex DEF ServeSearch, Serves
      <4>2. PICK ev \in SearchAnswers(Head(reqs).query) : Answer(ev)
        BY <3>3 DEF ServeSearch
      <4>3. ev \in Event /\ ev.kind # "Ready"
        <5>1. Head(reqs).query \in Query
          BY <4>1, RequestKinds
        <5> QED
          BY <4>2, <5>1, EventKinds DEF SearchAnswers, Matches, Warning
      <4> QED
        BY <3>2, <4>1, <4>2, <4>3
    <3>4. CASE ServeSeed
      <4>1. /\ reqs # <<>> /\ Head(reqs) \in Request /\ Head(reqs).kind = "Seed"
            /\ worker = "serving" /\ worker' = "serving"
        BY <1>0, <3>4, TailIndex DEF ServeSeed, Serves
      <4>2. PICK ev \in SeedAnswers(Head(reqs).node) : Answer(ev)
        BY <3>4 DEF ServeSeed
      <4>3. ev \in Event /\ ev.kind \notin {"Ready", "Matches"}
        <5>1. Head(reqs).node \in NodeId
          BY <4>1, RequestKinds
        <5> QED
          BY <4>2, <5>1, EventKinds DEF SeedAnswers, Seeded, Warning
      <4> QED
        BY <3>2, <4>1, <4>2, <4>3
    <3>5. CASE ServeExpand
      <4>1. /\ reqs # <<>> /\ Head(reqs) \in Request /\ Head(reqs).kind = "Expand"
            /\ worker = "serving" /\ worker' = "serving"
        BY <1>0, <3>5, TailIndex DEF ServeExpand, Serves
      <4>2. PICK ev \in ExpandAnswers(Head(reqs).node) : Answer(ev)
        BY <3>5 DEF ServeExpand
      <4>3. ev \in Event /\ ev.kind \notin {"Ready", "Matches"}
        <5>1. Head(reqs).node \in NodeId
          BY <4>1, RequestKinds
        <5>2. ev \in {Expanded(Head(reqs).node), Failed(Head(reqs).node)}
          BY <4>2 DEF ExpandAnswers
        <5> DEFINE n == Head(reqs).node
        <5>3. Expanded(n) \in Event /\ Failed(n) \in Event
          BY <5>1, EventKinds
        <5>4. Expanded(n).kind = "Expanded" /\ Failed(n).kind = "Failed"
          BY DEF Expanded, Failed
        <5> HIDE DEF n
        <5>5. CASE ev = Expanded(n)
          BY <5>3, <5>4, <5>5
        <5>6. CASE ev = Failed(n)
          BY <5>3, <5>4, <5>6
        <5> QED
          BY <5>2, <5>5, <5>6 DEF n
      <4> QED
        BY <3>2, <4>1, <4>2, <4>3
    <3>6. CASE ServeRestart
      <4>1. /\ reqs # <<>> /\ worker = "serving" /\ worker' = "closing" /\ Answer(Fatal)
            /\ Fatal \in Event /\ Fatal.kind \notin {"Ready", "Matches"}
        BY <3>6, EventKinds DEF ServeRestart, Serves, Fatal
      <4> QED
        BY <3>2, <4>1
    <3>7. CASE ServeShutdown
      <4>1. /\ reqs # <<>> /\ reqs' = Tail(reqs) /\ worker' = "closing" /\ UNCHANGED events
        BY <3>7 DEF ServeShutdown, Serves
      <4>2. NoneOf("Search", reqs) => NoneOf("Search", reqs')
        BY <1>0, <4>1, NoneOfQueue
      <4> QED
        BY <2>1, <4>1, <4>2 DEF SearchAllowed
    <3>8. CASE CloseEngine
      <4>1. reqs' = <<>> /\ worker' = "stopped" /\ UNCHANGED events
        BY <3>8 DEF CloseEngine
      <4>2. NoneOf("Search", reqs')
        BY <4>1 DEF NoneOf
      <4> QED
        BY <2>1, <4>1, <4>2 DEF SearchAllowed
    <3> QED
      BY <2>2, <3>1, <3>3, <3>4, <3>5, <3>6, <3>7, <3>8 DEF WorkerStep, WorkerNext
  <2>3. CASE Leave
    <3>1. NoneOf("Search", reqs) => NoneOf("Search", reqs')
      <4>1. Shutdown \in Request /\ Shutdown.kind # "Search"
        BY RequestKinds DEF Shutdown
      <4>2. reqs' = Append(reqs, Shutdown) \/ reqs' = reqs
        BY <2>3, <4>1, AskAppends DEF Leave
      <4> QED
        BY <1>0, <4>1, <4>2, NoneOfQueue
    <3> QED
      BY <2>1, <2>3, <3>1 DEF Leave, SearchAllowed
  <2>4. CASE TerminalFails \/ Draw \/ DrainedAll \/ PollTimeout \/ Exit \/ Done \/ UNCHANGED vars
    <3>1. UNCHANGED <<reqs, events, worker>>
      BY <2>4 DEF TerminalFails, Draw, DrainedAll, Quit, PollTimeout, NoKey, AfterPoll, Exit, Done,
                  vars, channelVars
    <3> QED
      BY <2>1, <3>1 DEF SearchAllowed
  <2> QED
    BY <1>3, <2>2, <2>3, <2>4 DEF Unseen
<1> QED
  BY <1>1, <1>2, <1>3, StepKinds

----------------------------------------------------------------------------
(* The request whose answer is awaited is on its way until it is answered. *)
LEMMA SpinnerStep ==
  ASSUME TypeOK, PanesFollowFocus, SpinnerIsBacked, [Next]_vars
  PROVE  SpinnerIsBacked'
<1>0. reqs \in Seq(Request) /\ events \in Seq(Event)
  BY DEF TypeOK
<1> SUFFICES ASSUME pending' # NoNode, main' # "exited", Listening'
             PROVE  Outstanding(pending)'
  BY DEF SpinnerIsBacked
<1>1. CASE DrainOne
  <2> DEFINE ev == Head(events)
  <2>1. /\ OnEvent(ev) /\ ev \in Event /\ events # <<>> /\ events' = Tail(events)
        /\ worker' = worker /\ main # "exited"
    BY <1>1, TailIndex DEF DrainOne, TypeOK
  <2>2. CASE OnSeeded(ev)
    <3>1. ev.node \in NodeId /\ Focus(ev.node)
      BY <2>1, <2>2, EventKinds DEF OnSeeded
    <3>2. pending' = ev.node /\ reqs' = Append(reqs, Expand(ev.node))
      BY <2>1, <3>1, FocusStep DEF Listening
    <3>3. Contains(reqs', Expand(pending'))
      BY <1>0, <3>1, <3>2, RequestKinds, ContainsAppend
    <3> QED
      BY <3>3 DEF Outstanding
  <2>3. CASE ~OnSeeded(ev)
    <3>1. /\ pending' = pending /\ reqs' = reqs
          /\ ev # Expanded(pending) /\ ev # Failed(pending)
      BY <2>1, <2>3 DEF OnEvent, OnReady, OnMatches, OnUnseeded, OnExpanded, OnFailed, OnWarning,
         OnFatal, NoteFailure, Awaited, Expanded, Failed, graphVars, listVars
    <3>2. Outstanding(pending)
      BY <2>1, <3>1 DEF SpinnerIsBacked, Listening
    <3>3. \A e : Contains(events, e) /\ e # ev => Contains(events', e)
      BY <1>0, <2>1, ContainsTail
    <3> QED
      BY <3>1, <3>2, <3>3 DEF Outstanding
  <2> QED
    BY <2>2, <2>3
<1>2. CASE PollKey
  <2>1. HandleKey /\ main # "exited" /\ UNCHANGED <<events, worker>>
    BY <1>2 DEF PollKey, AfterPoll
  <2>2. UNCHANGED pending \/ \E n \in NodeId : Focus(n)
    <3>1. Back => Last(history) \in NodeId /\ Focus(Last(history))
      BY LastFront DEF Back, TypeOK
    <3> QED
      BY <2>1, <3>1 DEF HandleKey, DismissError, QuitKey, Quit, LeaveSearch, SubmitQuery,
         ChooseMatch, EditQuery, SelectMatch, EnterSearch, Recentre, MovePane,
         SelectNeighbour, appVars, graphVars, listVars
  <2>3. CASE UNCHANGED pending
    <3>1. Outstanding(pending)
      BY <2>1, <2>3 DEF SpinnerIsBacked, Listening
    <3>2. \A e : Contains(reqs, e) => Contains(reqs', e)
      <4>1. CASE reqs' = reqs
        BY <4>1
      <4>2. ASSUME NEW r \in Request, reqs' = Append(reqs, r)
            PROVE  \A e : Contains(reqs, e) => Contains(reqs', e)
        BY <1>0, <4>2, ContainsAppend, Zenon
      <4> QED
        BY <1>2, <4>1, <4>2, AskedStep
    <3> QED
      BY <2>1, <2>3, <3>1, <3>2 DEF Outstanding
  <2>4. ASSUME NEW n \in NodeId, Focus(n)
        PROVE  Outstanding(pending)'
    <3>1. pending' = n /\ reqs' = Append(reqs, Expand(n))
      BY <2>1, <2>4, FocusStep DEF Listening
    <3>2. Contains(reqs', Expand(pending'))
      BY <1>0, <3>1, RequestKinds, ContainsAppend
    <3> QED
      BY <3>2 DEF Outstanding
  <2> QED
    BY <2>2, <2>3, <2>4
<1>3. CASE WorkerStep
  <2>1. pending' = pending /\ main # "exited" /\ WorkerNext
    BY <1>3 DEF WorkerStep, appVars, graphVars, listVars, mainVars
  <2>2. Announce \/ ServeSearch \/ ServeSeed \/ ServeExpand
    BY <2>1 DEF WorkerNext, ServeRestart, ServeShutdown, CloseEngine, Listening
  <2>3. Outstanding(pending)
    BY <2>1, <2>2 DEF SpinnerIsBacked, Listening, Announce, ServeSearch, ServeSeed, ServeExpand,
       Serves
  <2>4. CASE Announce
    <3>1. PICK can \in BOOLEAN : events' = Append(events, Ready(can))
      BY <2>4 DEF Announce
    <3>2. \A e : Contains(events, e) => Contains(events', e)
      BY <1>0, <3>1, EventKinds, ContainsAppend
    <3> QED
      BY <2>1, <2>3, <2>4, <3>2 DEF Announce, Outstanding
  <2>5. ASSUME NEW ev \in Event, Answer(ev), reqs # <<>>
        PROVE  /\ Contains(events', ev)
               /\ \A e : Contains(events, e) => Contains(events', e)
               /\ \A e : Contains(reqs, e) /\ e # Head(reqs) => Contains(reqs', e)
    <3>1. reqs' = Tail(reqs) /\ events' = Append(events, ev)
      BY <2>5 DEF Answer
    <3> QED
      BY <1>0, <2>5, <3>1, ContainsAppend, ContainsTail
  <2>6. CASE ServeSearch
    <3>1. reqs # <<>> /\ Head(reqs) \in Request /\ Head(reqs).kind = "Search"
      BY <1>0, <2>6, TailIndex DEF ServeSearch, Serves
    <3>2. PICK ev \in SearchAnswers(Head(reqs).query) : Answer(ev)
      BY <2>6 DEF ServeSearch
    <3>3. ev \in Event /\ Head(reqs) # Expand(pending)
      BY <3>1, <3>2, RequestKinds, EventKinds DEF SearchAnswers, Expand
    <3> QED
      BY <2>1, <2>3, <2>5, <3>1, <3>2, <3>3 DEF Outstanding
  <2>7. CASE ServeSeed
    <3>1. reqs # <<>> /\ Head(reqs) \in Request /\ Head(reqs).kind = "Seed"
      BY <1>0, <2>7, TailIndex DEF ServeSeed, Serves
    <3>2. PICK ev \in SeedAnswers(Head(reqs).node) : Answer(ev)
      BY <2>7 DEF ServeSeed
    <3>3. ev \in Event /\ Head(reqs) # Expand(pending)
      BY <3>1, <3>2, RequestKinds, EventKinds DEF SeedAnswers, Expand
    <3> QED
      BY <2>1, <2>3, <2>5, <3>1, <3>2, <3>3 DEF Outstanding
  <2>8. CASE ServeExpand
    <3> DEFINE n == Head(reqs).node
    <3>1. reqs # <<>> /\ Head(reqs) \in Request /\ Head(reqs).kind = "Expand"
      BY <1>0, <2>8, TailIndex DEF ServeExpand, Serves
    <3>2. PICK ev \in ExpandAnswers(n) : Answer(ev)
      BY <2>8 DEF ServeExpand
    <3>3. ev \in {Expanded(n), Failed(n)} /\ n \in NodeId
      BY <3>1, <3>2, RequestKinds DEF ExpandAnswers
    <3>4. ev \in Event
      BY <3>3, EventKinds
    <3>5. CASE Head(reqs) = Expand(pending)
      <4>1. n = pending
        BY <3>5 DEF Expand
      <4>2. Contains(events', Expanded(pending)) \/ Contains(events', Failed(pending))
        BY <2>5, <3>1, <3>2, <3>3, <3>4, <4>1
      <4> QED
        BY <2>1, <4>2 DEF Outstanding
    <3>6. CASE Head(reqs) # Expand(pending)
      BY <2>1, <2>3, <2>5, <3>1, <3>2, <3>4, <3>6 DEF Outstanding
    <3> QED
      BY <3>5, <3>6
  <2> QED
    BY <2>2, <2>4, <2>6, <2>7, <2>8
<1>4. CASE \/ TerminalFails \/ Draw \/ DrainedAll \/ PollTimeout \/ Leave \/ Exit
           \/ Done \/ UNCHANGED vars
  <2>1. UNCHANGED <<pending, events, worker>> /\ main # "exited"
    BY <1>4 DEF TerminalFails, Draw, DrainedAll, Quit, PollTimeout, NoKey, AfterPoll, Leave, Exit,
       Done, vars, channelVars, appVars, graphVars, listVars, mainVars
  <2>2. Outstanding(pending)
    BY <2>1 DEF SpinnerIsBacked, Listening
  <2>3. \A e : Contains(reqs, e) => Contains(reqs', e)
    <3>1. CASE Leave
      <4>1. Shutdown \in Request /\ (reqs' = Append(reqs, Shutdown) \/ reqs' = reqs)
        BY <3>1, RequestKinds, AskAppends DEF Leave
      <4>2. CASE reqs' = Append(reqs, Shutdown)
        BY <1>0, <4>1, <4>2, ContainsAppend, Zenon
      <4> QED
        BY <4>1, <4>2
    <3>2. CASE ~Leave
      BY <1>4, <3>2 DEF TerminalFails, Draw, DrainedAll, Quit, PollTimeout, NoKey, Exit, Done, vars,
         channelVars
    <3> QED
      BY <3>1, <3>2
  <2> QED
    BY <2>1, <2>2, <2>3 DEF Outstanding
<1> QED
  BY <1>1, <1>2, <1>3, <1>4, StepKinds DEF Unseen

LEMMA EngineStep ==
  ASSUME EngineFirst, [Next]_vars
  PROVE  EngineFirst'
<1>1. CASE WorkerStep
  BY <1>1 DEF WorkerStep, WorkerNext, Announce, ServeSearch, ServeSeed, ServeExpand, ServeRestart,
     ServeShutdown, CloseEngine, Serves, Answer, workerVars, mainVars, EngineFirst
<1>2. CASE Exit
  BY <1>2 DEF Exit, Joined, channelVars, workerVars, EngineFirst
<1>3. CASE DrainOne \/ PollKey \/ TerminalFails \/ Draw \/ DrainedAll \/ PollTimeout \/ Leave
  BY <1>3 DEF DrainOne, PollKey, AfterPoll, TerminalFails, Draw, DrainedAll, PollTimeout, Leave,
     channelVars, workerVars, EngineFirst
<1>4. CASE Done \/ UNCHANGED vars
  BY <1>4 DEF Done, vars, channelVars, workerVars, mainVars, EngineFirst
<1> QED
  BY <1>1, <1>2, <1>3, <1>4, StepKinds DEF Unseen

LEMMA InitInv == Init => Inv
<1> SUFFICES ASSUME Init
             PROVE  Inv
  OBVIOUS
<1>0. 0 \in Query
  BY BoundsAssumption DEF Query
<1>1. 0 \in Query /\ <<>> \in Seq(Request) /\ <<>> \in Seq(Event) /\ <<>> \in Seq(NodeId)
  BY <1>0
<1>2. TypeOK
  BY <1>1 DEF Init, AppInit, WorkerInit, TypeOK, Trouble
<1>3. SelectionsOnEntry /\ PanesFollowFocus
  BY DEF Init, AppInit, SelectionsOnEntry, OnEntry, PanesFollowFocus
<1>4. SearchAllowed /\ SpinnerIsBacked /\ EngineFirst
  BY DEF Init, AppInit, WorkerInit, SearchAllowed, NoneOf, SpinnerIsBacked, EngineFirst
<1> QED
  BY <1>2, <1>3, <1>4 DEF Inv

LEMMA NextInv == Inv /\ [Next]_vars => Inv'
  BY TypeStep, SelectionStep, PanesStep, SearchStep, SpinnerStep, EngineStep DEF Inv

----------------------------------------------------------------------------
(* What the panes of the graph show, from the state behind them. *)
LEMMA HonestGraph ==
  ASSUME Inv
  PROVE  PanesAreHonest
<1> SUFFICES ASSUME screen = "Graph"
             PROVE  PanesAreHonest
  BY DEF PanesAreHonest
<1>1. /\ Shown.panes[1] = CallersPane /\ Shown.panes[2] = CalleesPane /\ Shown.title = focus
  BY DEF Shown, GraphScreen, Screenful
<1>2. PanesFollowFocus
  BY DEF Inv
<1>3. CASE Spins
  BY <1>1, <1>2, <1>3 DEF CallersPane, CalleesPane, Side, Body, Spins, PanesFollowFocus,
     PanesAreHonest
<1>4. CASE ~Spins /\ ExpansionFailed
  <2>1. CallersPane.kind = "expansion failed" /\ CalleesPane.kind = "expansion failed"
    BY <1>4 DEF CallersPane, CalleesPane, Side, Body
  <2> QED
    BY <1>1, <1>2, <1>4, <2>1 DEF ExpansionFailed, PanesFollowFocus, PanesAreHonest
<1>5. CASE ~Spins /\ ~ExpansionFailed
  <2>1. /\ CallersPane.kind = "list" /\ CallersPane.entries = callers
        /\ CalleesPane.kind = "list" /\ CalleesPane.entries = callees
    BY <1>5 DEF CallersPane, CalleesPane, Side, List, Unselected
  <2> QED
    BY <1>1, <1>2, <1>5, <2>1 DEF Spins, ExpansionFailed, PanesFollowFocus, PanesAreHonest
<1> QED
  BY <1>3, <1>4, <1>5

(* The one entry a list highlights. *)
LEMMA ListHighlights ==
  ASSUME NEW S, NEW es \in Seq(S), NEW sel \in Nat, OnEntry(sel, es)
  PROVE  /\ List(es, sel).entries = es
         /\ sel < Len(es) => /\ List(es, sel).highlighted = sel + 1 /\ sel + 1 > 0
                             /\ es[sel + 1] \in S
         /\ ~(sel < Len(es)) => List(es, sel).highlighted = 0 /\ es = <<>>
<1>1. Len(es) \in Nat /\ (es # <<>> => Len(es) >= 1)
  BY LenProperties, TailIndex
<1>2. sel < Len(es) => sel + 1 \in 1..Len(es)
  BY <1>1
<1>3. ~(sel < Len(es)) => es = <<>>
  BY <1>1 DEF OnEntry
<1>4. sel < Len(es) => es[sel + 1] \in S
  BY <1>2, ElementOfSeq
<1> QED
  BY <1>3, <1>4 DEF List

LEMMA EnterHighlighted ==
  ASSUME Inv
  PROVE  EnterTakesHighlighted
<1> DEFINE Lit(ps) == {p.entries[p.highlighted] : p \in {q \in ps : q.highlighted > 0}}
<1>0. /\ matches \in Seq(NodeId) /\ callers \in Seq(NodeId) /\ callees \in Seq(NodeId)
      /\ matchSel \in Nat /\ callerSel \in Nat /\ calleeSel \in Nat
      /\ OnEntry(matchSel, matches) /\ OnEntry(callerSel, callers) /\ OnEntry(calleeSel, callees)
      /\ pane \in {"Callers", "Focus", "Callees"} /\ screen \in {"Starting", "Search", "Graph"}
  BY DEF Inv, TypeOK, SelectionsOnEntry
<1>1. Shown.over.message = error
  BY DEF Shown, GraphScreen, SearchScreen, StartScreen, Screenful, ErrorBox, Overlay
<1>2. CASE Overlay
  <2>1. Taken = {}
    BY <1>2 DEF Taken, On
  <2> QED
    BY <1>1, <1>2, <2>1 DEF EnterTakesHighlighted, Overlay
<1>3. CASE ~Overlay /\ screen = "Graph"
  <2>1. /\ Shown.panes = <<CallersPane, CalleesPane>>
        /\ Highlighted = Lit({CallersPane, CalleesPane})
    BY <1>3 DEF Shown, GraphScreen, Screenful, Highlighted, ToSet
  <2>2. Choosable <=> \/ CallersPane.entries # <<>> /\ pane = "Callers"
                      \/ CalleesPane.entries # <<>> /\ pane = "Callees"
    BY <1>3, <2>1 DEF Choosable
  <2>3. Taken = {n \in NodeId : Chosen(n)}
    BY <1>3 DEF Taken, On
  <2>4. CASE Spins \/ ExpansionFailed
    <3>1. /\ CallersPane.highlighted = 0 /\ CallersPane.entries = <<>>
          /\ CalleesPane.highlighted = 0 /\ CalleesPane.entries = <<>>
      BY <2>4 DEF CallersPane, CalleesPane, Side, Body
    <3>2. callers = <<>> /\ callees = <<>>
      BY <2>4 DEF Inv, PanesFollowFocus, Spins, ExpansionFailed
    <3>3. Taken = {}
      BY <1>0, <2>3, <3>2 DEF Chosen
    <3> QED
      BY <1>1, <1>3, <2>1, <2>2, <3>1, <3>3 DEF EnterTakesHighlighted, Overlay
  <2>5. CASE ~Spins /\ ~ExpansionFailed /\ pane = "Callers"
    <3>1. CallersPane = List(callers, callerSel) /\ CalleesPane.highlighted = 0
      BY <2>5 DEF CallersPane, CalleesPane, Side, Unselected
    <3>2. Taken = IF callerSel < Len(callers) THEN {callers[callerSel + 1]} ELSE {}
      BY <1>0, <2>3, <2>5, ListHighlights DEF Chosen
    <3>3. Highlighted = IF callerSel < Len(callers) THEN {callers[callerSel + 1]} ELSE {}
      BY <1>0, <2>1, <3>1, ListHighlights
    <3>4. Choosable => callerSel < Len(callers)
      BY <1>0, <2>2, <2>5, <3>1, ListHighlights
    <3> QED
      BY <1>1, <1>3, <3>2, <3>3, <3>4 DEF EnterTakesHighlighted, Overlay
  <2>6. CASE ~Spins /\ ~ExpansionFailed /\ pane = "Callees"
    <3>1. CalleesPane = List(callees, calleeSel) /\ CallersPane.highlighted = 0
      BY <2>6 DEF CallersPane, CalleesPane, Side, Unselected
    <3>2. Taken = IF calleeSel < Len(callees) THEN {callees[calleeSel + 1]} ELSE {}
      BY <1>0, <2>3, <2>6, ListHighlights DEF Chosen
    <3>3. Highlighted = IF calleeSel < Len(callees) THEN {callees[calleeSel + 1]} ELSE {}
      BY <1>0, <2>1, <3>1, ListHighlights
    <3>4. Choosable => calleeSel < Len(callees)
      BY <1>0, <2>2, <2>6, <3>1, ListHighlights
    <3> QED
      BY <1>1, <1>3, <3>2, <3>3, <3>4 DEF EnterTakesHighlighted, Overlay
  <2>7. CASE ~Spins /\ ~ExpansionFailed /\ pane = "Focus"
    <3>1. CallersPane.highlighted = 0 /\ CalleesPane.highlighted = 0
      BY <2>7 DEF CallersPane, CalleesPane, Side, Unselected
    <3>2. Taken = {} /\ ~Choosable
      BY <2>2, <2>3, <2>7 DEF Chosen
    <3> QED
      BY <1>1, <1>3, <2>1, <3>1, <3>2 DEF EnterTakesHighlighted, Overlay
  <2> QED
    BY <1>0, <2>4, <2>5, <2>6, <2>7
<1>4. CASE ~Overlay /\ screen = "Search"
  <2>1. /\ Shown.panes = <<ResultPane>> /\ Highlighted = Lit({ResultPane})
    BY <1>4 DEF Shown, SearchScreen, Screenful, Highlighted, ToSet
  <2>2. Choosable <=> ResultPane.entries # <<>>
    BY <1>4, <2>1 DEF Choosable
  <2>3. Taken = IF matchSel < Len(matches) THEN {matches[matchSel + 1]} ELSE {}
    BY <1>4 DEF Taken, On
  <2>4. CASE canSearch /\ matches # <<>>
    <3>1. ResultPane = List(matches, matchSel)
      BY <2>4 DEF ResultPane
    <3>2. Highlighted = {matches[matchSel + 1]} /\ matchSel < Len(matches)
      BY <1>0, <2>1, <2>4, <3>1, ListHighlights
    <3> QED
      BY <1>1, <1>4, <2>3, <3>2 DEF EnterTakesHighlighted, Overlay
  <2>5. CASE ~(canSearch /\ matches # <<>>)
    <3>1. matches = <<>>
      BY <2>5 DEF Inv, SearchAllowed
    <3>2. ResultPane.highlighted = 0 /\ ResultPane.entries = <<>>
      BY <2>5 DEF ResultPane, Body
    <3>3. Taken = {}
      BY <1>0, <2>3, <3>1
    <3> QED
      BY <1>1, <1>4, <2>1, <2>2, <3>2, <3>3 DEF EnterTakesHighlighted, Overlay
  <2> QED
    BY <2>4, <2>5
<1>5. CASE ~Overlay /\ screen = "Starting"
  <2>1. Shown.panes = <<>> /\ Taken = {}
    BY <1>5 DEF Shown, StartScreen, Screenful, Taken, On
  <2>2. Highlighted = {} /\ ~Choosable
    BY <2>1 DEF Highlighted, Choosable, ToSet
  <2> QED
    BY <1>1, <1>5, <2>1, <2>2 DEF EnterTakesHighlighted, Overlay
<1> QED
  BY <1>0, <1>2, <1>3, <1>4, <1>5

----------------------------------------------------------------------------
(* The inductive invariant holds throughout. *)
THEOREM Invariance == Spec => []Inv
  BY InitInv, NextInv, PTL DEF Spec

(* Channels, interface, worker and loop stay within their types. *)
THEOREM TypeCorrect == Spec => []TypeOK
<1>1. Inv => TypeOK
  BY DEF Inv
<1> QED
  BY <1>1, Invariance, PTL

(* on_event and handle_key never leave a spinner that no answer is coming  *)
(* for: whatever sets `pending` asks, and every answer clears it.          *)
THEOREM SpinnersAreBacked == Spec => []SpinnerIsBacked
<1>1. Inv => SpinnerIsBacked
  BY DEF Inv
<1> QED
  BY <1>1, Invariance, PTL

(* What ui/graph.rs draws around a symbol is the spinner of its expansion, *)
(* its failure, or its neighbours: an answer on_event discards as stale    *)
(* never shows, and none it should have taken is missing.                  *)
THEOREM PanesHonest == Spec => []PanesAreHonest
<1>1. Inv => PanesAreHonest
  BY HonestGraph
<1> QED
  BY <1>1, Invariance, PTL

(* Enter in keys.rs takes the entry ui/ highlights, nothing else, and      *)
(* nothing behind an error box: no list is replaced under its selection.   *)
THEOREM EnterIsHighlighted == Spec => []EnterTakesHighlighted
<1>1. Inv => EnterTakesHighlighted
  BY EnterHighlighted
<1> QED
  BY <1>1, Invariance, PTL

(* main.rs joins the worker before it ends, and the worker shuts its       *)
(* engine down before it does: no language server outlives the process.    *)
THEOREM EngineClosesFirst == Spec => []NoOrphanedEngine
<1>1. Inv => NoOrphanedEngine
  BY DEF Inv, EngineFirst, NoOrphanedEngine
<1> QED
  BY <1>1, Invariance, PTL

=============================================================================
