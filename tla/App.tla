-------------------------------- MODULE App --------------------------------
(***************************************************************************)
(* The interface state of app.rs and the bindings of keys.rs.              *)
(*                                                                         *)
(* OnEvent is on_event, HandleKey is handle_key; the requests a handler    *)
(* returns are sent by its caller before anything else happens, so they    *)
(* are sent here.  A key that does nothing is NoKey.  Selections count     *)
(* from 0 as in the code.  Bounds: MaxQuery letters, MaxHistory entries in *)
(* the breadcrumb, and no key asks for more while MaxInFlight are under    *)
(* way; each is a guard of the keys that would exceed it.                  *)
(***************************************************************************)
EXTENDS Channels

VARIABLES
  screen, canSearch, error, shouldQuit,
  query, matches, matchSel, searched,
  matchesFor,   \* ghost: the query the result list answers
  focus, callers, callees, callerSel, calleeSel, pending, failed, history, pane

searchVars == <<query, matches, matchSel, searched, matchesFor>>
listVars   == <<callers, callees, callerSel, calleeSel, pending, failed>>
graphVars  == <<focus, history, listVars>>
appVars    == <<screen, canSearch, error, shouldQuit, searchVars, graphVars, pane>>

(* What the overlay shows: a seed without hierarchy, a failed request, the  *)
(* end of the session. *)
Trouble == {"unseeded", "trouble", "fatal"}

AppInit ==
  /\ screen = "Starting"
  /\ canSearch = FALSE
  /\ error = "none"
  /\ shouldQuit = FALSE
  /\ query = 0
  /\ matches = <<>>
  /\ matchSel = 0
  /\ searched = FALSE
  /\ matchesFor = 0
  /\ focus = NoNode
  /\ callers = <<>>
  /\ callees = <<>>
  /\ callerSel = 0
  /\ calleeSel = 0
  /\ pending = NoNode
  /\ failed = NoNode
  /\ history = <<>>
  /\ pane = "Callers"

----------------------------------------------------------------------------
(* Shared bodies. *)

(* The lists of n are shown, the first entry of each selected. *)
Show(in, out) ==
  /\ callers' = in
  /\ callees' = out
  /\ callerSel' = 0
  /\ calleeSel' = 0

(* n becomes the focus and its expansion is asked for: the panes are empty *)
(* and pending until the answer comes.                                     *)
Focus(n) ==
  /\ focus' = n
  /\ Show(<<>>, <<>>)
  /\ pending' = n
  /\ failed' = NoNode
  /\ Ask(<<Expand(n)>>)

ClearMatches ==
  /\ matches' = <<>>
  /\ matchSel' = 0
  /\ searched' = FALSE
  /\ matchesFor' = 0

Quit ==
  /\ shouldQuit' = TRUE
  /\ UNCHANGED <<reqs, screen, canSearch, error, searchVars, graphVars, pane>>

----------------------------------------------------------------------------
(* on_event, by the kind of the event. *)

OnReady(ev) ==
  /\ ev.kind = "Ready"
  /\ canSearch' = ev.can
  /\ screen' = "Search"
  /\ UNCHANGED <<reqs, error, shouldQuit, searchVars, graphVars, pane>>

OnMatches(ev) ==
  /\ ev.kind = "Matches"
  /\ matches' = ev.matches
  /\ matchSel' = 0
  /\ searched' = TRUE
  /\ matchesFor' = ev.query
  /\ UNCHANGED <<reqs, screen, canSearch, error, shouldQuit, query, graphVars, pane>>

OnSeeded(ev) ==
  /\ ev.kind = "Seeded"
  /\ ev.node # NoNode
  /\ screen' = "Graph"
  /\ Focus(ev.node)
  /\ UNCHANGED <<canSearch, error, shouldQuit, searchVars, history, pane>>

OnUnseeded(ev) ==
  /\ ev.kind = "Seeded"
  /\ ev.node = NoNode
  /\ error' = "unseeded"
  /\ UNCHANGED <<reqs, screen, canSearch, shouldQuit, searchVars, graphVars, pane>>

(* Mutant: every answer counts. *)
AwaitedOrNot(n) == n \in NodeId

(* An answer counts when it is about the node whose answer is awaited. *)
Awaited(n) == pending = n

OnExpanded(ev) ==
  /\ ev.kind = "Expanded"
  /\ IF Awaited(ev.node)
     THEN /\ pending' = NoNode
          /\ failed' = NoNode
          /\ Show(Neighbours[ev.node].callers, Neighbours[ev.node].callees)
     ELSE UNCHANGED listVars
  /\ UNCHANGED <<reqs, screen, canSearch, error, shouldQuit, searchVars,
                 focus, history, pane>>

(* Mutant: the failure is noted, the spinner left turning. *)
NoteFailureOnly(n) ==
  /\ failed' = IF Awaited(n) THEN n ELSE failed
  /\ UNCHANGED pending

(* An awaited answer that is a failure: the panes say so. *)
NoteFailure(n) ==
  IF Awaited(n) THEN pending' = NoNode /\ failed' = n ELSE UNCHANGED <<pending, failed>>

OnFailed(ev) ==
  /\ ev.kind = "Failed"
  /\ NoteFailure(ev.node)
  /\ error' = "trouble"
  /\ UNCHANGED <<reqs, screen, canSearch, shouldQuit, searchVars,
                 focus, history, callers, callees, callerSel, calleeSel, pane>>

OnWarning(ev) ==
  /\ ev.kind = "Warning"
  /\ error' = "trouble"
  /\ UNCHANGED <<reqs, screen, canSearch, shouldQuit, searchVars, graphVars, pane>>

OnFatal(ev) ==
  /\ ev.kind = "Fatal"
  /\ error' = "fatal"
  /\ shouldQuit' = TRUE
  /\ UNCHANGED <<reqs, screen, canSearch, searchVars, graphVars, pane>>

OnEvent(ev) ==
  \/ OnReady(ev)
  \/ OnMatches(ev)
  \/ OnSeeded(ev)
  \/ OnUnseeded(ev)
  \/ OnExpanded(ev)
  \/ OnFailed(ev)
  \/ OnWarning(ev)
  \/ OnFatal(ev)

----------------------------------------------------------------------------
(* handle_key.  Ctrl-C comes before everything, an error overlay before    *)
(* the screens.                                                            *)

Overlay == error # "none"
On(s)   == ~Overlay /\ screen = s

(* Esc dismisses the overlay; `r` does too and asks for a restart. *)
DismissError ==
  /\ Overlay
  /\ error' = "none"
  /\ \/ UNCHANGED reqs
     \/ Room /\ Ask(<<Restart>>)
  /\ UNCHANGED <<screen, canSearch, shouldQuit, searchVars, graphVars, pane>>

(* `q` on the overlay and on the graph, Esc on a search with no graph      *)
(* behind it, Ctrl-C anywhere.                                             *)
QuitKey == Quit

LeaveSearch ==
  /\ On("Search")
  /\ focus # NoNode
  /\ screen' = "Graph"
  /\ UNCHANGED <<reqs, canSearch, error, shouldQuit, searchVars, graphVars, pane>>

(* Enter: submit the query while there is no match to choose. *)
SubmitQuery ==
  /\ On("Search")
  /\ matches = <<>>
  /\ canSearch /\ query > 0
  /\ Room
  /\ Ask(<<Search(query)>>)
  /\ UNCHANGED appVars

ChooseMatch ==
  /\ On("Search")
  /\ matchSel < Len(matches)
  /\ Room
  /\ Ask(<<Seed(matches[matchSel + 1])>>)
  /\ UNCHANGED appVars

(* A letter or Backspace; on an empty box Backspace still clears the list. *)
EditQuery ==
  /\ On("Search")
  /\ \/ query < MaxQuery /\ query' = query + 1
     \/ query' = IF query = 0 THEN 0 ELSE query - 1
  /\ ClearMatches
  /\ UNCHANGED <<reqs, screen, canSearch, error, shouldQuit, graphVars, pane>>

(* Mutants: no clamp at the end of the list, none at its start. *)
StepPastEnd(sel, len) == IF len = 0 THEN sel ELSE sel + 1
StepPastStart(sel)    == sel - 1

(* The selection after a step down or up a list of len entries. *)
StepDown(sel, len) == IF len = 0 THEN sel ELSE Min({sel + 1, len - 1})

StepUp(sel) == IF sel = 0 THEN 0 ELSE sel - 1

SelectMatch ==
  /\ On("Search")
  /\ matchSel' \in {StepDown(matchSel, Len(matches)), StepUp(matchSel)}
  /\ UNCHANGED <<reqs, screen, canSearch, error, shouldQuit, query, matches, searched,
                 matchesFor, graphVars, pane>>

EnterSearch ==
  /\ On("Graph")
  /\ screen' = "Search"
  /\ query' = 0
  /\ ClearMatches
  /\ UNCHANGED <<reqs, canSearch, error, shouldQuit, graphVars, pane>>

(* Enter on the graph: the selected neighbour becomes the focus, and the   *)
(* old focus is pushed on the breadcrumb.                                  *)
Chosen(n) ==
  \/ pane = "Callers" /\ callerSel < Len(callers) /\ n = callers[callerSel + 1]
  \/ pane = "Callees" /\ calleeSel < Len(callees) /\ n = callees[calleeSel + 1]

Recentre ==
  /\ On("Graph")
  /\ Room
  /\ Len(history) < MaxHistory
  /\ \E n \in NodeId : Chosen(n) /\ Focus(n)
  /\ history' = IF focus = NoNode THEN history ELSE Append(history, focus)
  /\ UNCHANGED <<screen, canSearch, error, shouldQuit, searchVars, pane>>

Back ==
  /\ On("Graph")
  /\ Room
  /\ history # <<>>
  /\ Focus(Last(history))
  /\ history' = Front(history)
  /\ UNCHANGED <<screen, canSearch, error, shouldQuit, searchVars, pane>>

MovePane ==
  /\ On("Graph")
  /\ pane' \in CASE pane = "Focus" -> {"Callers", "Callees"}
                 [] OTHER -> {pane, "Focus"}
  /\ UNCHANGED <<reqs, screen, canSearch, error, shouldQuit, searchVars, graphVars>>

SelectNeighbour ==
  /\ On("Graph")
  /\ \/ /\ pane = "Callers"
        /\ callerSel' \in {StepDown(callerSel, Len(callers)), StepUp(callerSel)}
        /\ UNCHANGED calleeSel
     \/ /\ pane = "Callees"
        /\ calleeSel' \in {StepDown(calleeSel, Len(callees)), StepUp(calleeSel)}
        /\ UNCHANGED callerSel
  /\ UNCHANGED <<reqs, screen, canSearch, error, shouldQuit, searchVars, focus, history,
                 callers, callees, pending, failed, pane>>

NoKey == UNCHANGED <<reqs, appVars>>

HandleKey ==
  \/ DismissError
  \/ QuitKey
  \/ LeaveSearch
  \/ SubmitQuery
  \/ ChooseMatch
  \/ EditQuery
  \/ SelectMatch
  \/ EnterSearch
  \/ Recentre
  \/ Back
  \/ MovePane
  \/ SelectNeighbour
=============================================================================
