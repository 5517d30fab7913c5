------------------------------- MODULE Views -------------------------------
(***************************************************************************)
(* What ui/ draws of the interface state: which of the possible bodies     *)
(* every pane has, which entry is highlighted, and what lies on top.       *)
(*                                                                         *)
(* A pane is a record of its kind and, for a list, of the entries and the  *)
(* highlighted one (0 when none is).  Texts, borders and the layout are    *)
(* left out; a list is drawn from its top, however long it is.             *)
(***************************************************************************)
EXTENDS App

Body(kind)    == [kind |-> kind, entries |-> <<>>, highlighted |-> 0]
List(es, sel) == [kind |-> "list", entries |-> es,
                  highlighted |-> IF sel < Len(es) THEN sel + 1 ELSE 0]
Unselected(es) == [kind |-> "list", entries |-> es, highlighted |-> 0]

Spins           == pending # NoNode
ExpansionFailed == failed # NoNode /\ failed = focus

(* A side pane of the graph: only the active one highlights an entry. *)
Side(which, entries, sel) ==
  IF Spins THEN Body("spinner")
  ELSE IF ExpansionFailed THEN Body("expansion failed")
  ELSE IF pane = which THEN List(entries, sel) ELSE Unselected(entries)

CallersPane == Side("Callers", callers, callerSel)
CalleesPane == Side("Callees", callees, calleeSel)

Breadcrumb == IF focus = NoNode THEN history ELSE Append(history, focus)

(* draw_error: the message over the middle of whatever is behind it, and   *)
(* the keys that work there.                                               *)
ErrorBox == IF Overlay THEN [message |-> error, keys |-> {"Esc", "r", "q"}]
            ELSE [message |-> "none", keys |-> {}]

Screenful(crumbs, panes, title) ==
  [crumbs |-> crumbs, panes |-> panes, title |-> title, over |-> ErrorBox]

GraphScreen == Screenful(Breadcrumb, <<CallersPane, CalleesPane>>, focus)

(* The pane under the search box. *)
ResultPane ==
  IF ~canSearch THEN Body("unsupported")
  ELSE IF matches # <<>> THEN List(matches, matchSel)
  ELSE IF searched THEN Body("no matches")
  ELSE IF query = 0 THEN Body("idle hint") ELSE Body("press Enter")

SearchScreen == Screenful(<<>>, <<ResultPane>>, NoNode)
StartScreen  == Screenful(<<>>, <<>>, NoNode)

Shown ==
  CASE screen = "Graph"  -> GraphScreen
    [] screen = "Search" -> SearchScreen
    [] OTHER             -> StartScreen
=============================================================================
