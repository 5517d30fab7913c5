------------------------------- MODULE Engine -------------------------------
(***************************************************************************)
(* The lazy, memoizing engine of engine.rs on top of the call graph.       *)
(*                                                                         *)
(* Every public operation is one action: the engine owns its server and is *)
(* driven by one caller, so no step of anybody else comes between the      *)
(* requests of one operation.  What the server says is a choice: seeding   *)
(* may find an item at another position than the candidate's, find none,   *)
(* keep reporting ContentModified until the retries of server.rs are used  *)
(* up, or fail; expanding gets one of the answers in Answers, or fails.    *)
(***************************************************************************)
EXTENDS CallGraph, Naturals

CONSTANTS
  FileUri,        \* the uris `to_file_path` accepts
  Answers,        \* what the server may say of each symbol's callers and callees
  NoNode,         \* Option::None where a NodeId is expected
  MaxExpansions   \* bound of the checked instances

ASSUME FileUriAssumption == FileUri \subseteq Uri
ASSUME AnswersAssumption == Answers \in [NodeId -> SUBSET Expansion]
ASSUME NoNodeAssumption == NoNode \notin NodeId
ASSUME MaxExpansionsAssumption == MaxExpansions \in Nat

VARIABLES
  items,       \* the symbols with a CallHierarchyItem
  expansions,  \* expansions_performed
  reply        \* the last operation, the symbol it was about, its expansion

vars == <<graphVars, items, expansions, reply>>

Op == {"none", "unseedable", "resolved", "unresolved", "failed",
       "remembered", "blank", "expanded", "invalidated"}

Reply(op, n, exp) == reply' = [op |-> op, id |-> n, exp |-> exp]

Says(op, n) == Reply(op, n, EmptyExpansion)

Init ==
  /\ NewGraph
  /\ items = {}
  /\ expansions = 0
  /\ reply = [op |-> "none", id |-> NoNode, exp |-> EmptyExpansion]

----------------------------------------------------------------------------
(* seed.  `c` is the candidate's own identity: its uri, position and name. *)

(* A uri that is not a file path is turned down before anything is asked. *)
SeedNotAFile(c) ==
  /\ UriOf[c] \notin FileUri
  /\ Says("unseedable", c)
  /\ UNCHANGED <<graphVars, items, expansions>>

(* intern, for every symbol an answer names. *)
Intern(S) == items' = items \cup S

(* The server prepares an item, whose identity need not be the candidate's. *)
SeedResolved(c, n) ==
  /\ UriOf[c] \in FileUri
  /\ state' = Upserted({n}, "Unexpanded")
  /\ Intern({n})
  /\ Says("resolved", n)
  /\ UNCHANGED <<callers, callees, expansions>>

SeedUnresolved(c, why) ==
  /\ UriOf[c] \in FileUri
  /\ RecordUnresolved(c, why)
  /\ Says("unresolved", c)
  /\ UNCHANGED <<items, expansions>>

SeedFails(c) ==
  /\ UriOf[c] \in FileUri
  /\ Says("failed", c)
  /\ UNCHANGED <<graphVars, items, expansions>>

----------------------------------------------------------------------------
(* expand. *)

IsExpanded(n) == state[n] = "Expanded"

(* Mutant: what is on record is not looked at. *)
AskAgain(n) == n \in items

(* The server is asked when nothing is on record and there is an item. *)
MustAsk(n) == ~IsExpanded(n) /\ n \in items

ExpandRemembered(n) ==
  /\ IsExpanded(n)
  /\ Reply("remembered", n, Recorded(n))
  /\ UNCHANGED <<graphVars, items, expansions>>

ExpandBlank(n) ==
  /\ ~IsExpanded(n)
  /\ n \notin items
  /\ Says("blank", n)
  /\ UNCHANGED <<graphVars, items, expansions>>

ExpandAsks(n, exp) ==
  /\ MustAsk(n)
  /\ expansions < MaxExpansions
  /\ expansions' = expansions + 1
  /\ Intern(Mentioned(exp))
  /\ RecordExpansion(Upserted(Mentioned(exp), "Unexpanded"), n, exp)
  /\ Reply("expanded", n, exp)

(* Either request may fail; nothing is interned before both are answered. *)
ExpandFails(n) ==
  /\ MustAsk(n)
  /\ Says("failed", n)
  /\ UNCHANGED <<graphVars, items, expansions>>

----------------------------------------------------------------------------
(* Mutant: the edited file's items are the ones retained. *)
RetainedItems(u) == items \cap InFile(u)

ForgottenItems(u) == items \ InFile(u)

(* Mutant: an edit takes back an expansion that was counted. *)
InvalidateFileUncounted(u) ==
  /\ RemoveFile(u)
  /\ items' = ForgottenItems(u)
  /\ Says("invalidated", NoNode)
  /\ expansions' = expansions - 1

InvalidateFile(u) ==
  /\ RemoveFile(u)
  /\ items' = ForgottenItems(u)
  /\ Says("invalidated", NoNode)
  /\ UNCHANGED expansions

Seed(c) ==
  \/ SeedNotAFile(c)
  \/ \E n \in NodeId : SeedResolved(c, n)
  \/ \E why \in Unresolved : SeedUnresolved(c, why)
  \/ SeedFails(c)

Expand(n) ==
  \/ ExpandRemembered(n)
  \/ ExpandBlank(n)
  \/ \E exp \in Answers[n] : ExpandAsks(n, exp)
  \/ ExpandFails(n)

Next ==
  \/ \E n \in NodeId : Seed(n) \/ Expand(n)
  \/ \E u \in Uri : InvalidateFile(u)

Spec == Init /\ [][Next]_vars

----------------------------------------------------------------------------
(* Type invariant of the graph, the items and the last reply. *)
TypeOK ==
  /\ state \in [NodeId -> NodeState \cup {"Absent"}]
  /\ callers \in EdgeMap
  /\ callees \in EdgeMap
  /\ items \subseteq NodeId
  /\ expansions \in 0..MaxExpansions
  /\ reply \in [op : Op, id : NodeId \cup {NoNode}, exp : Expansion]

(* An edge never leads out of the graph: every symbol a stored list names  *)
(* is itself a node, so the interface can show its marker and signature.   *)
(* Interning an answer and removing a file must agree on this.             *)
GraphClosed ==
  \A n \in NodeId : Mentioned(Recorded(n)) \subseteq Present

(* A symbol is marked Expanded exactly when both its lists are stored: a   *)
(* marked one without lists would be remembered as having no callers, and  *)
(* a list without the mark would be asked for again.                       *)
ExpandedIffRecorded ==
  \A n \in NodeId :
    /\ IsExpanded(n) <=> callers[n] # NoEntry
    /\ IsExpanded(n) <=> callees[n] # NoEntry

(* The empty neighbourhood handed out without asking the server means that *)
(* the symbol did not resolve, or is not in the graph at all; it is never  *)
(* a symbol the server named in an answer.  (Calls the engine does not     *)
(* repeat must not read as "nobody calls this".)                           *)
BlankMeansUnresolved ==
  reply.op = "blank" => state[reply.id] \in Unresolved \cup {"Absent"}

(* What the engine knows of a symbol only grows until its file is edited:  *)
(* seeing it again, failing to seed it or failing to expand it never makes *)
(* an expanded symbol unexpanded nor a resolved one unresolved.            *)
Rank(st) == CASE st = "Absent" -> 0
              [] st \in Unresolved -> 1
              [] st = "Unexpanded" -> 1
              [] OTHER -> 2
KnowledgeGrows ==
  [][\A n \in NodeId :
       \/ state'[n] = state[n]
       \/ reply'.op = "invalidated"
       \/ Rank(state[n]) < Rank(state'[n])]_vars

(* The engine implements the memo table: an answer on record is handed out *)
(* as it was learnt, less the symbols of files edited since; the server is *)
(* asked only when nothing is on record, and counted each time.            *)
Memo == INSTANCE MemoGraph WITH
  NotKnown <- NoEntry,
  memo   <- [n \in NodeId |-> IF IsExpanded(n) THEN Recorded(n) ELSE NoEntry],
  answer <- IF reply.op \in {"remembered", "blank", "expanded"}
            THEN reply.exp ELSE NoEntry,
  asked  <- expansions
ImplementsMemo == Memo!Spec

----------------------------------------------------------------------------
(* What label and the status line of the interface make of a symbol: ⊘ and *)
(* a reason, for one that did not resolve.                                 *)
Marked(n) == state[n] \in Unresolved

(* ui/graph.rs:11-12: the mark is "for a symbol the language server could  *)
(* not resolve".  Only symbols with an item reach the interface, seeded or *)
(* named in an answer, and upsert leaves the state of a symbol alone that  *)
(* failed to resolve before: the mark is drawn on symbols that did.        *)
MarkMeansUnresolved == \A n \in items : ~Marked(n)
=============================================================================
