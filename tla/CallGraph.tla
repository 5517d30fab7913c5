----------------------------- MODULE CallGraph -----------------------------
(***************************************************************************)
(* The call graph of graph.rs: which symbols have been seen, what is known *)
(* of each, and the two edge maps filled in when a symbol is expanded.     *)
(*                                                                         *)
(* A NodeId of the code is (uri, line, character, name); here it is an     *)
(* element of the constant NodeId, and UriOf is its uri field, the only    *)
(* part of the identity any operation looks at.  The order and repetition  *)
(* of an answer's entries are abstracted: a list of callers is a set.      *)
(***************************************************************************)
CONSTANTS
  NodeId,   \* the identities of call hierarchy symbols
  Uri,      \* the files they live in
  UriOf,    \* NodeId -> Uri
  NoEntry   \* "the edge map has no entry under this key"

ASSUME UriOfAssumption == UriOf \in [NodeId -> Uri]
VARIABLES
  state,    \* NodeState of every symbol, "Absent" when it is not in `nodes`
  callers,  \* HashMap<NodeId, Vec<NodeId>>
  callees

graphVars == <<state, callers, callees>>

(* Unresolved(NoCallHierarchyItem) and Unresolved(TransientContentModified) *)
Unresolved == {"NoItem", "Transient"}
NodeState  == {"Unexpanded", "Expanded"} \cup Unresolved

EdgeMap   == [NodeId -> (SUBSET NodeId) \cup {NoEntry}]
Expansion == [callers : SUBSET NodeId, callees : SUBSET NodeId]

ASSUME NoEntryAssumption ==
  /\ \A S \in SUBSET NodeId : S # NoEntry
  /\ \A exp \in Expansion : exp # NoEntry

(* Expansion::default() *)
EmptyExpansion == [callers |-> {}, callees |-> {}]

Mentioned(exp) == exp.callers \cup exp.callees

Present == {n \in NodeId : state[n] # "Absent"}

NewGraph ==
  /\ state = [n \in NodeId |-> "Absent"]
  /\ callers = [n \in NodeId |-> NoEntry]
  /\ callees = [n \in NodeId |-> NoEntry]

----------------------------------------------------------------------------
(* Mutant: seeing a symbol again resets its state. *)
UpsertedAfresh(S, st) ==
  [n \in NodeId |-> IF n \in S THEN st ELSE state[n]]

(* The `state` map after upserting every symbol of S with state st: a      *)
(* symbol already present keeps the state it has.                          *)
Upserted(S, st) ==
  [n \in NodeId |-> IF n \in S /\ state[n] = "Absent" THEN st ELSE state[n]]

(* upsert of Node { state: Unresolved(why), .. }; kind and detail, which it  *)
(* overwrites, are left out.                                               *)
RecordUnresolved(n, why) ==
  /\ state' = Upserted({n}, why)
  /\ UNCHANGED <<callers, callees>>

(* callers_of / callees_of, with unwrap_or(&[]) *)
Listed(map, n) == IF map[n] = NoEntry THEN {} ELSE map[n]
Recorded(n) ==
  [callers |-> Listed(callers, n), callees |-> Listed(callees, n)]

(* set_state does nothing for a symbol that is not in the graph *)
WithState(ns, n, st) ==
  IF ns[n] = "Absent" THEN ns ELSE [ns EXCEPT ![n] = st]

(* Both lists are stored, then the symbol is marked; `ns` is the state map *)
(* the interning of the answer left behind.                                *)
RecordExpansion(ns, n, exp) ==
  /\ callers' = [callers EXCEPT ![n] = exp.callers]
  /\ callees' = [callees EXCEPT ![n] = exp.callees]
  /\ state' = WithState(ns, n, "Expanded")

InFile(u) == {n \in NodeId : UriOf[n] = u}
Doomed(u) == InFile(u) \cap Present

(* Mutant: the lists of the surviving symbols keep u's symbols. *)
StrippedOfKeys(map, u) ==
  [n \in NodeId |-> IF n \in Doomed(u) THEN NoEntry ELSE map[n]]

(* Mutant: u's own lists stay behind. *)
StrippedOfMentions(map, u) ==
  [n \in NodeId |-> IF map[n] = NoEntry THEN NoEntry ELSE map[n] \ InFile(u)]

(* An edge map without the doomed keys, its other lists without u's symbols *)
Stripped(map, u) ==
  [n \in NodeId |->
     IF n \in Doomed(u) \/ map[n] = NoEntry THEN NoEntry ELSE map[n] \ InFile(u)]

RemoveFile(u) ==
  /\ state' = [n \in NodeId |-> IF n \in Doomed(u) THEN "Absent" ELSE state[n]]
  /\ callers' = Stripped(callers, u)
  /\ callees' = Stripped(callees, u)
=============================================================================
