------------------------------ MODULE Channels ------------------------------
(***************************************************************************)
(* The two std::sync::mpsc channels of protocol.rs between the interface   *)
(* thread and the worker thread, and what travels on them.                 *)
(*                                                                         *)
(* Both channels are unbounded and FIFO.  A send to a worker that has left *)
(* its loop is dropped: nobody will ever receive it.  A SymbolMatch and    *)
(* the NodeId it seeds to are the same element here, a query is its        *)
(* length, and an event's texts are left out.                              *)
(***************************************************************************)
EXTENDS Naturals, Sequences, SequencesExt

CONSTANTS
  NodeId,       \* symbols
  NoNode,       \* Option::None where a symbol is expected
  Neighbours,   \* what the server says of each symbol: its callers, its callees
  Results,      \* the lists a search may return
  MaxQuery,     \* bounds of the checked instances: length of the query,
  MaxInFlight,  \*   requests and events under way when a key asks for more,
  MaxHistory    \*   length of the breadcrumb

ASSUME NoNodeAssumption == NoNode \notin NodeId
ASSUME NeighboursAssumption ==
  Neighbours \in [NodeId -> [callers : Seq(NodeId), callees : Seq(NodeId)]]
ASSUME ResultsAssumption == Results \subseteq Seq(NodeId)
ASSUME BoundsAssumption ==
  MaxQuery \in Nat /\ MaxInFlight \in Nat /\ MaxHistory \in Nat

VARIABLES
  reqs,    \* Request channel, interface to worker
  events,  \* Event channel, worker to interface
  worker   \* the worker thread: "starting", "serving", "closing", "stopped"

channelVars == <<reqs, events, worker>>

Query == 0..MaxQuery

Search(q) == [kind |-> "Search", query |-> q]
Seed(n)   == [kind |-> "Seed", node |-> n]
Expand(n) == [kind |-> "Expand", node |-> n]
Restart   == [kind |-> "Restart"]
Shutdown  == [kind |-> "Shutdown"]

Request ==
  {Search(q) : q \in Query} \cup {Seed(n) : n \in NodeId}
    \cup {Expand(n) : n \in NodeId} \cup {Restart, Shutdown}

Ready(can)     == [kind |-> "Ready", can |-> can]
(* The code's Matches carries the list only; `query` is a ghost. *)
Matches(q, ms) == [kind |-> "Matches", query |-> q, matches |-> ms]
Seeded(n)      == [kind |-> "Seeded", node |-> n]
Expanded(n)    == [kind |-> "Expanded", node |-> n]
Failed(n)      == [kind |-> "Failed", node |-> n]
Warning        == [kind |-> "Warning"]
Fatal          == [kind |-> "Fatal"]

Event ==
  {Ready(can) : can \in BOOLEAN} \cup {Matches(q, ms) : q \in Query, ms \in Results}
    \cup {Seeded(n) : n \in NodeId \cup {NoNode}}
    \cup {Expanded(n) : n \in NodeId} \cup {Failed(n) : n \in NodeId}
    \cup {Warning, Fatal}

Listening == worker \in {"starting", "serving"}

(* let _ = qtx.send(..), for every request in turn *)
Ask(rs) == reqs' = IF Listening THEN reqs \o rs ELSE reqs

InFlight == Len(reqs) + Len(events)
Room     == InFlight < MaxInFlight

(* An answer to Expand(n) is still to come. *)
Outstanding(n) ==
  \/ Contains(reqs, Expand(n))
  \/ Contains(events, Expanded(n))
  \/ Contains(events, Failed(n))
=============================================================================
