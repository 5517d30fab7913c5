----------------------------- MODULE MCSession -----------------------------
(* Two symbols: f is recursive and calls g; g is called by f and calls back. *)
EXTENDS Session, TLC

CONSTANTS f, g

MCNodeId == {f, g}
MCNeighbours ==
  (f :> [callers |-> <<f, g>>, callees |-> <<g>>]) @@
  (g :> [callers |-> <<f>>, callees |-> <<>>])

(* A search finds nothing, one symbol, or both. *)
MCResults == {<<>>, <<f>>, <<g, f>>}
MCOneResult == {<<f>>}
=============================================================================
