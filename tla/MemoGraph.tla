----------------------------- MODULE MemoGraph -----------------------------
(***************************************************************************)
(* What the engine promises its callers, without graph, items or server:   *)
(* a table of expansions.  A question about a symbol the table knows is    *)
(* answered from the table; a question it does not know is either put to   *)
(* the server and remembered, or answered with nothing because the symbol  *)
(* was never resolved.  Editing a file forgets its symbols.                *)
(***************************************************************************)
EXTENDS Naturals

CONSTANTS NodeId, Uri, UriOf, Answers, NotKnown

VARIABLES
  memo,     \* NodeId -> the expansion on record, or NotKnown
  answer,   \* the last expansion handed out, NotKnown when none was
  asked     \* how many questions were put to the server

memoVars == <<memo, answer, asked>>

Nothing == [callers |-> {}, callees |-> {}]

Init ==
  /\ memo = [n \in NodeId |-> NotKnown]
  /\ answer = NotKnown
  /\ asked = 0

(* An answer on record is handed out unchanged. *)
Recall(n) ==
  /\ memo[n] # NotKnown
  /\ answer' = memo[n]
  /\ UNCHANGED <<memo, asked>>

(* The server is asked only about a symbol that is not on record. *)
Learn(n, exp) ==
  /\ memo[n] = NotKnown
  /\ memo' = [memo EXCEPT ![n] = exp]
  /\ answer' = exp
  /\ asked' = asked + 1

(* A symbol the server never resolved has an empty neighbourhood. *)
Blank(n) ==
  /\ memo[n] = NotKnown
  /\ answer' = Nothing
  /\ UNCHANGED <<memo, asked>>

(* Every other call hands out no expansion and forgets nothing. *)
Quiet ==
  /\ answer' = NotKnown
  /\ UNCHANGED <<memo, asked>>

(* The symbols of an edited file leave the table and every list in it. *)
Without(exp, u) ==
  [callers |-> {m \in exp.callers : UriOf[m] # u},
   callees |-> {m \in exp.callees : UriOf[m] # u}]

Forget(u) ==
  /\ memo' = [n \in NodeId |->
                IF UriOf[n] = u \/ memo[n] = NotKnown
                THEN NotKnown ELSE Without(memo[n], u)]
  /\ answer' = NotKnown
  /\ UNCHANGED asked

Next ==
  \/ \E n \in NodeId : Recall(n) \/ Blank(n) \/ \E exp \in Answers[n] : Learn(n, exp)
  \/ \E u \in Uri : Forget(u)
  \/ Quiet

Spec == Init /\ [][Next]_memoVars
=============================================================================
