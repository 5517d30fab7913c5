---------------------------- MODULE EngineProofs ----------------------------
(***************************************************************************)
(* Proofs about the engine, for any set of symbols and files and any       *)
(* answers the server may give.                                            *)
(*                                                                         *)
(* GraphClosed and BlankMeansUnresolved are not inductive: the first needs *)
(* that a list is only stripped together with the symbols it loses, the    *)
(* second that an item and a node come and go together.  Inv adds both.    *)
(***************************************************************************)
EXTENDS Engine, TLAPS

(* Every item belongs to a node of the graph. *)
ItemsPresent == items \subseteq Present

(* A node without an item is one the server never resolved. *)
ItemlessUnresolved ==
  \A n \in NodeId : state[n] # "Absent" /\ n \notin items => state[n] \in Unresolved

Inv ==
  /\ TypeOK
  /\ ItemsPresent
  /\ ItemlessUnresolved
  /\ ExpandedIffRecorded
  /\ GraphClosed
  /\ BlankMeansUnresolved

----------------------------------------------------------------------------
(* Upserting adds the symbols of S and changes no state that was known. *)
LEMMA UpsertedType ==
  ASSUME TypeOK, NEW S \in SUBSET NodeId, NEW st \in NodeState
  PROVE  /\ Upserted(S, st) \in [NodeId -> NodeState \cup {"Absent"}]
         /\ \A n \in NodeId :
              Upserted(S, st)[n] =
                IF n \in S /\ state[n] = "Absent" THEN st ELSE state[n]
  BY DEF Upserted, TypeOK

(* An answer's symbols are symbols. *)
LEMMA MentionedType ==
  ASSUME NEW exp \in Expansion
  PROVE  /\ Mentioned(exp) \in SUBSET NodeId
         /\ exp.callers \in SUBSET NodeId
         /\ exp.callees \in SUBSET NodeId
  BY DEF Mentioned, Expansion

(* What is on record of a symbol is an expansion. *)
LEMMA RecordedType ==
  ASSUME TypeOK, NEW n \in NodeId
  PROVE  Recorded(n) \in Expansion
  BY DEF TypeOK, Recorded, Listed, EdgeMap, Expansion

----------------------------------------------------------------------------
(* The type invariant is inductive on its own. *)
THEOREM TypeCorrect == Spec => []TypeOK
<1> USE NoEntryAssumption, MaxExpansionsAssumption, AnswersAssumption
<1>1. Init => TypeOK
  BY DEF Init, NewGraph, TypeOK, EdgeMap, Expansion, EmptyExpansion, Op
<1>2. TypeOK /\ [Next]_vars => TypeOK'
  <2> SUFFICES ASSUME TypeOK, [Next]_vars PROVE TypeOK'
    OBVIOUS
  <2> USE DEF TypeOK
  <2>0. EmptyExpansion \in Expansion
    BY DEF EmptyExpansion, Expansion
  <2>1. ASSUME NEW n \in NodeId, SeedNotAFile(n) PROVE TypeOK'
    BY <2>0, <2>1 DEF SeedNotAFile, Says, Reply, graphVars, Op
  <2>2. ASSUME NEW n \in NodeId, NEW m \in NodeId, SeedResolved(n, m) PROVE TypeOK'
    BY <2>0, <2>2 DEF SeedResolved, Intern, Upserted, Says, Reply, Op, NodeState
  <2>3. ASSUME NEW n \in NodeId, NEW why \in Unresolved, SeedUnresolved(n, why)
        PROVE  TypeOK'
    BY <2>0, <2>3
    DEF SeedUnresolved, RecordUnresolved, Upserted, Says, Reply, Op, NodeState
  <2>4. ASSUME NEW n \in NodeId, SeedFails(n) \/ ExpandBlank(n) \/ ExpandFails(n)
        PROVE  TypeOK'
    BY <2>0, <2>4 DEF SeedFails, ExpandBlank, ExpandFails, Says, Reply, graphVars, Op
  <2>5. ASSUME NEW n \in NodeId, ExpandRemembered(n) PROVE TypeOK'
    BY <2>5, RecordedType DEF ExpandRemembered, Reply, graphVars, Op
  <2>6. ASSUME NEW n \in NodeId, NEW exp \in Answers[n], ExpandAsks(n, exp)
        PROVE  TypeOK'
    <3>1. exp \in Expansion
      OBVIOUS
    <3>2. Mentioned(exp) \in SUBSET NodeId /\ exp.callers \in SUBSET NodeId
            /\ exp.callees \in SUBSET NodeId
      BY <3>1, MentionedType
    <3>3. items' \subseteq NodeId
      BY <2>6, <3>2 DEF ExpandAsks, Intern
    <3>4. state' \in [NodeId -> NodeState \cup {"Absent"}]
      BY <2>6, <3>2 DEF ExpandAsks, RecordExpansion, Upserted, WithState, NodeState
    <3>5. callers' \in EdgeMap /\ callees' \in EdgeMap
      BY <2>6, <3>2 DEF ExpandAsks, RecordExpansion, EdgeMap
    <3>6. expansions' \in 0..MaxExpansions
      BY <2>6 DEF ExpandAsks
    <3>7. reply' \in [op : Op, id : NodeId \cup {NoNode}, exp : Expansion]
      BY <2>6, <3>1 DEF ExpandAsks, Reply, Op
    <3> QED
      BY <3>3, <3>4, <3>5, <3>6, <3>7
  <2>7. ASSUME NEW u \in Uri, InvalidateFile(u) PROVE TypeOK'
    <3>1. Stripped(callers, u) \in EdgeMap /\ Stripped(callees, u) \in EdgeMap
      BY DEF Stripped, EdgeMap
    <3> QED
      BY <2>0, <2>7, <3>1
      DEF InvalidateFile, RemoveFile, ForgottenItems, Says, Reply, Op
  <2>8. CASE UNCHANGED vars
    BY <2>8 DEF vars, graphVars
  <2> QED
    BY <2>1, <2>2, <2>3, <2>4, <2>5, <2>6, <2>7, <2>8 DEF Next, Seed, Expand
<1> QED
  BY <1>1, <1>2, PTL DEF Spec

----------------------------------------------------------------------------
(* Asking leaves the asked symbol Expanded, adds the answer's symbols and  *)
(* their items, and moves nothing else.                                    *)
LEMMA AskedState ==
  ASSUME Inv, NEW n \in NodeId, NEW exp \in Answers[n], ExpandAsks(n, exp)
  PROVE  /\ exp \in Expansion
         /\ items' = items \cup Mentioned(exp)
         /\ callers' = [callers EXCEPT ![n] = exp.callers]
         /\ callees' = [callees EXCEPT ![n] = exp.callees]
         /\ \A m \in NodeId :
              state'[m] = IF m = n THEN "Expanded"
                          ELSE IF m \in Mentioned(exp) /\ state[m] = "Absent"
                               THEN "Unexpanded" ELSE state[m]
<1>1. exp \in Expansion
  BY AnswersAssumption
<1>2. state[n] # "Absent"
  BY DEF ExpandAsks, MustAsk, Inv, ItemsPresent, Present
<1>3. Mentioned(exp) \in SUBSET NodeId
  BY <1>1, MentionedType
<1>4. Upserted(Mentioned(exp), "Unexpanded")[n] # "Absent"
  BY <1>2 DEF Upserted
<1>5. state' = [Upserted(Mentioned(exp), "Unexpanded") EXCEPT ![n] = "Expanded"]
  BY <1>4 DEF ExpandAsks, RecordExpansion, WithState
<1>6. \A m \in NodeId :
        state'[m] = IF m = n THEN "Expanded"
                    ELSE IF m \in Mentioned(exp) /\ state[m] = "Absent"
                         THEN "Unexpanded" ELSE state[m]
  BY <1>5 DEF Upserted
<1> QED
  BY <1>1, <1>6 DEF ExpandAsks, RecordExpansion, Intern

(* A file's removal takes away its nodes and items, and their mention. *)
LEMMA Removed ==
  ASSUME Inv, NEW u \in Uri, InvalidateFile(u)
  PROVE  \A n \in NodeId :
           /\ state'[n] = IF UriOf[n] = u THEN "Absent" ELSE state[n]
           /\ n \in items' <=> n \in items /\ UriOf[n] # u
           /\ callers'[n] = IF UriOf[n] = u \/ callers[n] = NoEntry
                            THEN NoEntry ELSE callers[n] \ InFile(u)
           /\ callees'[n] = IF UriOf[n] = u \/ callees[n] = NoEntry
                            THEN NoEntry ELSE callees[n] \ InFile(u)
<1> USE DEF Inv
<1>1. \A n \in NodeId : n \in Doomed(u) <=> UriOf[n] = u /\ state[n] # "Absent"
  BY DEF Doomed, InFile, Present
<1>2. \A n \in NodeId : state[n] = "Absent" => callers[n] = NoEntry /\ callees[n] = NoEntry
  BY DEF ExpandedIffRecorded, IsExpanded
<1>3. \A n \in NodeId : state'[n] = IF UriOf[n] = u THEN "Absent" ELSE state[n]
  BY <1>1 DEF InvalidateFile, RemoveFile
<1>4. \A n \in NodeId : n \in items' <=> n \in items /\ UriOf[n] # u
  BY DEF InvalidateFile, ForgottenItems, InFile
<1>5. \A n \in NodeId :
        /\ callers'[n] = IF UriOf[n] = u \/ callers[n] = NoEntry
                         THEN NoEntry ELSE callers[n] \ InFile(u)
        /\ callees'[n] = IF UriOf[n] = u \/ callees[n] = NoEntry
                         THEN NoEntry ELSE callees[n] \ InFile(u)
  BY <1>1, <1>2 DEF InvalidateFile, RemoveFile, Stripped
<1> QED
  BY <1>3, <1>4, <1>5

(* The strengthened invariant holds initially and is kept by every step. *)
LEMMA InvHolds == Spec => []Inv
<1>1. Init => Inv
  <2> SUFFICES ASSUME Init PROVE Inv
    OBVIOUS
  <2>1. TypeOK
    BY MaxExpansionsAssumption
    DEF Init, NewGraph, TypeOK, EdgeMap, Expansion, EmptyExpansion, Op
  <2> QED
    BY <2>1, NoEntryAssumption
    DEF Init, NewGraph, Inv, ItemsPresent, ItemlessUnresolved, ExpandedIffRecorded,
        IsExpanded, GraphClosed, Mentioned, Recorded, Listed, BlankMeansUnresolved
<1>2. Inv /\ TypeOK' /\ [Next]_vars => Inv'
  <2> SUFFICES ASSUME Inv, TypeOK', [Next]_vars PROVE Inv'
    OBVIOUS
  <2> USE DEF Inv
  <2>1. ASSUME NEW n \in NodeId,
               SeedNotAFile(n) \/ SeedFails(n) \/ ExpandRemembered(n) \/ ExpandFails(n)
        PROVE  Inv'
    BY <2>1
    DEF SeedNotAFile, SeedFails, ExpandRemembered, ExpandFails, Says, Reply, graphVars,
        ItemsPresent, Present, ItemlessUnresolved, ExpandedIffRecorded, IsExpanded,
        GraphClosed, Recorded, Listed, BlankMeansUnresolved
  <2>2. ASSUME NEW n \in NodeId, ExpandBlank(n) PROVE Inv'
    BY <2>2
    DEF ExpandBlank, Says, Reply, graphVars, ItemsPresent, Present, ItemlessUnresolved,
        ExpandedIffRecorded, IsExpanded, GraphClosed, Recorded, Listed,
        BlankMeansUnresolved
  <2>3. ASSUME NEW n \in NodeId, NEW m \in NodeId, SeedResolved(n, m) PROVE Inv'
    <3>1. \A k \in NodeId :
            state'[k] = IF k = m /\ state[k] = "Absent" THEN "Unexpanded" ELSE state[k]
      BY <2>3, UpsertedType DEF SeedResolved, NodeState
    <3>2. items' = items \cup {m} /\ callers' = callers /\ callees' = callees
            /\ reply'.op = "resolved"
      BY <2>3 DEF SeedResolved, Intern, Says, Reply
    <3> QED
      BY <3>1, <3>2
      DEF TypeOK, ItemsPresent, Present, ItemlessUnresolved, ExpandedIffRecorded,
          IsExpanded, GraphClosed, Recorded, Listed, BlankMeansUnresolved
  <2>4. ASSUME NEW n \in NodeId, NEW why \in Unresolved, SeedUnresolved(n, why)
        PROVE  Inv'
    <3>1. \A k \in NodeId :
            state'[k] = IF k = n /\ state[k] = "Absent" THEN why ELSE state[k]
      BY <2>4, UpsertedType DEF SeedUnresolved, RecordUnresolved, NodeState
    <3>2. items' = items /\ callers' = callers /\ callees' = callees
            /\ reply'.op = "unresolved"
      BY <2>4 DEF SeedUnresolved, RecordUnresolved, Says, Reply
    <3> QED
      BY <3>1, <3>2
      DEF TypeOK, ItemsPresent, Present, ItemlessUnresolved, ExpandedIffRecorded,
          IsExpanded, GraphClosed, Recorded, Listed, BlankMeansUnresolved, Unresolved
  <2>5. ASSUME NEW n \in NodeId, NEW exp \in Answers[n], ExpandAsks(n, exp)
        PROVE  Inv'
    <3>1. exp \in Expansion
      BY <2>5, AskedState
    <3>2. items' = items \cup Mentioned(exp)
      BY <2>5, AskedState
    <3>3. callers' = [callers EXCEPT ![n] = exp.callers]
            /\ callees' = [callees EXCEPT ![n] = exp.callees]
      BY <2>5, AskedState
    <3>4. \A m \in NodeId :
            state'[m] = IF m = n THEN "Expanded"
                        ELSE IF m \in Mentioned(exp) /\ state[m] = "Absent"
                             THEN "Unexpanded" ELSE state[m]
      BY <2>5, AskedState
    <3>5. reply'.op = "expanded"
      BY <2>5 DEF ExpandAsks, Reply
    <3>6. ItemsPresent'
      BY <3>1, <3>2, <3>4, MentionedType DEF ItemsPresent, Present
    <3>7. ItemlessUnresolved'
      BY <2>5, <3>2, <3>4 DEF ItemlessUnresolved, ExpandAsks, MustAsk
    <3>8. ExpandedIffRecorded'
      <4>1. exp.callers # NoEntry /\ exp.callees # NoEntry
        BY <3>1, MentionedType, NoEntryAssumption
      <4> QED
        BY <3>3, <3>4, <4>1 DEF ExpandedIffRecorded, IsExpanded, TypeOK, EdgeMap
    <3>9. GraphClosed'
      <4> SUFFICES ASSUME NEW m \in NodeId
                   PROVE  (Mentioned(Recorded(m)) \subseteq Present)'
        BY DEF GraphClosed
      <4>1. Present \subseteq Present'
        BY <3>4 DEF Present
      <4>2. CASE m = n
        <5>1. Mentioned(Recorded(m))' \subseteq Mentioned(exp)
          BY <3>3, <4>2 DEF TypeOK, EdgeMap, Recorded, Listed, Mentioned
        <5>2. Mentioned(exp) \subseteq Present'
          BY <3>1, <3>4, MentionedType DEF Present
        <5> QED
          BY <5>1, <5>2
      <4>3. CASE m # n
        <5>1. Mentioned(Recorded(m))' = Mentioned(Recorded(m))
          BY <3>3, <4>3 DEF TypeOK, EdgeMap, Recorded, Listed, Mentioned
        <5> QED
          BY <4>1, <5>1 DEF GraphClosed
      <4> QED
        BY <4>2, <4>3
    <3> QED
      BY <3>5, <3>6, <3>7, <3>8, <3>9 DEF BlankMeansUnresolved
  <2>6. ASSUME NEW u \in Uri, InvalidateFile(u) PROVE Inv'
    <3>0. \A n \in NodeId :
           /\ state'[n] = IF UriOf[n] = u THEN "Absent" ELSE state[n]
           /\ n \in items' <=> n \in items /\ UriOf[n] # u
           /\ callers'[n] = IF UriOf[n] = u \/ callers[n] = NoEntry
                            THEN NoEntry ELSE callers[n] \ InFile(u)
           /\ callees'[n] = IF UriOf[n] = u \/ callees[n] = NoEntry
                            THEN NoEntry ELSE callees[n] \ InFile(u)
      BY <2>6, Removed
    <3>1. ItemsPresent'
      BY <3>0 DEF ItemsPresent, Present, TypeOK
    <3>2. ItemlessUnresolved'
      BY <3>0 DEF ItemlessUnresolved
    <3>3. ExpandedIffRecorded'
      <4>1. \A n \in NodeId : callers[n] # NoEntry => callers[n] \ InFile(u) \in SUBSET NodeId
        BY DEF TypeOK, EdgeMap
      <4>2. \A n \in NodeId : callees[n] # NoEntry => callees[n] \ InFile(u) \in SUBSET NodeId
        BY DEF TypeOK, EdgeMap
      <4> QED
        BY <3>0, <4>1, <4>2, NoEntryAssumption DEF ExpandedIffRecorded, IsExpanded
    <3>4. GraphClosed'
      <4> SUFFICES ASSUME NEW n \in NodeId, NEW m \in Mentioned(Recorded(n))'
                   PROVE  m \in Present'
        BY DEF GraphClosed
      <4>1. m \in Mentioned(Recorded(n)) \ InFile(u)
        BY <3>0 DEF Mentioned, Recorded, Listed
      <4>2. m \in Present /\ UriOf[m] # u
        BY <4>1 DEF GraphClosed, Present, InFile
      <4> QED
        BY <3>0, <4>2 DEF Present
    <3>5. BlankMeansUnresolved'
      BY <2>6 DEF InvalidateFile, Says, Reply, BlankMeansUnresolved
    <3> QED
      BY <3>1, <3>2, <3>3, <3>4, <3>5
  <2>7. CASE UNCHANGED vars
    BY <2>7
    DEF vars, graphVars, ItemsPresent, Present, ItemlessUnresolved, ExpandedIffRecorded,
        IsExpanded, GraphClosed, Recorded, Listed, BlankMeansUnresolved
  <2> QED
    BY <2>1, <2>2, <2>3, <2>4, <2>5, <2>6, <2>7 DEF Next, Seed, Expand
<1> QED
  BY <1>1, <1>2, TypeCorrect, PTL DEF Spec

(* upsert, record_expansion and remove_file together: every symbol an      *)
(* edge map names is a node, so no drawing of the graph follows an edge to *)
(* nowhere.                                                                *)
THEOREM GraphStaysClosed == Spec => []GraphClosed
<1>1. Inv => GraphClosed
  BY DEF Inv
<1> QED
  BY <1>1, InvHolds, PTL

(* expand and remove_file: a symbol is Expanded exactly while both its     *)
(* lists are stored.                                                       *)
THEOREM ExpandedIsRecorded == Spec => []ExpandedIffRecorded
<1>1. Inv => ExpandedIffRecorded
  BY DEF Inv
<1> QED
  BY <1>1, InvHolds, PTL

(* expand without an item: only an unresolved symbol is answered with      *)
(* nothing and without asking.                                             *)
THEOREM BlanksAreUnresolved == Spec => []BlankMeansUnresolved
<1>1. Inv => BlankMeansUnresolved
  BY DEF Inv
<1> QED
  BY <1>1, InvHolds, PTL

----------------------------------------------------------------------------
(* What one step may do to what is known of a symbol. *)
StepGrows ==
  \A n \in NodeId :
    \/ state'[n] = state[n]
    \/ reply'.op = "invalidated"
    \/ Rank(state[n]) < Rank(state'[n])

(* Nothing but an edit of its file takes away what is known of a symbol. *)
THEOREM KnowledgeOnlyGrows == Spec => KnowledgeGrows
<1>1. Inv /\ [Next]_vars => StepGrows \/ UNCHANGED vars
  <2> SUFFICES ASSUME Inv, Next PROVE StepGrows
    BY DEF vars
  <2> USE DEF Inv, StepGrows
  <2>1. ASSUME NEW n \in NodeId,
               SeedNotAFile(n) \/ SeedFails(n) \/ ExpandRemembered(n)
                 \/ ExpandFails(n) \/ ExpandBlank(n)
        PROVE  StepGrows
    BY <2>1
    DEF SeedNotAFile, SeedFails, ExpandRemembered, ExpandFails, ExpandBlank, graphVars
  <2>2. ASSUME NEW n \in NodeId, NEW m \in NodeId, SeedResolved(n, m) PROVE StepGrows
    BY <2>2 DEF SeedResolved, Upserted, Rank, Unresolved
  <2>3. ASSUME NEW n \in NodeId, NEW why \in Unresolved, SeedUnresolved(n, why)
        PROVE  StepGrows
    BY <2>3 DEF SeedUnresolved, RecordUnresolved, Upserted, Rank, Unresolved
  <2>4. ASSUME NEW n \in NodeId, NEW exp \in Answers[n], ExpandAsks(n, exp)
        PROVE  StepGrows
    <3>1. \A m \in NodeId :
            state'[m] = IF m = n THEN "Expanded"
                        ELSE IF m \in Mentioned(exp) /\ state[m] = "Absent"
                             THEN "Unexpanded" ELSE state[m]
      BY <2>4, AskedState
    <3>2. state[n] # "Expanded" /\ state[n] \in NodeState \cup {"Absent"}
      BY <2>4 DEF ExpandAsks, MustAsk, IsExpanded, TypeOK
    <3> QED
      BY <3>1, <3>2 DEF Rank, Unresolved, NodeState
  <2>5. ASSUME NEW u \in Uri, InvalidateFile(u) PROVE StepGrows
    BY <2>5 DEF InvalidateFile, Says, Reply
  <2> QED
    BY <2>1, <2>2, <2>3, <2>4, <2>5 DEF Next, Seed, Expand
<1>2. StepGrows \/ UNCHANGED vars <=>
        [\A n \in NodeId :
           \/ state'[n] = state[n]
           \/ reply'.op = "invalidated"
           \/ Rank(state[n]) < Rank(state'[n])]_vars
  BY DEF StepGrows
<1> QED
  BY <1>1, <1>2, InvHolds, PTL DEF Spec, KnowledgeGrows

----------------------------------------------------------------------------
(* The engine implements the memo table, step by step. *)
THEOREM Refinement == Spec => ImplementsMemo
<1> DEFINE memoBar == [n \in NodeId |-> IF IsExpanded(n) THEN Recorded(n) ELSE NoEntry]
           answerBar == IF reply.op \in {"remembered", "blank", "expanded"}
                        THEN reply.exp ELSE NoEntry
<1>1. Init => Memo!Init
  BY DEF Init, NewGraph, Memo!Init, IsExpanded
<1>2. Inv /\ Inv' /\ [Next]_vars => [Memo!Next]_(Memo!memoVars)
  <2> SUFFICES ASSUME Inv, Inv', [Next]_vars PROVE [Memo!Next]_(Memo!memoVars)
    OBVIOUS
  <2> USE DEF Inv
  <2>1. ASSUME memoBar' = memoBar, answerBar' = NoEntry, expansions' = expansions
        PROVE  Memo!Next
    BY <2>1 DEF Memo!Next, Memo!Quiet
  <2>2. ASSUME NEW n \in NodeId, SeedNotAFile(n) \/ SeedFails(n) \/ ExpandFails(n)
        PROVE  Memo!Next
    <3>1. memoBar' = memoBar
      BY <2>2
      DEF SeedNotAFile, SeedFails, ExpandFails, graphVars, IsExpanded, Recorded, Listed
    <3>2. answerBar' = NoEntry /\ expansions' = expansions
      BY <2>2 DEF SeedNotAFile, SeedFails, ExpandFails, Says, Reply
    <3> QED
      BY <2>1, <3>1, <3>2
  <2>3. ASSUME NEW n \in NodeId, NEW m \in NodeId, SeedResolved(n, m) PROVE Memo!Next
    <3>1. \A k \in NodeId :
            state'[k] = IF k = m /\ state[k] = "Absent" THEN "Unexpanded" ELSE state[k]
      BY <2>3 DEF SeedResolved, Upserted
    <3>2. memoBar' = memoBar
      BY <2>3, <3>1 DEF SeedResolved, IsExpanded, Recorded, Listed
    <3>3. answerBar' = NoEntry /\ expansions' = expansions
      BY <2>3 DEF SeedResolved, Says, Reply
    <3> QED
      BY <2>1, <3>2, <3>3
  <2>4. ASSUME NEW n \in NodeId, NEW why \in Unresolved, SeedUnresolved(n, why)
        PROVE  Memo!Next
    <3>1. \A k \in NodeId :
            state'[k] = IF k = n /\ state[k] = "Absent" THEN why ELSE state[k]
      BY <2>4 DEF SeedUnresolved, RecordUnresolved, Upserted
    <3>2. memoBar' = memoBar
      BY <2>4, <3>1
      DEF SeedUnresolved, RecordUnresolved, IsExpanded, Recorded, Listed, Unresolved
    <3>3. answerBar' = NoEntry /\ expansions' = expansions
      BY <2>4 DEF SeedUnresolved, Says, Reply
    <3> QED
      BY <2>1, <3>2, <3>3
  <2>5. ASSUME NEW n \in NodeId, ExpandRemembered(n) PROVE Memo!Next
    <3>1. memoBar' = memoBar /\ expansions' = expansions
      BY <2>5 DEF ExpandRemembered, graphVars, IsExpanded, Recorded, Listed
    <3>2. memoBar[n] = Recorded(n) /\ answerBar' = Recorded(n)
      BY <2>5 DEF ExpandRemembered, Reply
    <3>3. memoBar[n] # NoEntry
      BY <3>2, RecordedType, NoEntryAssumption
    <3> QED
      BY <3>1, <3>2, <3>3 DEF Memo!Next, Memo!Recall
  <2>6. ASSUME NEW n \in NodeId, ExpandBlank(n) PROVE Memo!Next
    <3>1. memoBar' = memoBar /\ expansions' = expansions
      BY <2>6 DEF ExpandBlank, graphVars, IsExpanded, Recorded, Listed
    <3>2. memoBar[n] = NoEntry /\ answerBar' = EmptyExpansion
      BY <2>6 DEF ExpandBlank, Says, Reply
    <3> QED
      BY <3>1, <3>2 DEF Memo!Next, Memo!Blank, Memo!Nothing, EmptyExpansion
  <2>7. ASSUME NEW n \in NodeId, NEW exp \in Answers[n], ExpandAsks(n, exp)
        PROVE  Memo!Next
    <3>1. exp \in Expansion
      BY <2>7, AskedState
    <3>2. callers' = [callers EXCEPT ![n] = exp.callers]
            /\ callees' = [callees EXCEPT ![n] = exp.callees]
      BY <2>7, AskedState
    <3>3. \A m \in NodeId :
            state'[m] = IF m = n THEN "Expanded"
                        ELSE IF m \in Mentioned(exp) /\ state[m] = "Absent"
                             THEN "Unexpanded" ELSE state[m]
      BY <2>7, AskedState
    <3>4. Recorded(n)' = exp
      <4>1. exp.callers # NoEntry /\ exp.callees # NoEntry
        BY <3>1, MentionedType, NoEntryAssumption
      <4>2. Recorded(n)' = [callers |-> exp.callers, callees |-> exp.callees]
        BY <3>2, <4>1 DEF Recorded, Listed, TypeOK, EdgeMap
      <4> QED
        BY <3>1, <4>2 DEF Expansion
    <3>5. \A m \in NodeId : m # n => Recorded(m)' = Recorded(m)
      BY <3>2 DEF Recorded, Listed, TypeOK, EdgeMap
    <3>6. memoBar' = [memoBar EXCEPT ![n] = exp]
      BY <3>3, <3>4, <3>5 DEF IsExpanded
    <3>7. memoBar[n] = NoEntry
      BY <2>7 DEF ExpandAsks, MustAsk
    <3>8. answerBar' = exp /\ expansions' = expansions + 1
      BY <2>7 DEF ExpandAsks, Reply
    <3> QED
      BY <3>6, <3>7, <3>8 DEF Memo!Next, Memo!Learn
  <2>8. ASSUME NEW u \in Uri, InvalidateFile(u) PROVE Memo!Next
    <3>1. \A n \in NodeId :
           /\ state'[n] = IF UriOf[n] = u THEN "Absent" ELSE state[n]
           /\ callers'[n] = IF UriOf[n] = u \/ callers[n] = NoEntry
                            THEN NoEntry ELSE callers[n] \ InFile(u)
           /\ callees'[n] = IF UriOf[n] = u \/ callees[n] = NoEntry
                            THEN NoEntry ELSE callees[n] \ InFile(u)
      BY <2>8, Removed
    <3>2. ASSUME NEW n \in NodeId, UriOf[n] # u, IsExpanded(n)
          PROVE  Recorded(n)' = Memo!Without(Recorded(n), u)
      <4>1. callers[n] \in SUBSET NodeId /\ callees[n] \in SUBSET NodeId
        BY <3>2 DEF ExpandedIffRecorded, TypeOK, EdgeMap
      <4>2. callers[n] # NoEntry /\ callees[n] # NoEntry
        BY <4>1, NoEntryAssumption
      <4>3. callers'[n] = callers[n] \ InFile(u) /\ callees'[n] = callees[n] \ InFile(u)
        BY <3>1, <3>2, <4>2
      <4>4. callers'[n] # NoEntry /\ callees'[n] # NoEntry
        <5>1. callers'[n] \in SUBSET NodeId /\ callees'[n] \in SUBSET NodeId
          BY <4>1, <4>3
        <5> QED
          BY <5>1, NoEntryAssumption
      <4>5. Recorded(n)' = [callers |-> callers[n] \ InFile(u),
                            callees |-> callees[n] \ InFile(u)]
        BY <4>3, <4>4 DEF Recorded, Listed
      <4>6. Recorded(n) = [callers |-> callers[n], callees |-> callees[n]]
        BY <4>2 DEF Recorded, Listed
      <4>7. callers[n] \ InFile(u) = {m \in callers[n] : UriOf[m] # u}
        BY <4>1 DEF InFile
      <4>8. callees[n] \ InFile(u) = {m \in callees[n] : UriOf[m] # u}
        BY <4>1 DEF InFile
      <4> QED
        BY <4>5, <4>6, <4>7, <4>8 DEF Memo!Without
    <3>3. ASSUME NEW n \in NodeId
          PROVE  memoBar'[n] = IF UriOf[n] = u \/ memoBar[n] = NoEntry
                               THEN NoEntry ELSE Memo!Without(memoBar[n], u)
      <4>1. CASE UriOf[n] = u
        BY <3>1, <4>1 DEF IsExpanded
      <4>2. CASE UriOf[n] # u /\ IsExpanded(n)
        <5>1. memoBar[n] = Recorded(n) /\ memoBar[n] # NoEntry
          BY <4>2, RecordedType, NoEntryAssumption
        <5>2. memoBar'[n] = Recorded(n)'
          BY <3>1, <4>2 DEF IsExpanded
        <5> QED
          BY <3>2, <4>2, <5>1, <5>2
      <4>3. CASE UriOf[n] # u /\ ~IsExpanded(n)
        BY <3>1, <4>3 DEF IsExpanded
      <4> QED
        BY <4>1, <4>2, <4>3
    <3>4. memoBar' = [n \in NodeId |->
                        IF UriOf[n] = u \/ memoBar[n] = NoEntry
                        THEN NoEntry ELSE Memo!Without(memoBar[n], u)]
      BY <3>3
    <3>5. answerBar' = NoEntry /\ expansions' = expansions
      BY <2>8 DEF InvalidateFile, Says, Reply
    <3> QED
      BY <3>4, <3>5 DEF Memo!Next, Memo!Forget
  <2>9. CASE UNCHANGED vars
    BY <2>9 DEF vars, graphVars, Memo!memoVars, IsExpanded, Recorded, Listed
  <2> QED
    BY <2>2, <2>3, <2>4, <2>5, <2>6, <2>7, <2>8, <2>9 DEF Next, Seed, Expand
<1> QED
  BY <1>1, <1>2, InvHolds, PTL DEF Spec, ImplementsMemo, Memo!Spec
=============================================================================
