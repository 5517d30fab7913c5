------------------------------ MODULE Inbound ------------------------------
(***************************************************************************)
(* What server.rs makes of the answers that ReadLoop takes off the pipe,   *)
(* with the names and outlines of Symbols.                                 *)
(*                                                                         *)
(* An answer is [call, says, symbols]: what was asked, whether it is a     *)
(* "list", "null", "other" JSON, or an error ("modified" is -32801), and   *)
(* the entries [name, kind, line, whole, children, under] of a list.       *)
(* `whole` is whether an entry has the fields that are read, `under` the   *)
(* key a caller ("from") or callee ("to") is wrapped in, "" elsewhere.     *)
(***************************************************************************)
EXTENDS ReadLoop, Symbols

Returns(what, list) == [what |-> what, list |-> list]
List(list) == Returns("list", list)

(* serde_json::from_value on an entry: a line is a u32 there. *)
Readable(s) == s.whole /\ s.line \in 0..(Width - 1)
AllReadable(a) == \A s \in ToSet(a.symbols) : Readable(s)

(* An outline, and what its symbols contain. *)
Declarations(symbols) == UNION {ToSet(ss) : ss \in Lists(symbols)}

(* Named callables of document_symbols: one bad entry empties the list. *)
DocumentSymbols(a) ==
  List(IF a.says = "list" /\ \A s \in Declarations(a.symbols) : Readable(s)
       THEN Collect(a.symbols) ELSE <<>>)

WorkspaceSymbols(a) == List(IF a.says = "list" THEN ParseWorkspaceSymbols(a.symbols) ELSE <<>>)

Item(s) == Callable(s.name, s.line)
Items(entries) == [i \in DOMAIN entries |-> Item(entries[i])]

(* Mutant: unwrap_or_default in prepare_call_hierarchy too. *)
PrepareOrDefault(a) ==
  List(IF a.says = "list" /\ AllReadable(a) THEN Items(a.symbols) ELSE <<>>)

(* prepare_call_hierarchy: one bad entry is an error. *)
Prepare(a) ==
  CASE a.says = "null"                     -> List(<<>>)
    [] a.says = "list" /\ AllReadable(a)   -> List(Items(a.symbols))
    [] OTHER                               -> Returns("json", <<>>)

(* The items under a key: an entry without it, or a bad one, is dropped. *)
Unwrap(s, key) == IF s.under = key /\ Readable(s) THEN <<Item(s)>> ELSE <<>>
UnwrapCalls(a, key) ==
  List(IF a.says = "list"
       THEN FlattenSeq([i \in DOMAIN a.symbols |-> Unwrap(a.symbols[i], key)]) ELSE <<>>)

IncomingCalls(a) == UnwrapCalls(a, "from")
OutgoingCalls(a) == UnwrapCalls(a, "to")

(* Connection::request, then the call's own reading of the result: *)
(* the Answer of ReadLoop.                                                 *)
AnswerOf(a) ==
  CASE a.says = "modified" -> Returns("content_modified", <<>>)
    [] a.says = "error"    -> Returns("protocol", <<>>)
    [] OTHER -> CASE a.call = "documentSymbol"   -> DocumentSymbols(a)
                  [] a.call = "workspace/symbol" -> WorkspaceSymbols(a)
                  [] a.call = "prepare"          -> Prepare(a)
                  [] a.call = "incomingCalls"    -> IncomingCalls(a)
                  [] a.call = "outgoingCalls"    -> OutgoingCalls(a)


(* Symbols are in lists, under names, and end within MaxNesting. *)
IsOutline(symbols) ==
  /\ \A ss \in Lists(symbols) :
       ss \in Seq(ToSet(ss)) /\ \A s \in ToSet(ss) : s.name \in Seq(Characters)
  /\ Nested(symbols)[MaxNesting] \subseteq {<<>>}

Call == {"documentSymbol", "workspace/symbol", "prepare", "incomingCalls", "outgoingCalls"}

ASSUME AnswersAssumption ==
  \A fs \in Streams : \A unit \in {u \in Units(fs) : u.is = "open"} :
    /\ unit.message.call \in Call /\ IsOutline(unit.message.symbols)
    /\ Answer(unit.message) = AnswerOf(unit.message)

-----------------------------------------------------------------------------
(* A name as the servers write them: identifiers joined by dots, perhaps   *)
(* after a receiver, which may be a pointer: one left-to-right scan.       *)
Step(state, c) ==
  CASE state = "start"    /\ c = "a"        -> "name"
    [] state = "start"    /\ c = "("        -> "open"
    [] state = "open"     /\ c = "*"        -> "pointer"
    [] state \in {"open", "pointer"} /\ c = "a" -> "receiver"
    [] state = "receiver" /\ c \in {"a", "1"} -> "receiver"
    [] state = "receiver" /\ c = ")"        -> "closed"
    [] state = "closed"   /\ c = "."        -> "dot"
    [] state = "dot"      /\ c = "a"        -> "name"
    [] state = "name"     /\ c \in {"a", "1"} -> "name"
    [] state = "name"     /\ c = "."        -> "dot"
    [] OTHER                                -> "rejected"
Scan(name) ==
  LET state[n \in 0..Len(name)] == IF n = 0 THEN "start" ELSE Step(state[n - 1], name[n])
  IN  state[Len(name)] = "name"

Decoration == <<"(", ")">>
NameAs(call, name) ==   \* what is asked for, under its stored name
  IF call = "workspace/symbol" /\ IsSuffix(Decoration, name)
  THEN SubSeq(name, 1, Len(name) - 2) ELSE name

(* What an answer lists: the symbols in symbols too if it is an outline. *)
Listed(a) == IF a.call = "documentSymbol" THEN Declarations(a.symbols) ELSE ToSet(a.symbols)

(* In the order of the document: a declaration stands before those it      *)
(* contains, and these before the next one.                                *)
Ordered(symbols) ==
  \A ss \in Lists(symbols) : \A i, j \in DOMAIN ss :
    LET within(k) == {ss[k]} \cup Declarations(ss[k].children) IN
    /\ \A t \in Declarations(ss[i].children) : ss[i].line < t.line
    /\ i < j => \A t \in within(i), u \in within(j) : t.line < u.line

(* The answer to a search or an outline that is a list of whole entries is *)
(* told as the functions and methods in it whose names are names, at the   *)
(* line the server gave, each once and in the order of the document.       *)
IsAccurate(a, r) ==
  LET named == {s \in Listed(a) :
                  s.kind \in {"function", "method"} /\ Scan(NameAs(a.call, s.name))}
  IN  /\ r.what = "list"
      /\ ToSet(r.list) = {[name |-> NameAs(a.call, s.name), line |-> s.line] : s \in named}
      /\ Ordered(a.symbols) =>
           \A i, j \in DOMAIN r.list : i < j => r.list[i].line < r.list[j].line

Faultless(a) == a.says = "list" /\ \A s \in Listed(a) : s.whole /\ s.line \in 0..(Width - 1)

(* The key that callers or callees are under. *)
Side(a) == [incomingCalls |-> "from", outgoingCalls |-> "to"][a.call]

(* Callers are told as callers and callees as callees, every one, in order. *)
IsOneSided(a, r) ==
  (\A s \in ToSet(a.symbols) : s.under = Side(a))
    => r = List([i \in DOMAIN a.symbols |-> Callable(a.symbols[i].name, a.symbols[i].line)])

Failed(a) ==
  a.says \in {"modified", "error"} \/ (a.call = "prepare" /\ a.says # "null" /\ ~Faultless(a))

(* The entries of a list of callers or of callees that can be read. *)
Legible(a) ==
  {s \in ToSet(a.symbols) : a.says = "list" /\ s.under = Side(a)
                              /\ s.whole /\ s.line \in 0..(Width - 1)}

(* The messages of the frames up to the first improper one. *)
Asked(fs) ==
  LET sound == Sound(fs) IN
  FlattenSeq([i \in DOMAIN sound |->
    IF Parses(sound[i].body) THEN <<Message(sound[i].body)>> ELSE <<>>])

(* What a server lists is what its caller is told. *)
ToldWhatIsListed ==
  LET meant == Asked(frames) IN
  \A i \in DOMAIN told : i <= Len(meant) /\ Faultless(meant[i]) =>
    CASE meant[i].call \in {"documentSymbol", "workspace/symbol"} -> IsAccurate(meant[i], told[i])
      [] meant[i].call \in {"incomingCalls", "outgoingCalls"}     -> IsOneSided(meant[i], told[i])
      [] OTHER -> TRUE

(* An answer is told as a failure only if the server sent an error or a    *)
(* prepared item cannot be read, and then always: neither is "no call      *)
(* hierarchy here".  All else is told as a list.  Callers and callees are  *)
(* told as the entries of that side that can be read: a malformed answer   *)
(* leaves a shorter list or none, which is told like "nobody calls this".  *)
(* (tui design 169-172: an empty list means there genuinely are none.)     *)
FailedOrRead ==
  LET meant == Asked(frames) IN
  \A i \in DOMAIN told : i <= Len(meant) =>
    /\ told[i].what # "list" <=> Failed(meant[i])
    /\ meant[i].call \in {"incomingCalls", "outgoingCalls"} /\ ~Failed(meant[i])
         => ToSet(told[i].list) = {Callable(s.name, s.line) : s \in Legible(meant[i])}
=============================================================================
