------------------------------ MODULE Symbols ------------------------------
(***************************************************************************)
(* Which symbols of an answer are named callables: symbols.rs.             *)
(*                                                                         *)
(* A name is a sequence of characters by class: "a" for what may begin an  *)
(* identifier, "1" for what may only continue one, and the four that       *)
(* symbols.rs looks for.  A declaration is told apart by its line.         *)
(***************************************************************************)
EXTENDS Integers, Sequences, SequencesExt

CONSTANTS
  Width,       \* 2^32, what a line is cut down to
  MaxNesting   \* how deep serde_json reads symbols in symbols

ASSUME WidthAssumption == Width \in Nat \ {0}
ASSUME NestingAssumption == MaxNesting \in Nat

Characters == {"a", "1", ".", "(", ")", "*"}

CallableKind == {"function", "method"}
NoRange == -1   \* the line of a location without a range

IsPlainIdentifier(s) == s # <<>> /\ s[1] = "a" /\ ToSet(s) \subseteq {"a", "1"}

(* rest.split('.') *)
Pieces(s) ==
  LET dots == {0, Len(s) + 1} \cup {i \in DOMAIN s : s[i] = "."} IN
  {SubSeq(s, p[1] + 1, p[2] - 1) : p \in
     {q \in dots \X dots : q[1] < q[2] /\ \A d \in dots : d <= q[1] \/ d >= q[2]}}

WithoutPrefix(s, c) == IF s # <<>> /\ s[1] = c THEN Tail(s) ELSE s

(* Mutant: one segment that is an identifier will do. *)
AnyPlain(s) == \E p \in Pieces(s) : IsPlainIdentifier(p)

AllPlain(s) == \A p \in Pieces(s) : IsPlainIdentifier(p)

(* A receiver in parentheses and its dot are taken off; what is left must  *)
(* be identifiers.                                                         *)
IsNamedCallable(name, kind) ==
  LET received == name # <<>> /\ name[1] = "("
      closes   == {i \in DOMAIN name : name[i] = ")"}
      receiver == WithoutPrefix(SubSeq(name, 2, Min(closes) - 1), "*")
      after    == SubSeq(name, Min(closes) + 1, Len(name))
      rest     == IF ~received THEN name
                  ELSE IF after # <<>> /\ after[1] = "." THEN Tail(after) ELSE <<>>
  IN  /\ kind \in CallableKind
      /\ received => closes # {} /\ IsPlainIdentifier(receiver)
      /\ rest # <<>> /\ AllPlain(rest)

Callable(name, line) == [name |-> name, line |-> line]

(* The lists of symbols that so many others contain. *)
Nested(symbols) ==
  LET lists[n \in Nat] ==
        IF n = 0 THEN {symbols}
        ELSE {s.children : s \in UNION {ToSet(ss) : ss \in lists[n - 1]}}
  IN  lists
Lists(symbols) == UNION {Nested(symbols)[n] : n \in 0..MaxNesting}

(* What is pushed for a declaration itself. *)
Own(s) == IF IsNamedCallable(s.name, s.kind) THEN <<Callable(s.name, s.line)>> ELSE <<>>

(* collect_named_callables: a declaration comes before its children. *)
Collect(symbols) ==
  LET collect[ss \in Lists(symbols)] ==
        FlattenSeq([i \in DOMAIN ss |-> Own(ss[i]) \o collect[ss[i].children]])
  IN  collect[symbols]

(* strip_suffix("()") *)
Undecorate(name) ==
  IF Len(name) >= 2 /\ SubSeq(name, Len(name) - 1, Len(name)) = <<"(", ")">>
  THEN SubSeq(name, 1, Len(name) - 2) ELSE name

(* parse_workspace_symbols, of an array: an entry that lacks a field is    *)
(* dropped, one that lacks a range stands at line 0, `as u32` truncates.   *)
Match(e) ==
  IF e.whole /\ IsNamedCallable(Undecorate(e.name), e.kind)
  THEN <<Callable(Undecorate(e.name), IF e.line = NoRange THEN 0 ELSE e.line % Width)>>
  ELSE <<>>
ParseWorkspaceSymbols(entries) == FlattenSeq([i \in DOMAIN entries |-> Match(entries[i])])
=============================================================================
