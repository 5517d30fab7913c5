----------------------------- MODULE MCInbound -----------------------------
(***************************************************************************)
(* The answers and streams of the run.                                     *)
(***************************************************************************)
EXTENDS Inbound

a == <<"a">>
Sym(name, kind, line, children) ==
  [name |-> name, kind |-> kind, line |-> line, whole |-> TRUE,
   children |-> children, under |-> ""]
Fn(name, line) == Sym(name, "function", line, <<>>)
Broken(s) == [s EXCEPT !.whole = FALSE]
Wrapped(es, key) == [i \in DOMAIN es |-> [es[i] EXCEPT !.under = key]]
Ans(call, says, symbols) == [call |-> call, says |-> says, symbols |-> symbols]

(* Names of every shape: up to five characters, and up to four after a     *)
(* pointer receiver: a qualified name and each way to miss it are there.   *)
NamesUpTo(n) == UNION {[1..k -> Characters] : k \in 0..n}
MCNames == NamesUpTo(5) \cup {<<"(", "*", "a">> \o s : s \in NamesUpTo(4)}

(* An outline: what a method contains, a class that is no callable itself, *)
(* two levels down, a decorated name, a kind that is not callable.         *)
Tree ==
  << Sym(a, "method", 0, <<Fn(<<"a", "1">>, 1), Fn(<<"a", "(", ")">>, 2)>>),
     Sym(a, "class", 3, <<Sym(a, "other", 4, <<Fn(a, 5)>>), Fn(<<"1">>, 6)>>), Fn(a, 7) >>

Entries ==   \* what lists hold besides: a line past u32, no range, not whole
  {<<>>, <<Fn(a, 0), Fn(<<"a", "(", ")">>, 1)>>, <<Fn(a, 9), Fn(a, 1)>>,
   <<Fn(a, NoRange), Fn(a, 1)>>, <<Broken(Fn(a, 0)), Fn(a, 1)>>,
   <<Sym(a, "class", 0, <<Broken(Fn(a, 1))>>), Fn(a, 2)>>}

Named    == {Ans(c, "list", <<Fn(n, 1)>>) : c \in {"documentSymbol", "workspace/symbol"},
                                            n \in MCNames}
Shaped   == {Ans(c, s, <<>>) : c \in Call, s \in {"null", "other", "modified", "error"}}
Filled   == {Ans(c, "list", e) : c \in Call, e \in Entries}
            \cup {Ans("documentSymbol", "list", Tree)}
Called   == {Ans(c, "list", Wrapped(e, k)) : c \in {"incomingCalls", "outgoingCalls"},
                                             e \in Entries, k \in {"from", "to"}}

Frame(header, body) == [header |-> header \o EndOfHeader, body |-> body]
Sent(m) == Frame(<<ContentLength(2)>>, <<Open(m), Close(m)>>)

First == Ans("incomingCalls", "list", Wrapped(<<Fn(a, 1)>>, "from"))
Other == Ans("outgoingCalls", "null", <<>>)

MCBodies ==
  {<<Open(First), Close(First)>>, <<Open(First)>> \o EndOfHeader \o <<Close(First)>>,
   <<Word>>, <<>>, <<NotUtf8>>}

MCHeaders(n) ==
  {<<ContentLength(k)>> : k \in {n, n + 1, 1, 3, MaxUsize, MaxUsize + 1, NoLength}}
  \cup {<<Header>> \o CrLf \o <<ContentLength(n)>>, <<Header>>, <<NotUtf8, ContentLength(n)>>,
        <<ContentLength(n)>> \o CrLf \o <<Word>>, <<ContentLength(n), Lf>>, <<ContentLength(n), Word>>,
        <<ContentLength(n + 1)>> \o CrLf \o <<ContentLength(n)>>,
        <<ContentLength(n)>> \o CrLf \o <<ContentLength(NoLength)>>}

MCFrames == UNION {{Frame(h, b) : h \in MCHeaders(Len(b))} : b \in MCBodies}

MCStreams ==
  {<<Sent(m)>> : m \in Named \cup Shaped \cup Filled \cup Called}
  \cup {<<Sent(First), f, Sent(Other)>> : f \in MCFrames}
  \cup {<<f, Sent(First), Sent(Other)>> : f \in MCFrames}
=============================================================================
