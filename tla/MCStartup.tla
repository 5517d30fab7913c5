----------------------------- MODULE MCStartup -----------------------------
(***************************************************************************)
(* The disks and set-ups of the run.  Directories are letters, names       *)
(* numbers; 9 is a name to skip.                                           *)
(***************************************************************************)
EXTENDS Startup

none == "no directory"
Source(n) == [name |-> n, to |-> none, link |-> FALSE, ext |-> TRUE]
Other(n)  == [name |-> n, to |-> none, link |-> FALSE, ext |-> FALSE]
Dir(n, d) == [name |-> n, to |-> d, link |-> FALSE, ext |-> FALSE]
Link(n, d, e) == [name |-> n, to |-> d, link |-> TRUE, ext |-> e]

Disk(entries, readable) == [root |-> "r", entries |-> entries, readable |-> readable]

Empty == [d \in {"r", "s", "t", "u"} |-> {}]
Flat(n) == Disk([Empty EXCEPT !["r"] = {Source(i) : i \in 1..n} \cup {Other(8)}], {"r"})

(* Directories three deep, skipped ones at the root and below it, a file   *)
(* with a skipped name, one directory that cannot be read.                 *)
Nested ==
  Disk("r" :> {Source(3), Dir(1, "s"), Dir(4, "u"), Dir(9, "t")}
       @@ "s" :> {Source(1), Dir(2, "t"), Dir(9, "t")}
       @@ "t" :> {Source(1), Source(9), Other(2)}
       @@ "u" :> {Source(1)}, {"r", "s", "t"})

(* A directory with a link to it, and one to the root: a cycle, whose link *)
(* has a source file's extension.                                          *)
Linked ==
  Disk("r" :> {Dir(1, "s"), Link(2, "s", FALSE), Link(3, "r", TRUE)}
       @@ "s" :> {Source(1)} @@ "t" :> {} @@ "u" :> {}, {"r", "s"})

MCDisks == {Flat(n) : n \in {0, 2, 5, 7}} \cup {Nested, Linked}

(* What each place holds: nothing, no TOML, other languages, or this one;  *)
(* with and without an override, which nothing looks at while it is unset. *)
MCSetups ==
  LET contents == {"absent", "broken", "other", "language"} IN
  {[override |-> o, terminal |-> t, files |-> "override" :> p @@ "cwd" :> c @@ "user" :> u] :
     <<o, p>> \in {<<FALSE, "absent">>} \cup {<<TRUE, x>> : x \in contents},
     c \in contents, u \in {"absent", "language"}, t \in BOOLEAN}
=============================================================================
