------------------------------ MODULE Startup ------------------------------
(***************************************************************************)
(* run of main.rs up to the session: servers.toml is found and read, the   *)
(* language looked up, the sources listed, the terminal checked; then the  *)
(* server is started and waited for (Readiness).                           *)
(*                                                                         *)
(* The disk does not change meanwhile.  A directory is a set of entries    *)
(* [name, to, link, ext]: `to` is the directory an entry stands for, NoDir *)
(* for a file, `link` whether it is a symbolic link, `ext` whether its     *)
(* extension is one of the language's.  Names are numbers, ordered as they *)
(* sort.                                                                   *)
(***************************************************************************)
EXTENDS Readiness, SequencesExt

CONSTANTS
  Disks,    \* [root, entries: directory -> entries, readable: directories]
  Setups,   \* [override, files: place -> what it holds, terminal]
  Skipped,  \* the names .git, node_modules, target and vendor
  NoDir,
  MaxLinks, \* symbolic links the system follows in one path
  MaxDepth  \* bound: how deep directories are nested

VARIABLES
  disk, setup,
  stage,   \* what run does next; "go" once the server may be started
  config,  \* the servers.toml chosen, "none" while there is none
  stack,   \* directories to visit: [path, dir, links]
  files    \* source_files' out

startVars == <<disk, setup, stage, config, stack, files>>
allVars == <<vars, startVars>>

IsFile(place) == setup.files[place] # "absent"

Searched == IF IsFile("cwd") THEN "cwd" ELSE IF IsFile("user") THEN "user" ELSE "none"

(* Mutant: an override that is not there is passed over. *)
ResolveSilently == IF setup.override /\ IsFile("override") THEN "override" ELSE Searched

(* resolve_servers_toml *)
Resolve ==
  IF setup.override THEN IF IsFile("override") THEN "override" ELSE "none" ELSE Searched

Fail == stage' = "failed"

FindConfig ==
  /\ stage = "find"
  /\ config' = Resolve
  /\ IF Resolve = "none" THEN Fail ELSE stage' = "read"
  /\ UNCHANGED <<disk, setup, stack, files>>

FromToml(content) == content # "broken"
Defines(content) == content = "language"

(* Read, parsed, and the language looked up in it. *)
ReadConfig ==
  /\ stage = "read"
  /\ LET content == setup.files[config] IN
     IF FromToml(content) /\ Defines(content) THEN stage' = "walk" ELSE Fail
  /\ UNCHANGED <<disk, setup, config, stack, files>>

Child(at_, e) == [path |-> Append(at_.path, e.name), dir |-> e.to,
                  links |-> at_.links + IF e.link THEN 1 ELSE 0]

(* is_dir follows links, up to the system's limit. *)
IsDir(at_, e) == e.to # NoDir /\ Child(at_, e).links <= MaxLinks

(* Mutant: a skipped name is skipped only at the root. *)
PushedBelow(at_, e) == IsDir(at_, e) /\ (e.name \notin Skipped \/ at_.path # <<>>)

Pushed(at_, e) == IsDir(at_, e) /\ e.name \notin Skipped
Listed(at_, e) == ~IsDir(at_, e) /\ e.ext

(* A directory that cannot be read is passed over. *)
Entries(d, at_) == IF at_.dir \in d.readable THEN d.entries[at_.dir] ELSE {}

(* One round of source_files, the directory's entries in any order. *)
VisitDir ==
  /\ stage = "walk" /\ stack # <<>>
  /\ LET top == Last(stack)
         entries == Entries(disk, top)
         paths == {Child(top, e).path : e \in {x \in entries : Listed(top, x)}}
     IN  /\ \E more \in SetToSeqs({Child(top, e) : e \in {x \in entries : Pushed(top, x)}}) :
              stack' = Front(stack) \o more
         /\ files' = files \o SetToSeq(paths)
  /\ UNCHANGED <<disk, setup, stage, config>>

Before(p, q) ==   \* the order of paths
  \/ IsStrictPrefix(p, q)
  \/ \E i \in DOMAIN p \cap DOMAIN q :
       SubSeq(p, 1, i - 1) = SubSeq(q, 1, i - 1) /\ p[i] < q[i]

(* out.sort(): a path comes after those that are before it. *)
Rank(s, i) == Cardinality({j \in DOMAIN s : Before(s[j], s[i]) \/ (s[j] = s[i] /\ j < i)})
Sorted(s) == [k \in DOMAIN s |-> s[CHOOSE i \in DOMAIN s : Rank(s, i) = k - 1]]

(* The terminal is checked last, before anything is spawned. *)
Listing ==
  /\ stage = "walk" /\ stack = <<>>
  /\ files' = Sorted(files)
  /\ IF setup.terminal THEN stage' = "go" ELSE Fail
  /\ UNCHANGED <<disk, setup, config, stack>>

(* The reference: the files of a disk, by how deep their directories are. *)
Root(d) == [path |-> <<>>, dir |-> d.root, links |-> 0]
Inside(d, x) ==
  {Child(x, e) : e \in {y \in Entries(d, x) : IsDir(x, y) /\ y.name \notin Skipped}}
FilesIn(d, x) == {Child(x, e).path : e \in {y \in Entries(d, x) : Listed(x, y)}}
Dirs(d) ==
  LET deep[n \in 0..MaxDepth] ==
        IF n = 0 THEN {Root(d)} ELSE UNION {Inside(d, x) : x \in deep[n - 1]}
  IN  deep
Reached(d) == UNION {Dirs(d)[n] : n \in 0..MaxDepth}
Sources(d) == UNION {FilesIn(d, x) : x \in Reached(d)}

(* A directory has finitely many entries, each with a name of its own, and *)
(* links end paths before they are MaxDepth long.                          *)
ASSUME DisksAssumption ==
  \A d \in Disks : \A dir \in d.readable :
    LET entries == d.entries[dir] IN
    /\ IsFiniteSet(entries)
    /\ \A e \in entries : e.name \in Nat
    /\ \A e, f \in entries : e.name = f.name => e = f
ASSUME DepthAssumption ==
  MaxDepth \in Nat /\ \A d \in Disks : \A x \in Dirs(d)[MaxDepth] : Inside(d, x) = {}

StartInit ==
  /\ Init
  /\ disk \in Disks /\ setup \in Setups
  /\ repo = Cardinality(Sources(disk))
  /\ stage = "find" /\ config = "none"
  /\ stack = <<Root(disk)>> /\ files = <<>>

StartStep == FindConfig \/ ReadConfig \/ VisitDir \/ Listing

(* Mutant: the server may be started before the terminal is checked. *)
SpawnsEarly == stage \in {"walk", "go"}

MayStart == stage = "go"

StartNext ==
  \/ StartStep /\ UNCHANGED vars
  \/ MayStart /\ Next /\ UNCHANGED startVars
  \/ stage = "failed" /\ UNCHANGED allVars   \* the program has ended

(* The thread runs, spawn returns, and every request ends. *)
StartSpec ==
  /\ StartInit /\ [][StartNext]_allVars
  /\ WF_allVars(StartStep /\ UNCHANGED vars)
  /\ WF_allVars(MayStart /\ LaunchStep /\ UNCHANGED <<readyVars, startVars>>)
  /\ WF_allVars(ReadyStep /\ UNCHANGED startVars)

----------------------------------------------------------------------------
(* Configuration and terminal are checked before a server is spawned: the  *)
(* most specific servers.toml there is, and no other, is well-formed and   *)
(* defines the language, and there is a terminal to draw on.  That there   *)
(* are sources is not: without any, a server is spawned and start-up then  *)
(* fails whatever it does (readiness.rs:113).                              *)
CheckedBeforeSpawn ==
  proc # "none" =>
    /\ setup.terminal /\ setup.files[config] = "language"
    /\ setup.override => config = "override"
    /\ config = "user" => ~IsFile("cwd")

(* What the walk lists, in whatever order directories are read: every      *)
(* source file that can be reached without entering a skipped directory,   *)
(* under every path that leads to it, once and sorted.                     *)
WalkIsExact ==
  stage = "go" =>
    /\ ToSet(files) = Sources(disk) /\ Len(files) = repo
    /\ \A i \in 1..(Len(files) - 1) : Before(files[i], files[i + 1])

(* Start-up ends from its beginning on: it fails before the server, with   *)
(* the server, or it is ready.  The walk through linked directories, the   *)
(* start of the server and the wait for it are each left in the end.       *)
StartupEnds ==
  (stage = "find") ~> (stage = "failed" \/ at \in {"serving", "drop", "ended"})
=============================================================================
