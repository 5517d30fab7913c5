--------------------------- MODULE LanguageServer ---------------------------
(***************************************************************************)
(* The language server process as server.rs sees it: spawned under a       *)
(* ChildGuard, initialized, handed over to a LanguageServer, asked to shut *)
(* down, killed and reaped.                                                *)
(*                                                                         *)
(* What the process answers, and whether it exits by itself, is its own    *)
(* affair.  A request ends with an answer, an error or its timeout: that   *)
(* it ends is the business of the connection.  Taking the two pipes out of *)
(* a child spawned with both cannot fail and is left out.                  *)
(***************************************************************************)
EXTENDS Naturals

VARIABLES
  at,       \* what the program does next; see Stage
  proc,     \* the process: "none", "running", "exited" (not reaped), "reaped"
  holder,   \* who owns the Child: "none", "guard", "server"
  kills,    \* ghost: how often the process was killed
  err       \* the error start-up ended with, "none" while there is none

serverVars == <<at, proc, holder, kills, err>>

Stage == {"spawn", "initialize", "notify", "open", "symbols", "round", "poll",
          "asking", "rest", "serving", "exit", "kill", "drop", "ended"}

ErrorKind == {"none", "Io", "Request", "NoCallHierarchy", "NoCandidates", "NotReady"}

ServerInit ==
  /\ at = "spawn"
  /\ proc = "none" /\ holder = "none" /\ kills = 0
  /\ err = "none"

----------------------------------------------------------------------------
(* Mutant: the child is killed but not taken out of its slot. *)
KillAndReapInPlace(who) ==
  IF holder = who
  THEN proc' = "reaped" /\ kills' = kills + 1 /\ UNCHANGED holder
  ELSE UNCHANGED <<proc, holder, kills>>

(* kill and wait, if the child is still `who`'s to kill. *)
KillAndReap(who) ==
  IF holder = who
  THEN proc' = "reaped" /\ holder' = "none" /\ kills' = kills + 1
  ELSE UNCHANGED <<proc, holder, kills>>

Spawn ==
  /\ at = "spawn"
  /\ at' = "initialize"
  /\ proc' = "running" /\ holder' = "guard"
  /\ UNCHANGED <<kills, err>>

SpawnFails ==
  /\ at = "spawn"
  /\ at' = "ended" /\ err' = "Io"
  /\ UNCHANGED <<proc, holder, kills>>

(* The initialize request is answered with a call hierarchy provider. *)
Initialized ==
  /\ at = "initialize" /\ proc = "running"
  /\ at' = "notify"
  /\ UNCHANGED <<proc, holder, kills, err>>

(* Mutant: the guard is disarmed on the way out of a failed start. *)
DisarmedFail(e) ==
  /\ at' = "ended" /\ err' = e
  /\ holder' = "none"
  /\ UNCHANGED <<proc, kills>>

(* start returns early: the guard goes out of scope. *)
StartFails(e) ==
  /\ at' = "ended" /\ err' = e
  /\ KillAndReap("guard")

(* No answer, an error, or an answer without the capability. *)
Rejected ==
  /\ at = "initialize"
  /\ StartFails("Request") \/ StartFails("NoCallHierarchy")

(* `initialized` is sent; the guard is disarmed and the server owns the child. *)
HandOver ==
  /\ at = "notify"
  /\ at' = "open"
  /\ holder' = "server"
  /\ UNCHANGED <<proc, kills, err>>

NotifyFails ==
  /\ at = "notify"
  /\ StartFails("Io")

(* wait_until_ready returns an error: run returns it, the server is dropped. *)
GiveUp(e) ==
  /\ at' = "drop" /\ err' = e
  /\ UNCHANGED <<proc, holder, kills>>

----------------------------------------------------------------------------
(* shutdown: a request and a notification whose outcome is ignored, ... *)
RequestShutdown ==
  /\ at = "serving"
  /\ at' = "exit"
  /\ UNCHANGED <<proc, holder, kills, err>>

NotifyExit ==
  /\ at = "exit"
  /\ at' = "kill"
  /\ UNCHANGED <<proc, holder, kills, err>>

Kill ==
  /\ at = "kill"
  /\ at' = "drop"
  /\ KillAndReap("server")
  /\ UNCHANGED err

(* An owner that goes away without calling shutdown only drops the server. *)
Abandon ==
  /\ at = "serving"
  /\ at' = "drop"
  /\ UNCHANGED <<proc, holder, kills, err>>

(* ...then Drop, which runs after shutdown too. *)
Drop ==
  /\ at = "drop"
  /\ at' = "ended"
  /\ KillAndReap("server")
  /\ UNCHANGED err

(* The process ends by itself (external). *)
ProcessExits ==
  /\ proc = "running"
  /\ proc' = "exited"
  /\ UNCHANGED <<at, holder, kills, err>>

(* LanguageServer::start *)
LaunchStep ==
  \/ Spawn
  \/ SpawnFails
  \/ Initialized
  \/ Rejected
  \/ HandOver
  \/ NotifyFails

ServerStep ==
  \/ LaunchStep
  \/ RequestShutdown
  \/ NotifyExit
  \/ Kill
  \/ Abandon
  \/ Drop
  \/ ProcessExits
=============================================================================
