----------------------------- MODULE Readiness -----------------------------
(***************************************************************************)
(* wait_until_ready of readiness.rs over the server of server.rs: files    *)
(* are sampled, opened and asked for their symbols; the callables found    *)
(* are then polled in rotation until one has a call hierarchy item.        *)
(*                                                                         *)
(* One deadline covers both phases.  `now` is the time since they began,   *)
(* in ticks; a request takes from nothing to RequestTimeout of them, and   *)
(* only waiting takes time.  A server that has exited fails every request. *)
(***************************************************************************)
EXTENDS LanguageServer, Stride

CONSTANTS
  MaxRepo,         \* bound: files in the repository
  MaxSymbols,      \* bound: callables the server finds in one file
  MaxFiles,        \* ReadinessConfig::max_files
  PerFile,         \* ReadinessConfig::per_file
  ReadyTimeout,    \* ReadinessConfig::timeout
  RequestTimeout,  \* REQUEST_TIMEOUT
  MaxAttempts,     \* MAX_ATTEMPTS of a call hierarchy request
  RetryDelay,      \* RETRY_DELAY
  Pause            \* the second slept after each round

ASSUME BoundsAssumption == {MaxRepo, MaxSymbols, MaxFiles, PerFile} \subseteq Nat
ASSUME TimesAssumption ==
  /\ {ReadyTimeout, RetryDelay} \subseteq Nat
  /\ {RequestTimeout, MaxAttempts, Pause} \subseteq Nat \ {0}

VARIABLES
  now,         \* ticks since wait_until_ready began
  repo,        \* how many files the repository has
  next,        \* the next of the sampled files, from 1
  attempted, failedFiles,
  candidates,  \* how many callables were gathered
  cursor,      \* the next candidate of the round, from 1
  attempt      \* which attempt of a request is under way, 0 when none is

readyVars == <<now, repo, next, attempted, failedFiles, candidates, cursor, attempt>>
vars == <<serverVars, readyVars>>

Sample == EvenStride(repo, MaxFiles)

Init ==
  /\ ServerInit
  /\ repo \in 0..MaxRepo
  /\ now = 0 /\ next = 1 /\ attempted = 0 /\ failedFiles = 0
  /\ candidates = 0 /\ cursor = 1 /\ attempt = 0

----------------------------------------------------------------------------
Goto(stage) == at' = stage /\ UNCHANGED <<proc, holder, kills, err>>

(* A request takes d ticks; its answer or its failure comes within them. *)
Takes(d) == now' = now + d
Duration == 0..RequestTimeout

(* remaining_budget(deadline, now) is Some *)
BudgetLeft == now < ReadyTimeout

(* Gathering: the budget is looked at once per file. *)
FilesLeft == next <= Len(Sample)

OpenFile ==
  /\ at = "open" /\ FilesLeft /\ BudgetLeft
  /\ proc = "running"
  /\ Goto("symbols")
  /\ attempted' = attempted + 1
  /\ UNCHANGED <<now, repo, next, failedFiles, candidates, cursor, attempt>>

(* The file cannot be read, or the server not written to. *)
OpenFails ==
  /\ at = "open" /\ FilesLeft /\ BudgetLeft
  /\ next' = next + 1
  /\ attempted' = attempted + 1
  /\ failedFiles' = failedFiles + 1
  /\ UNCHANGED <<serverVars, now, repo, candidates, cursor, attempt>>

(* truncate(per_file), of k callables found in a file *)
Kept(k) == IF k < PerFile THEN k ELSE PerFile

SymbolsFound ==
  /\ at = "symbols" /\ proc = "running"
  /\ Goto("open")
  /\ next' = next + 1
  /\ \E d \in Duration : Takes(d)
  /\ \E k \in 0..MaxSymbols : candidates' = candidates + Kept(k)
  /\ UNCHANGED <<repo, attempted, failedFiles, cursor, attempt>>

SymbolsFail ==
  /\ at = "symbols"
  /\ Goto("open")
  /\ next' = next + 1
  /\ \E d \in Duration : Takes(d)
  /\ failedFiles' = failedFiles + 1
  /\ UNCHANGED <<repo, attempted, candidates, cursor, attempt>>

Gathered ==
  /\ at = "open" /\ ~(FilesLeft /\ BudgetLeft)
  /\ IF candidates = 0 THEN GiveUp("NoCandidates") ELSE Goto("round")
  /\ UNCHANGED readyVars

----------------------------------------------------------------------------
(* Polling: the budget is looked at once per round and once per candidate. *)
Round ==
  /\ at = "round" /\ BudgetLeft
  /\ Goto("poll")
  /\ cursor' = 1
  /\ UNCHANGED <<now, repo, next, attempted, failedFiles, candidates, attempt>>

OutOfTime ==
  /\ at = "round" /\ ~BudgetLeft
  /\ GiveUp("NotReady")
  /\ UNCHANGED readyVars

(* Mutant: the budget is looked at once per round only. *)
AskWhateverTheTime == cursor <= candidates

(* Another candidate of this round is to be asked about. *)
AskAnother == cursor <= candidates /\ BudgetLeft

Ask ==
  /\ at = "poll" /\ AskAnother
  /\ Goto("asking")
  /\ attempt' = 1
  /\ UNCHANGED <<now, repo, next, attempted, failedFiles, candidates, cursor>>

RoundOver ==
  /\ at = "poll" /\ ~AskAnother
  /\ Goto("rest")
  /\ UNCHANGED readyVars

(* Mutant: rounds follow each other without a pause. *)
NoRest == now' = now

Slept == now' = now + Pause

Rest ==
  /\ at = "rest"
  /\ Goto("round")
  /\ Slept
  /\ UNCHANGED <<repo, next, attempted, failedFiles, candidates, cursor, attempt>>

(* prepareCallHierarchy: an item, *)
Answered ==
  /\ at = "asking" /\ proc = "running"
  /\ Goto("serving")
  /\ \E d \in Duration : Takes(d)
  /\ attempt' = 0
  /\ UNCHANGED <<repo, next, attempted, failedFiles, candidates, cursor>>

(* nothing, or an error that is not retried, *)
NotThisOne ==
  /\ at = "asking"
  /\ Goto("poll")
  /\ \E d \in Duration : Takes(d)
  /\ attempt' = 0 /\ cursor' = cursor + 1
  /\ UNCHANGED <<repo, next, attempted, failedFiles, candidates>>

(* Mutant: one attempt too many. *)
MayRetryAgain == attempt <= MaxAttempts

MayRetry == attempt < MaxAttempts

(* or ContentModified: the request is repeated in full. *)
Modified ==
  /\ at = "asking" /\ proc = "running" /\ MayRetry
  /\ attempt' = attempt + 1
  /\ \E d \in Duration : Takes(d + RetryDelay)
  /\ UNCHANGED <<serverVars, repo, next, attempted, failedFiles, candidates, cursor>>

----------------------------------------------------------------------------
ReadyStep ==
  \/ OpenFile
  \/ OpenFails
  \/ SymbolsFound
  \/ SymbolsFail
  \/ Gathered
  \/ Round
  \/ OutOfTime
  \/ Ask
  \/ RoundOver
  \/ Rest
  \/ Answered
  \/ NotThisOne
  \/ Modified

(* The program has ended. *)
Done == at = "ended" /\ UNCHANGED vars

Next ==
  \/ ServerStep /\ UNCHANGED readyVars
  \/ ReadyStep
  \/ Done

Spec == Init /\ [][Next]_vars

----------------------------------------------------------------------------
(* Type invariant of the server, the clock and the poll. *)
TypeOK ==
  /\ at \in Stage /\ err \in ErrorKind
  /\ proc \in {"none", "running", "exited", "reaped"}
  /\ holder \in {"none", "guard", "server"} /\ kills \in Nat
  /\ now \in Nat /\ repo \in 0..MaxRepo
  /\ next \in 1..(MaxFiles + 1)
  /\ attempted \in 0..MaxFiles /\ failedFiles \in 0..attempted
  /\ candidates \in 0..(MaxFiles * PerFile) /\ cursor \in 1..(candidates + 1)
  /\ attempt \in 0..MaxAttempts

(* A process that was spawned and not reaped always has an owner that will *)
(* kill it: no early return of start, no failed readiness and no shutdown  *)
(* or drop leaves a server behind, also one that ended by itself.          *)
ServerIsOwned == proc \in {"running", "exited"} => holder # "none"

(* By the time everything is dropped the process was killed and reaped,    *)
(* once: shutdown followed by Drop does not kill a second time.            *)
KilledOnce == at = "ended" => IF proc = "none" THEN kills = 0
                                               ELSE proc = "reaped" /\ kills = 1

(* The sample is spread over the repository, no file taken twice: the      *)
(* ratio between one and two times the cap included.                       *)
SampleIsSpread == IsSpread(Sample, repo, MaxFiles)

(* How late start-up may end: the last candidate is asked with a tick left *)
(* at least, and is repeated in full for each ContentModified; a pause     *)
(* follows before the deadline is looked at again.  (The comment at        *)
(* readiness.rs:131-133 counts one request, where prepare may be three.)   *)
Overshoot == MaxAttempts * RequestTimeout + (MaxAttempts - 1) * RetryDelay + Pause
EndsNearDeadline == now < ReadyTimeout + Overshoot
=============================================================================
