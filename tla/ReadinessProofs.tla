-------------------------- MODULE ReadinessProofs --------------------------
(***************************************************************************)
(* Proofs about start-up, for any repository, any sampling bounds and any  *)
(* timeouts.                                                               *)
(***************************************************************************)
EXTENDS Readiness, TLAPS

----------------------------------------------------------------------------
(* What integer division promises. *)
LEMMA Quotient ==
  ASSUME NEW a \in Nat, NEW m \in Nat, m > 0
  PROVE  /\ a \div m \in Nat
         /\ (a \div m) * m <= a
         /\ a < (a \div m) * m + m
  BY Z3

(* One pick lies between consecutive multiples of the stride. *)
LEMMA PickBounds ==
  ASSUME NEW i \in Nat, NEW len \in Nat, NEW max \in Nat, max > 0
  PROVE  /\ Pick(i, len, max) \in Nat
         /\ Pick(i, len, max) * max <= i * len
         /\ i * len < Pick(i, len, max) * max + max
<1>1. i * len \in Nat
  OBVIOUS
<1> QED
  BY <1>1, Quotient DEF Pick

(* Two multiples of m that differ by less than m either way. *)
LEMMA Cancel ==
  ASSUME NEW x \in Int, NEW y \in Int, NEW m \in Nat, m > 0, x * m < y * m
  PROVE  x < y
<1> SUFFICES ASSUME y <= x PROVE FALSE
  OBVIOUS
<1>1. y * m <= x * m
  BY Z3
<1> QED
  BY <1>1

(* The sample of a repository larger than the cap. *)
LEMMA Capped ==
  ASSUME NEW len \in Nat, NEW max \in Nat, len > max
  PROVE  IsSpread(EvenStride(len, max), len, max)
<1> DEFINE s == [k \in 1..max |-> Pick(k - 1, len, max)]
<1>1. EvenStride(len, max) = s /\ Len(s) = max /\ s \in [1..max -> Int]
  <2>1. EvenStride(len, max) = s
    BY DEF EvenStride
  <2>2. \A k \in 1..max : k - 1 \in Nat /\ max > 0
    OBVIOUS
  <2>3. \A k \in 1..max : Pick(k - 1, len, max) \in Nat
    BY <2>2, PickBounds
  <2> QED
    BY <2>1, <2>3
<1>2. ASSUME NEW k \in 1..max
      PROVE  /\ s[k] \in 0..(len - 1)
             /\ Stretch(s, len, k) >= 1
             /\ Stretch(s, len, k) * max < len + max
             /\ Stretch(s, len, k) * max > len - max
  <2> DEFINE p == Pick(k - 1, len, max)
             q == IF k = max THEN len ELSE Pick(k, len, max)
  <2>1. max > 0 /\ k - 1 \in Nat /\ k \in Nat /\ (k - 1) * len = k * len - len
    BY Z3
  <2>2. /\ p \in Nat /\ p * max <= k * len - len
        /\ k * len - len < p * max + max
    BY <2>1, PickBounds
  <2>3. /\ q \in Nat /\ q * max <= k * len
        /\ k * len < q * max + max
    <3>1. CASE k = max
      BY <3>1, <2>1, Z3
    <3>2. CASE k # max
      BY <3>2, <2>1, PickBounds
    <3> QED
      BY <3>1, <3>2
  <2>4. s[k] = p /\ Stretch(s, len, k) = q - p
    BY <1>1 DEF Stretch
  <2> HIDE DEF p, q, s
  <2>5. (q - p) * max = q * max - p * max
    BY <2>2, <2>3, Z3
  <2>6. q * max \in Int /\ p * max \in Int /\ k * len \in Int
    BY <2>1, <2>2, <2>3
  <2>7. Stretch(s, len, k) * max < len + max /\ Stretch(s, len, k) * max > len - max
    BY <2>2, <2>3, <2>4, <2>5, <2>6
  <2>8. Stretch(s, len, k) >= 1
    <3>1. (q - p) * max > len - max
      BY <2>4, <2>7
    <3>2. 0 * max = 0 /\ (q - p) * max \in Int
      BY <2>2, <2>3
    <3>3. 0 * max < (q - p) * max
      BY <3>1, <3>2
    <3>4. 0 < q - p
      BY <3>3, <2>1, <2>2, <2>3, Cancel
    <3> QED
      BY <3>4, <2>2, <2>3, <2>4
  <2>9. p < len
    <3>1. k * len <= max * len
      BY <2>1, Z3
    <3>2. p * max < len * max
      BY <2>2, <2>6, <3>1, Z3
    <3> QED
      BY <3>2, <2>1, <2>2, Cancel
  <2> QED
    BY <2>2, <2>4, <2>7, <2>8, <2>9
<1>3. s # <<>> => s[1] = 0
  <2> SUFFICES ASSUME s # <<>> PROVE s[1] = 0
    OBVIOUS
  <2>1. max > 0
    BY <1>1
  <2>2. s[1] = Pick(0, len, max)
    BY <2>1
  <2>3. /\ Pick(0, len, max) \in Nat
        /\ Pick(0, len, max) * max <= 0 * len
    BY <2>1, PickBounds
  <2>4. Pick(0, len, max) * max < 1 * max
    BY <2>1, <2>3, Z3
  <2> QED
    BY <2>1, <2>2, <2>3, <2>4, Cancel
<1>4. IsSpread(s, len, max)
  <2> HIDE DEF s
  <2> QED
    BY <1>1, <1>2, <1>3 DEF IsSpread
<1> QED
  BY <1>1, <1>4

(* The sample is spread over the repository, whatever its size and the cap. *)
THEOREM StrideIsSpread ==
  ASSUME NEW len \in Nat, NEW max \in Nat
  PROVE  IsSpread(EvenStride(len, max), len, max)
<1>1. CASE len <= max
  <2>1. EvenStride(len, max) = [k \in 1..len |-> k - 1]
    BY <1>1 DEF EvenStride
  <2> DEFINE s == [k \in 1..len |-> k - 1]
  <2>2. Len(s) = len /\ \A k \in 1..len : s[k] = k - 1
    OBVIOUS
  <2>3. \A k \in 1..len : Stretch(s, len, k) = 1
    BY <2>2 DEF Stretch
  <2>4. 1 * len = len
    OBVIOUS
  <2>5. s # <<>> => 1 \in 1..len
    BY <2>2
  <2> HIDE DEF s
  <2>6. IsSpread(s, len, max)
    BY <1>1, <2>2, <2>3, <2>4, <2>5 DEF IsSpread
  <2> QED
    BY <2>1, <2>6 DEF s
<1>2. CASE len > max
  BY <1>2, Capped
<1> QED
  BY <1>1, <1>2

----------------------------------------------------------------------------
(* Where the child is, by what the program does next. *)
Unreaped == {"running", "exited"}

Ownership ==
  /\ at = "spawn" => proc = "none" /\ holder = "none" /\ kills = 0
  /\ at \in {"initialize", "notify"} =>
       proc \in Unreaped /\ holder = "guard" /\ kills = 0
  /\ at \notin {"spawn", "initialize", "notify", "drop", "ended"} =>
       proc \in Unreaped /\ holder = "server" /\ kills = 0
  /\ at = "drop" =>
       \/ proc \in Unreaped /\ holder = "server" /\ kills = 0
       \/ proc = "reaped" /\ holder = "none" /\ kills = 1
  /\ at = "ended" =>
       \/ proc = "none" /\ holder = "none" /\ kills = 0
       \/ proc = "reaped" /\ holder = "none" /\ kills = 1

(* How far the clock may be, by what the program does next. *)
Repeated(n) == n * (RequestTimeout + RetryDelay)

Timing ==
  /\ at \in {"spawn", "initialize", "notify"} => now = 0
  /\ at = "symbols" => now < ReadyTimeout
  /\ at = "asking" => attempt >= 1 /\ now < ReadyTimeout + Repeated(attempt - 1)
  /\ at \in {"open", "poll", "rest"} => now + Pause < ReadyTimeout + Overshoot
  /\ EndsNearDeadline

(* What the counters count, by the next file. *)
Counted ==
  /\ attempted = next - 1 + IF at = "symbols" THEN 1 ELSE 0
  /\ failedFiles <= next - 1
  /\ candidates <= (next - 1) * PerFile
  /\ at = "symbols" => FilesLeft
  /\ at = "asking" => cursor <= candidates

----------------------------------------------------------------------------
(* The child always has an owner, and is killed and reaped once: every way *)
(* out of start, of a failed wait and of shutdown.                         *)
THEOREM ServerNotLeaked == Spec => [](ServerIsOwned /\ KilledOnce)
<1>1. Init => Ownership
  BY DEF Init, ServerInit, Ownership
<1>2. Ownership /\ [Next]_vars => Ownership'
  <2> SUFFICES ASSUME Ownership, [Next]_vars PROVE Ownership'
    OBVIOUS
  <2> USE DEF Ownership, Unreaped
  <2>1. CASE Spawn \/ SpawnFails \/ Initialized
    BY <2>1 DEF Spawn, SpawnFails, Initialized
  <2>2. CASE Rejected \/ NotifyFails
    BY <2>2 DEF Rejected, NotifyFails, StartFails, KillAndReap
  <2>3. CASE HandOver
    BY <2>3 DEF HandOver
  <2>4. CASE RequestShutdown \/ NotifyExit \/ Abandon
    BY <2>4 DEF RequestShutdown, NotifyExit, Abandon
  <2>5. CASE Kill \/ Drop
    BY <2>5 DEF Kill, Drop, KillAndReap
  <2>6. CASE ProcessExits
    BY <2>6 DEF ProcessExits
  <2>7. CASE ReadyStep
    <3>1. CASE OpenFile \/ OpenFails \/ SymbolsFound \/ SymbolsFail \/ Gathered
      BY <3>1 DEF OpenFile, OpenFails, SymbolsFound, SymbolsFail, Gathered, Goto,
                  GiveUp, serverVars
    <3>2. CASE Round \/ OutOfTime \/ Ask \/ RoundOver \/ Rest
      BY <3>2 DEF Round, OutOfTime, Ask, RoundOver, Rest, Goto, GiveUp
    <3>3. CASE Answered \/ NotThisOne \/ Modified
      BY <3>3 DEF Answered, NotThisOne, Modified, Goto, serverVars
    <3> QED
      BY <2>7, <3>1, <3>2, <3>3 DEF ReadyStep
  <2>8. CASE UNCHANGED vars
    BY <2>8 DEF vars, serverVars
  <2> QED
    BY <2>1, <2>2, <2>3, <2>4, <2>5, <2>6, <2>7, <2>8 DEF Next, ServerStep, LaunchStep, Done
<1>3. Ownership => ServerIsOwned /\ KilledOnce
  BY DEF Ownership, ServerIsOwned, KilledOnce, Unreaped
<1> QED
  BY <1>1, <1>2, <1>3, PTL DEF Spec

----------------------------------------------------------------------------
(* No more files are sampled than the cap allows. *)
LEMMA SampleSize ==
  ASSUME repo \in Nat
  PROVE  Len(Sample) \in 0..MaxFiles
<1>1. MaxFiles \in Nat
  BY BoundsAssumption
<1> QED
  BY <1>1, StrideIsSpread DEF Sample, IsSpread

(* Types and counters are kept together. *)
LEMMA CountsHold == Spec => [](TypeOK /\ Counted)
<1> USE BoundsAssumption, TimesAssumption
<1>1. Init => TypeOK /\ Counted
  BY DEF Init, ServerInit, TypeOK, Counted, Stage, ErrorKind
<1>2. TypeOK /\ Counted /\ [Next]_vars => TypeOK' /\ Counted'
  <2> SUFFICES ASSUME TypeOK, Counted, [Next]_vars PROVE TypeOK' /\ Counted'
    OBVIOUS
  <2>1. Len(Sample) \in 0..MaxFiles
    BY SampleSize DEF TypeOK
  <2>2. CASE ServerStep /\ UNCHANGED readyVars
    <3>1. /\ at' \in Stage /\ err' \in ErrorKind /\ kills' \in Nat
          /\ proc' \in {"none", "running", "exited", "reaped"}
          /\ holder' \in {"none", "guard", "server"}
          /\ at' \notin {"symbols", "asking"} \/ at' = at
      BY <2>2
      DEF TypeOK, ServerStep, LaunchStep, Spawn, SpawnFails, Initialized, Rejected, NotifyFails,
          StartFails, KillAndReap, HandOver, RequestShutdown, NotifyExit, Kill, Abandon,
          Drop, ProcessExits, Stage, ErrorKind
    <3>2. at' = "symbols" <=> at = "symbols"
      BY <2>2, <3>1
      DEF ServerStep, LaunchStep, Spawn, SpawnFails, Initialized, Rejected, NotifyFails, StartFails,
          HandOver, RequestShutdown, NotifyExit, Kill, Abandon, Drop, ProcessExits
    <3> QED
      BY <2>2, <3>1, <3>2 DEF TypeOK, Counted, readyVars, FilesLeft, Sample
  <2>3. CASE ReadyStep
    <3>0. PerFile \in Nat /\ MaxFiles \in Nat /\ RequestTimeout \in Nat
            /\ RetryDelay \in Nat /\ Pause \in Nat /\ MaxSymbols \in Nat
            /\ MaxAttempts \in Nat
      OBVIOUS
    <3>1. CASE OpenFile
      BY <3>1, <2>1 DEF OpenFile, Goto, TypeOK, Counted, Stage, FilesLeft, Sample
    <3>2. CASE OpenFails
      <4>1. next \in 1..MaxFiles /\ at = "open"
        BY <3>2, <2>1 DEF OpenFails, TypeOK, FilesLeft
      <4>2. candidates <= next * PerFile
        BY <3>0, <4>1, Z3 DEF TypeOK, Counted
      <4>3. next' = next + 1 /\ next' - 1 = next
        BY <3>2, <4>1 DEF OpenFails
      <4>4. TypeOK'
        BY <3>2, <4>1, <4>3 DEF OpenFails, TypeOK, Counted, serverVars
      <4>5. Counted'
        BY <3>2, <4>1, <4>2, <4>3 DEF OpenFails, TypeOK, Counted, serverVars
      <4> QED
        BY <4>4, <4>5
    <3>3. CASE SymbolsFound
      <4>1. PICK k \in 0..MaxSymbols : candidates' = candidates + Kept(k)
        BY <3>3 DEF SymbolsFound
      <4>2. Kept(k) \in 0..PerFile
        BY <3>0 DEF Kept
      <4>3. PICK d \in Duration : now' = now + d
        BY <3>3 DEF SymbolsFound, Takes
      <4>4. next \in 1..MaxFiles /\ candidates <= (next - 1) * PerFile
        BY <3>3, <2>1 DEF SymbolsFound, Counted, TypeOK, FilesLeft
      <4>5. candidates' \in Nat /\ candidates' <= next * PerFile
              /\ next * PerFile <= MaxFiles * PerFile
        <5>1. (next - 1) * PerFile + PerFile = next * PerFile
          BY <3>0, <4>4, Z3
        <5>2. next * PerFile <= MaxFiles * PerFile
          BY <3>0, <4>4, Z3
        <5>3. candidates \in Nat
          BY <3>0 DEF TypeOK
        <5>4. (next - 1) * PerFile \in Int /\ next * PerFile \in Int
                /\ MaxFiles * PerFile \in Int
          BY <3>0, <4>4
        <5> QED
          BY <4>1, <4>2, <4>4, <5>1, <5>2, <5>3, <5>4
      <4>6. now' \in Nat
        BY <4>3, <3>0 DEF Duration, TypeOK
      <4>7. MaxFiles * PerFile \in Nat /\ next * PerFile \in Nat
        BY <3>0, <4>4
      <4>8. cursor \in 1..(candidates' + 1) /\ candidates' \in 0..(MaxFiles * PerFile)
        BY <4>1, <4>2, <4>5, <4>7, <3>0 DEF TypeOK
      <4> QED
        BY <3>3, <4>4, <4>5, <4>6, <4>8
        DEF SymbolsFound, Goto, TypeOK, Counted, Stage
    <3>4. CASE SymbolsFail
      <4>1. now' \in Nat
        BY <3>4, <3>0 DEF SymbolsFail, Takes, Duration, TypeOK
      <4>2. next \in 1..MaxFiles
        BY <3>4, <2>1 DEF SymbolsFail, Counted, TypeOK, FilesLeft
      <4>3. candidates <= next * PerFile
        BY <3>0, <4>2, Z3 DEF TypeOK, Counted
      <4> QED
        BY <3>4, <4>1, <4>2, <4>3 DEF SymbolsFail, Goto, TypeOK, Counted, Stage
    <3>5. CASE Gathered \/ OutOfTime \/ RoundOver
      BY <3>5
      DEF Gathered, OutOfTime, RoundOver, GiveUp, Goto, readyVars, TypeOK, Counted, Stage,
          ErrorKind, FilesLeft, Sample
    <3>6. CASE Round
      BY <3>6, <3>0 DEF Round, Goto, TypeOK, Counted, Stage
    <3>7. CASE Ask
      BY <3>7, <3>0 DEF Ask, AskAnother, Goto, TypeOK, Counted, Stage
    <3>8. CASE Rest
      BY <3>8, <3>0 DEF Rest, Slept, Goto, TypeOK, Counted, Stage
    <3>9. CASE Answered
      BY <3>9, <3>0 DEF Answered, Takes, Duration, Goto, TypeOK, Counted, Stage
    <3>10. CASE NotThisOne
      BY <3>10, <3>0 DEF NotThisOne, Takes, Duration, Goto, TypeOK, Counted, Stage
    <3>11. CASE Modified
      BY <3>11, <3>0
      DEF Modified, MayRetry, Takes, Duration, serverVars, TypeOK, Counted, FilesLeft,
          Sample
    <3> QED
      BY <2>3, <3>1, <3>2, <3>3, <3>4, <3>5, <3>6, <3>7, <3>8, <3>9, <3>10, <3>11
      DEF ReadyStep
  <2>4. CASE UNCHANGED vars
    BY <2>4 DEF vars, serverVars, readyVars, TypeOK, Counted, FilesLeft, Sample
  <2> QED
    BY <2>2, <2>3, <2>4 DEF Next, Done
<1> QED
  BY <1>1, <1>2, PTL DEF Spec

(* The type invariant of start-up. *)
THEOREM TypeCorrect == Spec => []TypeOK
BY CountsHold, PTL

----------------------------------------------------------------------------
(* What the attempts up to one take, and what all of them may. *)
LEMMA Repetition ==
  ASSUME NEW n \in 1..MaxAttempts
  PROVE  /\ Repeated(n - 1) \in Nat
         /\ Repeated(n) = Repeated(n - 1) + RequestTimeout + RetryDelay
         /\ Repeated(n - 1) + RequestTimeout + Pause <= Overshoot
         /\ Repeated(0) = 0
<1> USE TimesAssumption
<1>1. /\ RequestTimeout \in Nat /\ RetryDelay \in Nat /\ Pause \in Nat
      /\ MaxAttempts \in Nat /\ MaxAttempts >= 1
  OBVIOUS
<1> DEFINE t == RequestTimeout + RetryDelay
<1>2. (n - 1) * t \in Nat /\ n * t = (n - 1) * t + t
  BY <1>1, Z3
<1>3. (n - 1) * t <= (MaxAttempts - 1) * t
  BY <1>1, Z3
<1>4. (MaxAttempts - 1) * t + RequestTimeout
        = MaxAttempts * RequestTimeout + (MaxAttempts - 1) * RetryDelay
  BY <1>1, Z3
<1>5. /\ (MaxAttempts - 1) * t \in Int /\ MaxAttempts * RequestTimeout \in Int
      /\ (MaxAttempts - 1) * RetryDelay \in Int
  BY <1>1
<1>6. 0 * t = 0
  BY <1>1
<1> QED
  BY <1>1, <1>2, <1>3, <1>4, <1>5, <1>6 DEF Repeated, Overshoot

(* Start-up ends near its deadline, whatever the server answers and when:  *)
(* the clock is bounded at every stage, by the attempt under way.          *)
THEOREM StartupIsTimely == Spec => []EndsNearDeadline
<1> USE TimesAssumption
<1>0. /\ RequestTimeout \in Nat /\ RetryDelay \in Nat /\ Pause \in Nat /\ Pause >= 1
      /\ ReadyTimeout \in Nat /\ MaxAttempts \in Nat /\ 1 \in 1..MaxAttempts
      /\ Overshoot \in Nat /\ RequestTimeout + Pause <= Overshoot /\ Repeated(0) = 0
      /\ RequestTimeout >= 1
  <2>1. 1 \in 1..MaxAttempts
    OBVIOUS
  <2>2. Repeated(0) \in Nat /\ Repeated(0) + RequestTimeout + Pause <= Overshoot
          /\ Repeated(0) = 0
    BY <2>1, Repetition
  <2>3. Overshoot \in Nat
    BY SMTT(60) DEF Overshoot
  <2> QED
    BY <2>1, <2>2, <2>3
<1>1. Init => Timing
  BY <1>0 DEF Init, ServerInit, Timing, EndsNearDeadline
<1>2. TypeOK /\ Timing /\ [Next]_vars => Timing'
  <2> SUFFICES ASSUME TypeOK, Timing, [Next]_vars PROVE Timing'
    OBVIOUS
  <2>1. now \in Nat /\ attempt \in 0..MaxAttempts
    BY DEF TypeOK
  <2>2. CASE ServerStep /\ UNCHANGED readyVars
    <3>1. /\ now' = now /\ attempt' = attempt
          /\ at' \in {"open", "poll", "rest", "asking", "symbols"} =>
               at' = at \/ (at = "notify" /\ at' = "open")
          /\ at' \in {"initialize", "notify", "spawn"} =>
               at \in {"initialize", "notify", "spawn"}
      BY <2>2
      DEF readyVars, ServerStep, LaunchStep, Spawn, SpawnFails, Initialized, Rejected, NotifyFails,
          StartFails, HandOver, RequestShutdown, NotifyExit, Kill, Abandon, Drop,
          ProcessExits
    <3> QED
      BY <1>0, <2>1, <3>1 DEF Timing, EndsNearDeadline, Overshoot
  <2>3. CASE ReadyStep
    <3>1. CASE OpenFile \/ OpenFails
      BY <1>0, <2>1, <3>1
      DEF OpenFile, OpenFails, Goto, serverVars, Timing, EndsNearDeadline, BudgetLeft,
          Overshoot
    <3>2. CASE SymbolsFound \/ SymbolsFail
      <4>1. PICK d \in Duration : now' = now + d
        BY <3>2 DEF SymbolsFound, SymbolsFail, Takes
      <4>2. d \in Nat /\ d <= RequestTimeout /\ now < ReadyTimeout /\ at' = "open"
        BY <1>0, <3>2 DEF Duration, SymbolsFound, SymbolsFail, Goto, Timing
      <4>3. now' + Pause < ReadyTimeout + Overshoot /\ now' < ReadyTimeout + Overshoot
        BY <1>0, <2>1, <4>1, <4>2
      <4> QED
        BY <4>2, <4>3 DEF Timing, EndsNearDeadline, Overshoot
    <3>3. CASE Gathered \/ OutOfTime \/ RoundOver
      BY <1>0, <2>1, <3>3
      DEF Gathered, OutOfTime, RoundOver, GiveUp, Goto, readyVars, Timing,
          EndsNearDeadline, Overshoot
    <3>4. CASE Round
      <4>1. now < ReadyTimeout /\ now' = now /\ at' = "poll"
        BY <3>4 DEF Round, BudgetLeft, Goto
      <4>2. now' + Pause < ReadyTimeout + Overshoot /\ now' < ReadyTimeout + Overshoot
        BY <1>0, <2>1, <4>1
      <4> QED
        BY <4>1, <4>2 DEF Timing, EndsNearDeadline, Overshoot
    <3>5. CASE Ask
      <4>1. now < ReadyTimeout /\ now' = now /\ at' = "asking" /\ attempt' = 1
        BY <3>5 DEF Ask, AskAnother, BudgetLeft, Goto
      <4>2. now' < ReadyTimeout + Repeated(attempt' - 1)
              /\ now' < ReadyTimeout + Overshoot
        BY <1>0, <2>1, <4>1
      <4> QED
        BY <4>1, <4>2 DEF Timing, EndsNearDeadline, Overshoot, Repeated
    <3>6. CASE Rest
      BY <1>0, <2>1, <3>6 DEF Rest, Slept, Goto, Timing, EndsNearDeadline, Overshoot
    <3>7. CASE Answered \/ NotThisOne
      <4>1. PICK d \in Duration : now' = now + d
        BY <3>7 DEF Answered, NotThisOne, Takes
      <4>2. /\ d \in Nat /\ d <= RequestTimeout /\ at' \in {"serving", "poll"}
            /\ attempt \in 1..MaxAttempts /\ now < ReadyTimeout + Repeated(attempt - 1)
        BY <1>0, <2>1, <3>7 DEF Duration, Answered, NotThisOne, Goto, Timing
      <4>3. /\ Repeated(attempt - 1) \in Nat
            /\ Repeated(attempt - 1) + RequestTimeout + Pause <= Overshoot
        BY <4>2, Repetition
      <4>4. now' + Pause < ReadyTimeout + Overshoot /\ now' < ReadyTimeout + Overshoot
        BY <1>0, <2>1, <4>1, <4>2, <4>3
      <4> QED
        BY <4>2, <4>4 DEF Timing, EndsNearDeadline, Overshoot
    <3>8. CASE Modified
      <4>1. PICK d \in Duration : now' = now + (d + RetryDelay)
        BY <3>8 DEF Modified, Takes
      <4>2. /\ d \in Nat /\ d <= RequestTimeout /\ at' = "asking" /\ at = "asking"
            /\ attempt \in 1..MaxAttempts /\ attempt < MaxAttempts
            /\ attempt' = attempt + 1 /\ now < ReadyTimeout + Repeated(attempt - 1)
        BY <1>0, <2>1, <3>8 DEF Duration, Modified, MayRetry, serverVars, Timing
      <4>3. /\ attempt + 1 \in 1..MaxAttempts /\ (attempt + 1) - 1 = attempt
            /\ Repeated(attempt - 1) \in Nat
            /\ Repeated(attempt) = Repeated(attempt - 1) + RequestTimeout + RetryDelay
        BY <1>0, <4>2, Repetition
      <4>4. Repeated(attempt) \in Nat
              /\ Repeated(attempt) + RequestTimeout + Pause <= Overshoot
        BY <4>3, Repetition
      <4>5. now' < ReadyTimeout + Repeated(attempt)
        BY <1>0, <2>1, <4>1, <4>2, <4>3
      <4>6. now' < ReadyTimeout + Overshoot /\ now' \in Nat
        BY <1>0, <2>1, <4>1, <4>2, <4>4, <4>5
      <4>7. attempt' >= 1 /\ attempt' - 1 = attempt
        BY <4>2
      <4> QED
        BY <4>2, <4>5, <4>6, <4>7 DEF Timing, EndsNearDeadline, Overshoot, Repeated
    <3> QED
      BY <2>3, <3>1, <3>2, <3>3, <3>4, <3>5, <3>6, <3>7, <3>8 DEF ReadyStep
  <2>4. CASE UNCHANGED vars
    BY <2>4
    DEF vars, serverVars, readyVars, Timing, EndsNearDeadline, Overshoot, Repeated
  <2> QED
    BY <2>2, <2>3, <2>4 DEF Next, Done
<1>3. Timing => EndsNearDeadline
  BY DEF Timing
<1> QED
  BY <1>1, <1>2, <1>3, TypeCorrect, PTL DEF Spec

(* The files sampled are spread over the repository in every behaviour. *)
THEOREM SampleAlwaysSpread == Spec => []SampleIsSpread
<1>1. TypeOK => SampleIsSpread
  BY BoundsAssumption, StrideIsSpread DEF TypeOK, SampleIsSpread, Sample
<1> QED
  BY <1>1, TypeCorrect, PTL
=============================================================================
