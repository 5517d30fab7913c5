# A TLA+ model of lspgraph

lspgraph explores the call hierarchy of a repository through whatever language
server its language has. `lspgraph-core` talks to the server and remembers what
it said; `lspgraph-tui` shows it, one symbol at a time. This directory holds
TLA+ modules for the parts of that program with behaviour worth arguing about,
the TLC configurations that check them on small instances, and TLAPS proofs of
what holds for any instance.

Paths below are relative to `src/crates/`; `core/` stands for
`lspgraph-core/src/` and `tui/` for `lspgraph-tui/src/`.

## 1. The system

```
 user ── keys ──> [main loop + App] ── Request channel ──> [worker + Engine + CallGraph]
                        ^                                          |
                        └────────── Event channel ─────────────────┤
                                                              LanguageServer
                                                                   |
                                              Connection: caller ──┴── stdin ──> server
                                              reader thread <───────── stdout ──  process
```

Three threads of ours and one foreign process: the interface thread (`main`),
the worker thread (it owns the engine and is the only caller of the server), and
the connection's reader thread. The first two share nothing but two FIFO
channels; the last two share the pending map and the writer mutex.

| component | source | state | operations | hard behaviour | what makes it correct |
|---|---|---|---|---|---|
| call graph | `core/graph.rs` | nodes with their state, callers and callees maps | upsert, set_state, record_expansion, remove_file, queries | four pieces of state cleaned by different code | no edge leaves the graph; marked Expanded iff the lists are stored |
| engine | `core/engine.rs` | the graph, an item per interned symbol, a counter | seed, expand, invalidate_file, (shutdown) | memo looked up in one place, filled from another; a failure between two requests; edits | each answer is asked for once and handed out as learnt; without asking, "nobody calls this" is said only of an unresolved symbol |
| connection | `core/transport/mod.rs` | next id, pending map, writer mutex, reader thread | request, notify, read loop | late, repeated, reordered answers; a timeout racing an answer; requests of the server; end of stream; full pipes | an answer reaches its own request; nothing stays registered; every call returns |
| codec | `core/transport/codec.rs` | the bytes not yet decoded | push, next_message | arbitrary chunks, bad headers, huge lengths | decoding does not depend on the chunks |
| language server | `core/server.rs` | the child, the capability | start, open, the LSP calls, shutdown, drop | early returns while a child runs; ContentModified retried up to three times | the child is killed once on every way out |
| readiness | `core/readiness.rs` | a deadline, the candidates | wait_until_ready, even_stride | a deadline over two phases of requests that each have a timeout | ready only after an answer; bounded overshoot; no file sampled twice |
| symbols | `core/symbols.rs` | none | collect_named_callables, parse_workspace_symbols | nesting, names servers make up, malformed entries | exactly the named callables pass |
| cache | `core/cache.rs` | a file | save, load, stale_files | files edited between sessions; not wired to anything yet | a stale file is never served |
| config, errors | `core/config.rs`, `core/error.rs` | none | parsing, matching | none | - |
| start-up | `tui/main.rs` | the configuration chosen, the directories to visit, the sources | resolve_servers_toml, source_files, run up to the session | several places for a file, links and cycles, what fails after a spawn | configuration and terminal are checked before a server is spawned; the walk lists the sources; it ends |
| interface state | `tui/app.rs` | screen, query and matches, focus, panes, pending and failed, breadcrumb, error | on_event, one operation per key | events about something the user has left | the panes say what is known of the focus, and nothing else |
| key bindings | `tui/keys.rs` | none | handle_key | an overlay over either screen | a key acts on what is shown |
| protocol | `tui/protocol.rs` | two channels | - | order, what an event does not say | - |
| worker | `tui/worker.rs` | the engine | one arm per request | an engine that fails, a restart, the end | each request is answered; the engine is shut down |
| main loop | `tui/main.rs` | where it is, the result | draw, drain, poll, the way out | the worker runs between any two steps | the process ends, after the worker, with the right status |
| views | `tui/ui/*.rs` | none | drawing | lists replaced under a selection | what is highlighted is what Enter takes; an empty list is an answer, not one awaited |
| crawl | `lspgraph-core/examples/crawl.rs` | none | a benchmark | - | - |

`PROJECT.json` lists, under `hazards`, each place in this code where something
can go wrong that a test would hardly reach, with the property that watches it
or the reason there is none.

## 2. The modules

| module | models |
|---|---|
| `CallGraph` | the state and operations of `core/graph.rs` |
| `Engine` | `core/engine.rs` on top of `CallGraph`: one action per outcome of each public operation |
| `MemoGraph` | the abstract engine: a table of expansions, without graph, items or server |
| `EngineProofs` | the theorems about `Engine` |
| `MCEngine` | the instance TLC checks |
| `Channels` | the requests, events and channels of `tui/protocol.rs` |
| `App` | `tui/app.rs` and `tui/keys.rs` |
| `Worker` | `tui/worker.rs` |
| `Views` | what `tui/ui/*.rs` draws of the state |
| `Session` | `tui/main.rs` composed with `Views` (on `App`), `Worker` and the channels between them |
| `MCSession` | the instance TLC checks |
| `SessionProofs` | the theorems about `Session` |
| `Transport` | `core/transport/mod.rs` with a free language server at the other end |
| `SequenceLemmas` | what the proofs use of sequences and numbers: queues, parts and concatenations, sequences that list a set once, the least number of a set, functions given step by step |
| `TransportProofs` | the theorems about `Transport` |
| `Codec` | the framing of `core/transport/codec.rs` |
| `ReadLoop` | the read loop of `core/transport/mod.rs` on `Codec`, from chunks of bytes to messages |
| `ReadLoopProofs` | the theorems about `Codec` and, by them, about `ReadLoop` |
| `Symbols` | the filter of `core/symbols.rs` |
| `Inbound` | `ReadLoop` with what `core/server.rs` makes of each answer, on `Symbols` |
| `InboundProofs` | the theorems about `Inbound` and `Symbols`, by those about `ReadLoop` |
| `MCInbound` | the streams TLC checks |
| `LanguageServer` | the child process of `core/server.rs`: start, shutdown, drop |
| `Stride` | `even_stride` of `core/readiness.rs`, as a function |
| `Readiness` | `wait_until_ready` of `core/readiness.rs` composed with `LanguageServer` and `Stride` |
| `ReadinessProofs` | the theorems about `Readiness` and `Stride` |
| `Startup` | `run` of `tui/main.rs` up to the session, composed with `Readiness` |
| `MCStartup` | the disks and set-ups TLC checks |
| `StartupProofs` | the theorems about `Startup`, by those about `Readiness` |

### Engine

One action is one public operation: `Engine` takes `&mut self`, so nothing comes
between the requests of one operation. What the server says is chosen in the
action.

| model | code |
|---|---|
| `state[n]`, with `"Absent"` | `nodes`, `Node::state` |
| `callers`, `callees`, with `NoEntry` | the two edge maps; `NoEntry` is a missing key |
| `items` | keys of `Engine::items` |
| `expansions` | `expansions_performed` |
| `reply` | what the last call returned |
| `SeedNotAFile`, `SeedResolved`, `SeedUnresolved`, `SeedFails` | `seed`: uri not a path; an item (perhaps at another position than the candidate's); no item, or ContentModified past the retries; any other error |
| `ExpandRemembered`, `ExpandBlank`, `ExpandAsks`, `ExpandFails` | `expand`: already Expanded; no item; both requests answered; either failed |
| `InvalidateFile` | `invalidate_file`, `remove_file` |

Left out: a node's kind and detail, the order and repetition inside one list,
serialization. `remove_file` removes the entries of the nodes it finds in the
graph, and strips the file's identities from the other lists; `Doomed` and
`InFile` keep that difference.

### Session

| model | code |
|---|---|
| `reqs`, `events` | the two mpsc channels (unbounded; a send nobody will receive is dropped) |
| `worker`, `engine`, `known` | the worker's place, its engine, what the engine can answer without asking |
| `screen` ... `pane` | the fields of `App` of the same names |
| `main`, `res`, `status` | place in `run`, its result, the exit status |
| `matchesFor`, `fatalSeen`, an event's `query` | ghosts: nothing reads them but properties |
| `Draw`, `DrainOne`, `DrainedAll`, `PollKey`, `PollTimeout`, `TerminalFails` | one round of the loop |
| `Leave`, `Exit` | Shutdown sent, the worker joined, the exit status |
| `On...` | one arm of `on_event` |
| `DismissError` ... `SelectNeighbour` | one arm of `handle_key` with the `App` operation it calls and the request it sends |
| `Announce`, `Serve...`, `CloseEngine` | start-up, one arm of the worker loop, the end of its thread |

A query is its length, a `SymbolMatch` is the symbol it seeds to, texts are left
out. `Views` derives from the state what is drawn: `Shown` is the breadcrumb, the
panes (each a spinner, a failure, a hint or a list with at most one highlighted
entry), the symbol they are about and the error box. The properties about what
the user sees are stated over `Shown`. Of the mark of an unresolved symbol, which
depends on the engine, `Marked` of `Engine` says when it is drawn.

Serving a request and sending its answer are one step, because the
interface sees nothing in between. Once a symbol is `known` its expansion cannot
fail: it is remembered (that is `ImplementsMemo` of the engine). The worker's
receive error has no action, since `main` sends Shutdown before it drops its
sender. A panic is not modelled.

### Transport

| model | code |
|---|---|
| `nextId`, `pending`, `rx` | the counter, the map's keys, the one-shot channel of the request under way |
| `call`, `caller` | the operation under way and its next step: lock, write, wait, unregister once the wait has expired |
| `writer` | who holds the `Mutex` around the server's stdin |
| `reader`, `replyTo` | the reader thread; which request of the server it is answering |
| `stdin`, `stdout` | the pipes, bounded, in whole messages |
| `alive`, `owed`, `emitting`, `asks`, `acked` | the server process (external) |
| `leaked`, the `no` of a message | ghosts |

There is one caller: `Connection` holds a `Receiver` and so is not `Sync`. The
server is not under `src`. It may answer the requests it has read in any order
or not at all, ask its own, send notifications and bodies that do not parse,
break the framing, or exit. `Duplex` says whether it reads its input while a
write of its own is blocked; `core/transport/mod.rs` can rely on neither.
Whether a response is a result or an error does not matter to the connection.

`recv_timeout` giving up (`CallerExpires`) and the removal from the map
(`CallerTimesOut`) are two steps: an answer that comes between them is sent to a
channel nobody reads any more, and the call has timed out all the same. A frame
that breaks the rules ends the reader thread in one of two ways: an error, after
which the map is cleared (`ReadEnds`, `ClearPending`), or the overflow of the
length, a panic after which it is not (`ReadPanics`).

### Readiness

From the spawn of the server to the end of the process that owns it, one thread.
`at` is where that thread is, in `LanguageServer::start`, `wait_until_ready`, the
session, `shutdown` or `drop`.

| model | code |
|---|---|
| `proc`, `kills` | the child process; how often it was killed (ghost) |
| `holder` | which `Option<Child>` is full: the guard's, the server's, neither |
| `err` | the error `run` returns |
| `Spawn`, `SpawnFails`, `Initialized`, `Rejected`, `HandOver`, `NotifyFails` | `start`, one action per way a step of it ends |
| `RequestShutdown`, `NotifyExit`, `Kill`; `Abandon`; `Drop` | `shutdown`; an owner that only drops the server; `Drop` |
| `now` | ticks since `wait_until_ready` began |
| `next`, `attempted`, `failedFiles`, `candidates` | the two counters, the file of the loop, the length of the vector |
| `cursor`, `attempt` | the candidate of the round; the attempt of `request_retrying_content_modified` |
| `OpenFile`, `OpenFails`, `SymbolsFound`, `SymbolsFail`, `Gathered` | the first phase |
| `Round`, `OutOfTime`, `Ask`, `RoundOver`, `Rest` | the second |
| `Answered`, `NotThisOne`, `Modified` | what comes of an attempt: an item; none or an error; ContentModified with attempts left |

A request takes any time up to `RequestTimeout`; how it ends within it is the
connection's affair. A file is its number, a candidate is one of a count. The
server may exit at any step (`ProcessExits`, external), after which nothing is
answered but everything can still fail.

### ReadLoop and Inbound

| model | code |
|---|---|
| `frames`, `unread` | what the server writes (chosen at the start), what of it is still in the pipe |
| `buf` | `Decoder::buf` |
| `reader` | the read loop, or why it stopped |
| `told` | what each answer makes its call return |
| `Receive` | `reader.read` and `push`: any number of bytes |
| `Deliver`, `OnMessage`, `Told` | a message decoded, parsed, handed over; one that does not parse is skipped |
| `Break`, `Eof` | a framing error, or the overflow of the length; the end of the pipe |
| `Decode` | `next_message`, as a function of the buffer |
| `Answer`, a constant of `ReadLoop` that is `AnswerOf` in `Inbound` | `request`'s own reading of an answer, then the one of the LSP call: `DocumentSymbols`, `WorkspaceSymbols`, `Prepare`, `IncomingCalls`, `OutgoingCalls` |

Bytes come in units: CR, LF, the text of a header line, half of a JSON object, a
byte that is not UTF-8. A header's end is looked for in CR and LF, which are
units of their own, so a read may split it anywhere. The body of an answer stands
for an opening and a closing half, which parse when they are of the same answer
with nothing between but line ends. A name is a sequence of character classes.
Which request an answer belongs to is left to `Transport`.

| model | code |
|---|---|
| `Declarations`, `Lists`, `Nested` | an outline: the lists of its symbols' children, level by level |
| `Collect`, `Own` | `collect_named_callables`: what is pushed for a symbol, then for its children |
| `Match`, `ParseWorkspaceSymbols` | the closure of `filter_map`, and the call |
| `Unwrap`, `UnwrapCalls` | one entry of `unwrap_calls`, and the call |
| `Readable`, `AllReadable` | whether `serde_json` can make the typed value of an entry, of all |
| `MaxNesting` | how deep lists of symbols are nested: `serde_json` gives up on a body of more than 128 levels; three in the run |

No operator here is recursive: `Collect` is a function over the lists an outline
contains, defined by its value on the lists one level deeper, and `Lists` are the
levels up to `MaxNesting`.

### Startup

| model | code |
|---|---|
| `disk`, `setup` | the repository; the override, what each place holds, whether there is a terminal (chosen at the start, external) |
| `FindConfig`, `Resolve` | `find_servers_toml`, `resolve_servers_toml` |
| `ReadConfig` | read, `from_toml`, the language looked up |
| `stack`, `files` | the same variables of `source_files` |
| `VisitDir` | one round of its loop, over the entries in any order |
| `Listing` | the sort, and the terminal check |
| `MayStart` | from here `Readiness` runs, `repo` being the number of sources |

Symbolic links are followed as `is_dir` does, up to `MaxLinks` in one path, where
the system refuses it; a link that is not a directory any more is listed if its
name has the extension.

## 3. What is checked

Bounds are constants, and each is a guard of the one action it limits
(`MaxExpansions`: `ExpandAsks`; `MaxQuery`: `EditQuery`; `MaxInFlight`: the keys
that send; `MaxHistory`: `Recentre`; `MaxCalls`: `StartRequest`, `StartNotify`;
`MaxAsks`: `ServerEmits`). In `Readiness` the initial states are bounded instead
(`MaxRepo`), and what one answer may hold (`MaxSymbols`); its clock is bounded by
the code. In `Startup` and `Inbound` the initial states are the instance: the
disks and set-ups, the streams; `MaxDepth` and `MaxNesting` are not guards but say
how deep these go, and TLC evaluates that they do.

| run | instance | shows |
|---|---|---|
| `engine` | four symbols, three uris (one of them no file), three expansions, more than one possible answer for two symbols | below |
| `session` | two symbols that call each other, one of them recursive; result lists of 0, 1 and 2; one letter; two messages under way before a key may ask for more; a breadcrumb of two | below |
| `session_live` | one result list, a breadcrumb of one | below |
| `transport` | three calls, two requests of the server, a stdin of two messages and a stdout of one, a duplex server | below |
| `inbound` | one answer of every kind with names of up to five characters (seven after a pointer receiver) and malformed entries; three frames, the middle or first one with each of a dozen or so headers and five bodies | below |
| `startup` | six disks (flat ones of zero to seven sources, nested with skipped and unreadable directories, links with a cycle), every set-up of three places; a cap of three; up to two callables found in a file, one kept; a deadline of four ticks, requests of up to two, three attempts, one tick between them and between rounds | below |

**engine.** `GraphClosed`: every stored edge ends at a node. `ExpandedIffRecorded`:
the mark and both lists come and go together. `BlankMeansUnresolved`: the empty
answer `expand` gives without asking is given only for a symbol that did not
resolve or is not in the graph. `KnowledgeGrows`: only an edit takes a symbol
back. `ImplementsMemo`: every step is a step of `MemoGraph`, where an answer is
learnt once, recalled as it was learnt less the symbols of files edited since,
and counted. Four symbols suffice for a caller and a callee in the edited file
and in another, and a symbol nobody names; three expansions for asking again
after an edit.

**session.** `SpinnerIsBacked`: an awaited answer is queued, being produced or on
its way, or the worker has left its loop. `PanesAreHonest`: the panes are
loading, marked failed, or hold what the server says of the focus; a late answer
never shows under another symbol. `EnterTakesHighlighted`: a list with entries
under the cursor highlights one, Enter takes that one and nothing else, and
nothing behind an error box. `NoOrphanedEngine`: the process does
not end before the engine is shut down, whatever is queued and also when the
terminal failed. Two messages under way is the least at which an answer can be
overtaken by the user, and at which two requests can concern one node; the
drain and the worker are not limited by it.

**session_live.** `SpinnerEnds` and `QuitEnds`. Fairness: `WF(Loop)`, because
`poll` waits at most 50 ms and the loop then goes on with or without a key; no
fairness on keys (`PollKey`) or on the terminal failing; `WF(WorkerStep)`,
because every engine call ends when `REQUEST_TIMEOUT` does at the latest.
That last point is what the connection must provide, and `transport_blocked`
shows under which server it does not.

**transport.** `AnswerIsOwn`: no request gets another's answer, late or reordered
ones included. `OnlyLivePending`: only the request under way, and requests whose
write failed, are registered. `NoLostAnswer`: a request that is no longer
registered has its answer or its hang-up. `RepliesInOrder`: what the reader
has written to the server and the server has not read yet are the answers to its
requests in turn, each once and under its own id, up to the last one written.
`CallReturns`: no call lasts for ever, whether it is answered, times out, is hung
up, or waits for a reader that panicked and cleared nothing. Three calls are enough for an answer to come two calls too
late, two requests of the server for a reply to be confused with another.
Fairness: the threads run (`WF`), a timeout expires (it is a `CallerStep`), a
blocked write of the server completes when there is room (`WF`), and the server
keeps coming back to its input (`SF`, since between two reads it may be busy
writing). It is not obliged to answer anything. `CHECK_DEADLOCK FALSE`: with its
calls used up and the server gone the system stops.

**inbound.** `TypeOK`: what is in the buffer and the pipe is the end of what the
server wrote. `ChunksDoNotMatter`: however the bytes are split, the loop is where
reading the stream at once is after some number of messages: the same calls were
told the same, the same bytes are left, and it stops on the same error, for
broken frames too. `ProperFramesArrive`: every proper frame received
whole is answered, once and in order, whatever its body. `OnlyBrokenFramesStop`:
the reader gives up, or panics on the length, only behind a frame that breaks the
rules. `ToldWhatIsListed`: outlines and searches are told as exactly the named
callables in them, against a scanner of names written as an automaton, and
callers as callers. `FailedOrRead`: an error of the server, and an item of
`prepareCallHierarchy` that cannot be read, are told as failures, and nothing else
is; of an answer about callers or callees exactly the entries that can be read are
told. A malformed answer there is no failure: it is told as a shorter or an empty
list, which the engine records (see below). Five characters contain every
two-piece name and each way to miss one; three frames a frame before and one after
a broken one.

**startup.** `CheckedBeforeSpawn`: when a server is spawned, the most specific
`servers.toml` has been read, defines the language, and there is a terminal. That
there is a source is not checked: without any, as on one of the disks, a server is
spawned and start-up then fails whatever it does.
`WalkIsExact`: the sources are those reachable without entering a skipped
directory, under each path, sorted, whatever order directories are read in.
`ServerIsOwned`: a process not yet reaped always has an owner that
will kill it, on every early return of `start`, after a readiness that failed,
and when it ended by itself. `KilledOnce`: `shutdown` followed by `Drop` kills
once. `SampleIsSpread`: the files sampled are distinct and every stretch of the
repository is represented. `EndsNearDeadline`: start-up ends less than three
request timeouts, two delays and one pause after its deadline. `StartupEnds`:
from its first step on, start-up comes to an end: the walk does in a cycle of
links, the start of the server does, and the wait for it does when every candidate
fails in no time. Seven files at a cap of three pass through every ratio from
below one to above two; a deadline of two request timeouts lets it pass in either
phase. Fairness: `WF(ReadyStep)`, because a request ends when its timeout does and
a sleep ends; `WF` of the steps before the server, because they are the thread's
own; and `WF(LaunchStep)`, because spawning a process returns, and `initialize` is
a request. Nothing is assumed of the server, except that it takes what is written
to it: a blocked write has no timeout (`transport_blocked`). `Done` is the end of
the program.

### Where the code and what is said of it differ

Each of these runs checks one sentence of a comment or design document, and TLC
gives the behaviour that contradicts it.

| run | property | what happens |
|---|---|---|
| `engine_mark` | `MarkMeansUnresolved` | A symbol that failed to resolve, for good or for the moment, is recorded as such. When it does resolve later, by another seed or as a neighbour, `upsert` keeps the old state: it has an item, can be expanded, and is drawn with the mark "for a symbol the language server could not resolve". |
| `session_stale_results` | `ResultsMatchQuery` | `Matches` does not say which query it answers: the answer to a query since edited is shown under the new text. |
| `session_breadcrumb` | `BreadcrumbIsPath` | A second search seeds another symbol over a graph with a history: the breadcrumb shows it at the end of a path that never led there. |
| `session_current_answer` | `CurrentAnswerAwaited` | Two expansions of one node are under way. The failure of the first clears `pending`; the answer to the second is discarded and the panes stay marked failed. |
| `session_fatal` | `FatalIsReported` | A Fatal is drained, one key is polled before the loop ends, and Esc dismisses the error there: the session ends with status 0 and no message. |
| `transport_blocked` | `CallReturns` | A server that does not read while it writes: its stdout is full, so it does not read stdin; stdin is full, so the caller holds the writer mutex in `write_all`; the reader needs that mutex to answer and so does not empty stdout. No timeout covers a write. |

More differences are in the models without a run of their own.

- **A malformed answer about callers or callees** is told as what can be read of
  it, possibly nothing (`unwrap_calls`, `core/server.rs:282-290`), and the engine
  records that as an answer. The interface design
  (`src/docs/superpowers/specs/2026-09-16-lspgraph-tui-design.md:169-172`) says that an empty list means "this
  symbol genuinely has no callers". `FailedOrRead` states what the code does.
- **A request made after the reader thread ended** is registered in a map nobody
  clears again: it waits out its timeout, where `core/transport/mod.rs:107-112`
  speaks of an immediate error. So does every request when the thread panicked
  (`ReadPanics`), since what clears the map comes after `read_loop` returns.
- **A candidate asked just before the deadline** may be asked `MaxAttempts` times,
  each with a full timeout, where `core/readiness.rs:131-133` speaks of one request
  past the deadline; `EndsNearDeadline` has the bound that holds.
- **A name** is called "a valid identifier" at `core/symbols.rs:16-18`; the code,
  the comment in it and its tests accept identifiers joined by dots and after a
  receiver, and so does `Scan`.

Every property of a passing run has a mutant: an operator in the module, marked
"Mutant" in its comment, that changes one mapped definition the way a slip in
that code would (a list not cleaned, a guard dropped, an id reused). With it in
place TLC finds the property violated.

## 4. What is proved

### Engine

`EngineProofs` holds for any `NodeId`, `Uri`, `UriOf`, any answers and any
`MaxExpansions`:

| theorem | establishes |
|---|---|
| `TypeCorrect` | `Spec => []TypeOK`, inductive by itself |
| `GraphStaysClosed` | `Spec => []GraphClosed` |
| `ExpandedIsRecorded` | `Spec => []ExpandedIffRecorded` |
| `BlanksAreUnresolved` | `Spec => []BlankMeansUnresolved` |
| `KnowledgeOnlyGrows` | the action property `KnowledgeGrows` |
| `Refinement` | `Spec => ImplementsMemo`: initial states and every step map to `MemoGraph` |

Assumptions: `UriOf` is a function from `NodeId` to `Uri`; `FileUri` is part of
`Uri`; the answers are sets of expansions over `NodeId`; `NoEntry` is neither a
set of symbols nor an expansion, `NoNode` not a symbol; `MaxExpansions` is a
natural number. TLC evaluates all of them in the `engine` run.

The argument. `BlankMeansUnresolved` is not inductive: to know that a symbol
without an item is unresolved, one must know that every interned symbol keeps
its item as long as its node (`ItemlessUnresolved`), which the edit preserves
because nodes and items are dropped by the same uri. `GraphClosed` is not
inductive either: a removal takes nodes away, and the lists that name them are
cleaned only under keys that have a list, so the proof needs
`ExpandedIffRecorded` to know that an absent node has none; and recording an
expansion marks a node only if it is there, which is `ItemsPresent`. The
inductive invariant is

    Inv == TypeOK /\ ItemsPresent /\ ItemlessUnresolved /\ ExpandedIffRecorded
             /\ GraphClosed /\ BlankMeansUnresolved

with one step of the proof per action. The two lemmas `AskedState` and `Removed`
say what asking and editing do to each variable, and every later proof, the
refinement included, is by them.

### Readiness

`ReadinessProofs` holds for any size of repository, caps, timeouts, delays and
number of attempts:

| theorem | establishes |
|---|---|
| `ServerNotLeaked` | `ServerIsOwned` and `KilledOnce` always hold |
| `TypeCorrect` | `Spec => []TypeOK` |
| `StartupIsTimely` | `Spec => []EndsNearDeadline` |
| `StrideIsSpread` | `IsSpread(EvenStride(len, max), len, max)` for any `len` and `max` |
| `SampleAlwaysSpread` | `SampleIsSpread` always holds |

Assumptions: the bounds are natural numbers (`BoundsAssumption`); so are the
deadline and the delay, while a request timeout, the number of attempts and the
pause are positive (`TimesAssumption`). TLC evaluates both in the `startup` run.

The argument. Who owns the child follows from where the thread is, and only from
that: `Ownership` says it for each place, and is inductive by itself. That the
counts stay in their ranges needs how they relate to the file the loop is at
(`Counted`): without it nothing says that a third file cannot fail twice. The
bound on the clock is not inductive, since a request may start a tick before any
bound there is; `Timing` makes it depend on the place and on the attempt under
way: at attempt `k` the clock is less than the deadline plus `k - 1` requests and
delays. That is inductive with `TypeOK` and `Counted`. `StrideIsSpread` rests on
the two bounds of a quotient (`PickBounds`): consecutive picks differ by at least
one because `len > max`, and by less than `len / max + 1`.

### Startup

`StartupProofs` holds for any set-ups and, as said below, any disks as well:

| theorem | establishes |
|---|---|
| `StartupImplementsReadiness` | `StartSpec => Spec`: every step is a step of `Readiness` or leaves its variables alone |
| `StartupIsSafe` | the invariants of `ReadinessProofs` always hold of the whole start-up |
| `SpawnIsChecked` | `CheckedBeforeSpawn` always holds |
| `WalkLists` | `StartSpec => []WalkIsExact` |

The first three need no assumption beyond those of `Readiness`. `SpawnIsChecked`
is inductive once it is known, for each stage, what of the configuration has been
decided (`Chosen`, `Resolved`), and that there is no process before the last of
them.

`WalkLists` assumes of a disk what a file system gives (`DisksAssumption`): a
directory has finitely many entries, each with a name of its own. And that paths
end (`DepthAssumption`): links may form cycles, but the system follows only so
many in one path, so there is a depth with no directories at it. TLC evaluates
both on the disks of the `startup` run.

The argument. A directory on the stack stands for every directory that will be
reached through it (`Ahead`): those whose path continues its own. What is not ahead
is behind, and at every step the stack lists its directories, the files list
what is in the directories behind, neither twice, and no directory of the stack is
under another (`Walking`). Taking one off the stack and putting those inside it on
moves exactly that one from ahead to behind (`VisitingOne`). This needs that a path
leads to one directory (`PathsDiffer`) and to one file (`FilesDiffer`), which is
where unique names come in, and that what is reached below a directory is reached
through one inside it (`BelowIsInside`). That counting the elements before each one
sorts a list without repetition (`SortedIs`) rests on `Before` being a strict total
order (`BeforeTransitive`, `BeforeIrreflexive`, `BeforeTotal`). With the stack empty
nothing is ahead (`WalkEnds`). That the walk gets there is part of `StartupEnds`,
which begins with the first step of `run` and which TLC checks.

### Session

`SessionProofs` holds for any symbols and neighbours (a symbol may call itself),
any set of lists a search may return, and any bounds:

| theorem | establishes |
|---|---|
| `TypeCorrect` | `Spec => []TypeOK` |
| `SpinnersAreBacked` | `Spec => []SpinnerIsBacked` |
| `PanesHonest` | `Spec => []PanesAreHonest` |
| `EnterIsHighlighted` | `Spec => []EnterTakesHighlighted` |
| `EngineClosesFirst` | `Spec => []NoOrphanedEngine` |

Assumptions: `NoNode` is not a symbol; `Neighbours` gives each symbol two
sequences of symbols; the lists of `Results` are sequences of symbols; the bounds
are natural numbers. TLC evaluates them in the `session` run.

The argument. The inductive invariant is

    Inv == TypeOK /\ SelectionsOnEntry /\ PanesFollowFocus /\ SearchAllowed
             /\ SpinnerIsBacked /\ EngineFirst

The two properties about the screen are stated over what `Views` draws, and
neither is inductive: what is drawn depends on the list, the cursor in it, and
the screen, and a key that changes one of them relies on what holds of the others
while they are not drawn. `SelectionsOnEntry` and `PanesFollowFocus` are about
the state behind the drawing, on either screen, whether it is drawn or not;
`HonestGraph` and `EnterHighlighted` get the properties from them.
`PanesFollowFocus` says that what is pending or failed is the focus: that is why
an answer for anything else may be dropped, and why `SpinnerIsBacked` survives a
change of focus. `SearchAllowed` is about both channels: that no match is listed
for a server that cannot search needs that none was asked for, and that `Ready`,
which says it cannot, comes first and once. The proof follows the conjuncts, one
lemma each (`TypeStep` to `EngineStep`), and in each the actions that can disturb
it; how long a queue is matters to none of them.

### Transport

`TransportProofs` holds for any number of calls and of requests of the server, any
capacity of the pipes, and a server that does or does not read while it writes:

| theorem | establishes |
|---|---|
| `TypeCorrect` | `Spec => []TypeOK` |
| `AnswersAreOwn` | `Spec => []AnswerIsOwn` |
| `PendingIsLive` | `Spec => []OnlyLivePending` |
| `NoAnswerLost` | `Spec => []NoLostAnswer` |
| `ServerIsAnswered` | `Spec => []RepliesInOrder` |

Assumptions: the bounds are natural numbers, a pipe holds at least one message.
TLC evaluates them in the `transport` run.

The argument. `AnswerIsOwn` is about the moment a call returns, and what makes it
true is somewhere else: in the five places where a message about a request can be,
the server's input, what it has read, the message it is writing, its output, and
the channel of the call. `OwnEverywhere` says of each that a message with the id
of the request under way carries that request's number, and that no message has
an id not yet given out, without which the next request could find an answer
waiting for it. `Registered` ties the pending map to the channel: the request
under way is in the map exactly while its channel is empty; `NoAnswerLost` is a
consequence. For the other direction, `AsksInOrder` says that what the reader has
still to read of the server's requests continues what it has taken, so that
`RepliesInOrder` can say the same of the replies (`InOrder` of two queues, with
one lemma for appending and one for taking the head). `MutexHeld`, `CallKnown` and
`ExitedIsSilent` relate places in the threads to the rest.

### Codec and ReadLoop

`ReadLoopProofs` holds for any set of streams, any `Answer` and any
`MaxUsize`; in the first two theorems, for sequences of anything:

| theorem | establishes |
|---|---|
| `DecisionStands` | once `Decode(s)` is a message, an error or the panic, so is `Decode(s \o t)`, with the same body, and what it leaves is followed by `t` |
| `EncodedDecodes` | `Decode` gives back the body of an encoded frame, alone or after another header line, whatever the body is and whatever follows |
| `Invariance`, `TypeCorrect` | the inductive invariant, and `Spec => []TypeOK` |
| `ChunksAreHarmless` | `Spec => []ChunksDoNotMatter` |
| `FramesArrive` | `Spec => []ProperFramesArrive` |
| `OnlyBrokenStop` | `Spec => []OnlyBrokenFramesStop` |

Assumptions: `MaxUsize` is a natural number, and a stream is a sequence of frames,
each a header and a body of any units. TLC evaluates them in the `inbound` run,
where `Inbound` extends `ReadLoop` with an `Answer` of its own.

The argument. The invariant is about `buf \o unread`, what is left of the stream
wherever it is: receiving does not change it, and by `DecisionStands` what the
decoder takes from the buffer is what it would take from all that is left. So the
loop is where the one on the whole stream is after as many messages
(`AtOnceSoFar`); that this is one of finitely many is because each message takes a
byte at least. `FrameByFrame` relates the same to the frames that were written:
the first `k` are proper and were taken exactly, or the one after them is not
proper. A proper frame is decoded exactly by `EncodedDecodes`, whose hardest part
is that the first blank line of it is the one that ends its header, although the
body may contain any number. It is not implied by `AtOnceSoFar`, which says
nothing of where frames begin, and does not imply it, since it says nothing of
what follows a broken frame.

Two inductions are needed: that the first place of a pattern exists, and that
`AtOnce` and the concatenation of frames are defined for every number of steps.
The library has theorems for both, but with an operator as parameter; here the
least element comes from well-foundedness of `<` on the natural numbers
(`LeastNat`, by `WFMin`) and the recursion is constructed from it (`Recursion`).

### Inbound and Symbols

`InboundProofs` holds for any streams, any width of a line and any depth of nesting:

| theorem | establishes |
|---|---|
| `AnswersInTurn` | `Spec => []ToldInTurn`: the i-th call told is told the `Answer` to the i-th message of the frames before the first improper one |
| `FailureIsToldAsOne` | `Spec => []FailedOrRead` |
| `NamesAreScanned` | for a name of any length over any characters, `IsNamedCallable` holds if and only if the kind is a function or a method and `Scan` ends in a name |
| `ListsAreTold` | `Spec => []ToldWhatIsListed` |

Assumptions, beyond those of `ReadLoop`: `Width` is positive, `MaxNesting` a
natural number, and an answer is one to the five calls, has its symbols in lists,
under names, nested no deeper than `MaxNesting`, and is read by `AnswerOf`
(`AnswersAssumption`). TLC evaluates them in the `inbound` run. Nothing is assumed
of an answer that is deeper: it is a body that does not parse.

The argument. `ToldInTurn` follows from the invariant of `ReadLoop`: the messages
of the first `k` frames begin the messages of all (`MessagesOfFirst`). After that
the other three theorems are about one answer at a time.

`NamesAreScanned` relates two definitions that have nothing in common: the code cuts
a name at its first `)` and at every dot and looks at each piece, the automaton
never looks back. The state after a dotted part is `name` exactly if all pieces so
far are identifiers (`AllPlainIsDotted`, by the place of the last dot); between the
parentheses the automaton is where `is_plain_identifier` would be of what it has
read (`ReceiverRuns`), and where there is no `)` it never gets further
(`NeverClosed`).

`ListsAreTold` has one lemma for each kind of list. For a search it is that
`undecorate` takes off what `IsSuffix` sees (`UndecoratedIs`) and that a line that fits
is not truncated (`LineFits`). For an outline, `Collect` exists as a function because
going one level deeper stops after `MaxNesting` levels (`CollectIs`: its iterates
are stable on the lists of depth `MaxNesting - n` from the n-th on), and
`GathersFromWithin` takes three facts from the lists within to the list: what is
collected is a sequence, it holds the named declarations and no others, and its
lines ascend if the outline is ordered. Order in a concatenation needs that every
line of one part is below every line of the next (`FlattenedRises`), which is why
`Ordered` speaks of everything within two siblings and not of the siblings alone.
`FailureIsToldAsOne` goes through the five calls (`FailureIsTold`); that of callers
and callees exactly the legible entries are told (`CallsAreLegible`) is the same
flattening of at most one element each as in a search (`FilteredMap`).

### What is only model-checked

- **Liveness**: `CallReturns`, `SpinnerEnds`, `QuitEnds`, `StartupEnds`. Temporal
  properties under fairness, and `ENABLED`, are out of reach of the provers used
  here.
- **That the walk over the sources ends**: `WalkLists` says what it lists when it
  is done; that it gets there is part of `StartupEnds`, whose antecedent is the
  beginning of start-up.
- **What `EncodedDecodes` says of headers** covers the frames this code writes and
  those with one more header line, which is what `Proper` calls proper. What the
  decoder makes of every other header is checked on the dozen of `MCInbound`.
- The runs that expect a violation: a theorem cannot show one.

## 5. What is not modelled

- **cache.** `save`, `load` and `stale_files` have no caller
  (`core/cache.rs:5-12`). When a cache would be saved, what fills its hashes and
  what is done about stale files is undecided; a model would have to invent it.
- **errors, crawl, config beyond start-up.** An enumeration and its texts; a
  sequential benchmark; splitting a command line and looking up an extension,
  which nothing but the benchmark uses.
- **Layout and wording** of the views: `Views` has no height or width, so what
  lies outside a small terminal is not visible to it.
- **Panics.** None reachable was found in the modelled handlers
  (`EnterTakesHighlighted` covers the indexing of `tui/app.rs`). The overflow at
  `core/transport/codec.rs:77` is one in the reader thread, and is modelled: what
  bytes lead to it in `ReadLoop`, what it leaves behind in `Transport`.
- **Notifications.** The reader forwards them to an unbounded channel that no
  caller outside the tests receives from; it grows with the session and
  influences nothing.
- **Dropping a `Connection`**, and what an error body says beyond being
  ContentModified or not.
- **The signatures** of symbols (kind and detail), which `upsert` overwrites.
- **The text of errors**: `NotReady` says how many candidates were "tried" also
  when gathering used up the deadline and none was.

## 6. Plan

In this order; all but the last are in place.

1. `CallGraph`, `Engine`, `MemoGraph`, `EngineProofs`: what the program knows.
2. `Channels`, `App`, `Views`, `Worker`, `Session`: what the user is shown.
3. `Transport`: how the two sides of a connection wait for each other.
4. `LanguageServer`, `Readiness`: from the spawn of a server to its end, one
   deadline over two phases.
5. `Stride`, `ReadinessProofs`: the sample, the owner of the process and the
   clock, for any constants.
6. `Codec`, `Symbols`, `ReadLoop`, `Inbound`: from bytes to what a call returns.
7. `Startup`, `StartupProofs`: from the command line to a spawned server, and what
   the walk lists.
8. `SequenceLemmas`, `TransportProofs`, `SessionProofs`: the connection and the
   session for any number of calls, messages, symbols and lists.
9. `ReadLoopProofs`: the decoder and its loop for any stream.
10. `InboundProofs`: the filter of names and the lists, for any names and outlines.
11. `Cache`, once something calls it.
