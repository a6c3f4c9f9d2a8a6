# Formal models of the CSharpDbgContainer admin

The repository builds a container image whose entry point, a Go program called the *admin*
below, starts a .NET target process and supervises it: it streams its logs, restarts it after
a crash, and offers stacks, CPU traces, core dumps, gdb sessions and code coverage over HTTP.
This directory holds TLA+ models of the admin, the TLC configurations that check them and the
theorems that TLAPS proves about eight of them.

`PROJECT.json` lists the components, the runs, the mutants that each property is known to
catch, the source lines of every definition, the findings, the hazards and the theorems.

Commands, in this directory:

    tlc -workers 2 -config Supervisor.cfg Supervisor.tla      # any run
    tlapm Supervisor_proofs.tla                               # any module with proofs

## 1. Inventory

All paths are under `src/internal/debugadmin/` unless they start with `src/`.

| Component | State | Operations | Interacts with | What is hard |
|---|---|---|---|---|
| Run, the supervisor (`run.go`) | options, the current target, `serverErrCh`, the vector process | start vector, target and server; restart; shut down | all others; `Done()` of the target, `SetTarget` of the handlers | restart against server failure against the end of the target; a `Done()` that is received twice; stopping vector with a time limit |
| Target process (`target_process.go`) | two pipes, recent lines, `lineWriterMu`, `lineWriteDead`, `done` | `consumeOutput` twice, `waitForExit` | broker, vector, history, `Run` | three goroutines, a vector that stalls, descendants that hold pipes, `cmd.Wait` closing pipes that are still read |
| Log broker (`log_broker.go`) | the map of channels, `nextID`, an RWMutex | `Subscribe`, cancel, `Broadcast` | `/log` handlers, everyone who logs | send on a closed channel, slow readers, leaks |
| Run history (`run_history.go`) | the list of run records | `Add`, `Snapshot`, `classifyExit`, `detectCoreDump` | `waitForExit`, the page of the history | order and completeness across restarts |
| gdb startup (`gdb_command.go`) | the log's name, the script file | write, use and remove the script | `StartTarget`, `waitForExit`, the history page | names with a resolution of one second; a script that outlives its run |
| Cobertura merge (`cobertura_merge.go`) | a parsed document | merge generated classes into their parents, recompute rates, find the sources of missing files | code coverage, the PDB source cache | loss or duplication of coverage; the order of classes and packages; the best of several sources |
| PDB source cache (`cobertura_merge.go`, `src/internal/pdb/embedded_source.go`) | directories and markers on the disk | `buildCSFileIndexFromPDBs`, `Extract` | code coverage, the PDB reader | failures and crashes between the writes |
| Code coverage (`code_coverage.go`) | `coverageRunMu`, the history of twenty, files in /tmp | collect, list, serve, reset | dotnet-coverage, reportgenerator, the two above | a pipeline of which each step may fail, hang or be cut off |
| Stacks and threads (`http_server.go`, `stack_command.go`) | per request: channels, timers, buffers | `handleStack`, `collectStackOutput`, `readPipeChunks`, `parseStackBlocks`, `handleShowThreads` | netcoredbg, gdb, the process list | two pipe readers, an idle timer, a time limit, who waits for whom; lines of one thread shown under another |
| Traces (`http_server.go`, `trace_command.go`, `trace_store.go`) | the store of trace ids | `handleTrace`, `streamCountdown`, `Add`, `List`, the profile pages | dotnet-trace, the client | a client that goes away, retry with another profile, processes left behind |
| Process list (`proc_list.go`) | none | find the target below its wrapper, list the processes | /proc, the pages | a /proc that changes during the walk |
| PDB reader (`src/internal/pdb/`) | none | find the streams and tables of a portable pdb file, decode names, extract sources | the source cache, `pdb_util` | widths of columns at thresholds; lengths and sizes a file states about itself |
| Admin pages | none of their own | render what the others hold | all | reading two pieces of state at two moments |
| Startup command, options, `src/cmd/pdb_util`, `main.go` | configuration | parse, start | | sequential string handling |

What makes each of them correct, in short:

- **Supervisor:** at most one target at a time, the history lists the runs in order, the admin
  neither lingers without a target nor ignores a crash, and leaves no vector and no gdb script
  of an ended run behind.
- **Target process:** every line reaches the log stream, vector and the recent lines in order
  and without a gap; the end is recorded before it is reported, whatever else is stuck.
- **Broker:** no panic, no leak, and a slow reader harms nobody but itself.
- **Coverage:** the merge neither loses nor invents hits; the history, the answers and the
  reports belong together; a source used for a report is whole and the one that fits best.
- **Stacks and traces:** what is shown or listed is complete and in its place, a request ends
  whatever the tool does, and no process or goroutine stays behind.
- **Process list:** what is found or listed was there, and what nothing happened to is found.
- **PDB reader:** it finds the tables where the compiler put them and extracts the sources
  that went in, or gives up on a file that is damaged or a source it cannot write.

## 2. Modules

Each was written so that it can be proved about: parameters as constants with named
assumptions, one action per operation, and recursion only as recursive functions.

| Module | Models | Extends or instantiates |
|---|---|---|
| `LogStream` | abstract: a lossy multicast | |
| `LogBroker` | `log_broker.go`, `handleLog` | implements `LogStream` |
| `TargetRun` | abstract: a run ends, is recorded, then reported | |
| `TargetProcess` | one run of `target_process.go` | implements `TargetRun` |
| `Supervisor` | `run.go`, `gdb_command.go`, with `waitForExit` of every run | implements one `TargetRun` per run |
| `CoberturaMerge` | `cobertura_merge.go` on a parsed document | |
| `SourceCache` | `buildCSFileIndexFromPDBs` and `Extract` | |
| `CodeCoverage` | `handleCodeCoverage` and the pages of its history | composes with `SourceCache` |
| `TraceHandler` | `handleTrace`, `streamCountdown`, `TraceStore` and its pages | |
| `ProcTree` | `proc_list.go`, `resolveTargetPID` | |
| `StackCollector` | `collectStackOutput`, `readPipeChunks` | |
| `StackBlocks` | `parseStackBlocks`, `buildStackPageData` | |
| `AdminPages` | `handleStack`, `handleShowThreads`, `handleRoot` | composes the three above |
| `PdbLayout` | `computeDebugTableLayout` and the column accessors | |
| `PdbBytes` | compressed integers, blobs, names, the decompression | |
| `PdbSources` | `parseStreams`, `NewMetadataReader`, `Extract` | composes the two above |
| `MC*` | instances for TLC | |
| `*_proofs` | the theorems about the module of that name | |

`TargetRun` is the seam between the two models of a run. `TargetProcess` shows in detail that
a run goes through it; `Supervisor` keeps of a run only the order `cmd.Wait`, `history.Add`,
report, and shows that it goes through the same abstract run. In the same way `CodeCoverage`
takes `Extract` for something that writes the rows of a pdb file one by one and may fail,
while `PdbSources` is about what each row yields.

### How state and actions correspond to the code

- **LogBroker.** `clients`, `nextID` are the map and the counter; `buf[h]` is the channel of
  request `h`, `out[h]` what its client has received. The RWMutex is `wOwner` and the
  producers in `"send"`. `Broadcast` is one action per client of the range loop (`Offer`), so
  that everything that does not need the lock interleaves with it. `dropped`, `since` and
  `sent` are history variables of the properties.
- **TargetProcess.** `cpc[s]` is where the consumer of stream `s` is in its loop, `scanned[s]`
  the lines in its scanner's buffer, `wpc` where `waitForExit` is. The pipes, the program,
  its descendants and vector are modelled as far as they can block or fail. `Wait` closes
  the read ends of the pipes, as `exec.Cmd.Wait` does.
- **Supervisor.** `pc` goes through `Run`; `doneCh[g]` and `closed` are the channel of
  `Done()`; `serverErrCh` is the channel of that name. The select is the actions
  `TargetDone` and `ServerDone`, enabled together. Start-up that can fail (vector, the
  reachability check, each part of `StartTarget`) is a choice between success and failure.
  The gdb script is a file from the start that writes it to its removal by `waitForExit` or
  by the start that failed. A start whose pipes cannot be made leaves its script on the disk,
  as in the code; `ReturnsForAReason` allows for this one case.
- **CoberturaMerge.** A class is a record of package, file, type, part of the type, lines and
  methods. The part stands for what `parseGeneratedClassName` extracts of the name: `"self"`
  for the class proper, a method for an async state machine, `"helper"` for a lambda cache or
  closure. One action is one iteration of the loop over the classes. `FixFilenames` then gives
  each class whose file is missing the extracted source with the longest common suffix. After
  it two missing files of one base name may have become one file, so `CoverageKept` and
  `NoGeneratedNextToParent` speak of the file names as they were read. The sorted order of the
  candidates, which decides among equals, is that of the constant `Cached`.
- **SourceCache, CodeCoverage.** `file[p][i]` is the extracted file of row `i` of pdb `p`:
  absent, torn (after the truncation of `os.WriteFile`) or whole; `marked` are the marker
  files. Both outlive `Crash`, everything else does not. A request goes through the steps of
  `handleCodeCoverage`; the process of a step ends, fails, hangs or is killed.
  `filepath.WalkDir` names each path once, hence the injective lists of `CoverageAssumption`.
  A row that cannot be decoded ends `Extract` with an error; one with a negative size panics
  (`Panic`), and `HandlerPanics` unwinds the request: its deferred calls give the lock back,
  net/http recovers, and the client gets no answer.
- **TraceHandler.** `tracer[r][i]` is the dotnet-trace of request `r` for profile `i`,
  `complained` what it has said on its standard error, and the trace file goes through absent,
  partial and whole. The select of `streamCountdown` is the actions `TracerDone`,
  `ContextDone` and `NextSecond`.
- **ProcTree.** `proc` is the table of processes, which fork, execute, exit (their children go
  to init) and are reaped between the reads of the walk; `entries` is what `os.ReadDir` gave,
  `queue` and `childrenOf` are those of the breadth-first search. `listed` and `steady` are
  history variables: the table at the moment of the listing and the processes to which nothing
  has happened since. `os.ReadDir` is one step, and a pid is not used again within a walk.
- **StackCollector, StackBlocks, AdminPages.** `pc` goes through `collectStackOutput`, `reader`
  through `readPipeChunks`. What the debugger writes is a sequence of numbers, and a read
  takes any non-empty part of what is in the pipe. Of standard error only the goroutine's end
  is kept. A text is a sequence of lines with a kind each, which `StackBlocks` folds into
  threads. `AdminPages` goes through the handlers in order; once the pid is resolved it forgets
  the processes, which the rest does not look at. `handleRoot` walks twice and independently;
  only the second walk is explored for that page, since the first is that of `handleStack`.
- **PdbLayout, PdbBytes, PdbSources.** A file is the tables that are present and their row
  counts, the heaps with wide references, its documents and rows of `CustomDebugInformation`,
  and the damage done to it. The writer is stated from the columns of each table and from what
  a column must hold; the reader is a transition per table index, then one per document, as in
  the code. A table that is absent is passed over by `AbsentTable` before anything is looked
  at; one that is present is stepped over, read or refused. Bytes are numbers; a compressed
  stream is its content between two marks.
  A path is the sequence of its segments from the root. `FullPath` is `filepath.Join`: the
  segments of the name go after those of `TargetDir` and are cleaned of `.`, `..` and empty
  ones. `sources` are the files written. `WriteSource` and `WriteFails` are the two ends of
  `os.MkdirAll` and `os.WriteFile`, which fail where the path is `Occupied` (it would be a
  directory of another source, another source would be a directory of it, or it is the target
  directory or one above) and where the file system refuses (`refused`, an input), then with
  any beginning of the source left. What else is in the directories beforehand is in `refused`.

## 3. Runs

| Run | Instance | Shows |
|---|---|---|
| `log_broker` | 2 readers (one may leave), 2 producers with 2 and 1 messages, channels of 2 | no panic, own subscriptions, no collateral loss, `LogStream`, `Broadcast` and gone readers terminate |
| `target_process` | 2 lines on stdout, 1 on stderr, pipes of 2, vector input of 1, window of 2 | the three sinks agree with what was written; `TargetRun`, with its liveness; consumers return |
| `target_lastlogs` | as above, window of 3 | *violation*: see findings |
| `supervisor` | 3 starts, clock of 2 values, all modes | no overlap, history, handlers, reasons to return, no script left over, `TargetRun` for every run, no lingering, restarts |
| `supervisor_coverage`, `supervisor_gdb` | small instances | *violations*: see findings. `AbnormalRunIsRestarted` speaks of coverage mode and excuses a server that failed and a restart that failed, but not the shutdown that `Run` itself begins |
| `cobertura_merge` | every document of 3 classes, 4 names, 5 sets of lines, 2 packages, any excluded; every document of 3 classes with 7 files, up to 4 sources | hits kept, no generated class beside its parent, rates and methods agree with the lines, a missing file gets the best source |
| `cobertura_uncovered` | same | *violation*: see findings |
| `trace` | 2 requests, 2 milliseconds, 2 profiles | listed and served traces are complete, processes are reaped, retries, gone clients |
| `coverage` | 3 requests, 3 pdb files (one damaged, one with a negative size), history of 2, 1 crash | history and its pages, answers, whole sources, the lock is given back |
| `stack` | every table of 4 processes with 2 events during a walk; channel of 1, pipe of 2, 4 pieces of output in 3 texts; every gdb output of up to 5 lines | the target is found, the list is right, output is whole and under its thread, the debugger is reaped, every request ends |
| `pdb_layout` | one table at 0, 2047, 2048, 65535 or 65536 rows, with every set of wide heaps and three lengths, or with a type-system table at a boundary too; tables present, empty or absent in payloads cut at several places; files with names in every form, rows in every order and state, heaps around the forms of a compressed integer, every set of streams; two documents at 9 places each, equal, one below the other, with `.` and `..`, any of them refused | the reader agrees with the writer, and gives up just where it must |

Why the bounds are enough: each lets the limit it stands for be reached and passed. Channels
of 2 overflow with 3 messages; a window or history of 2 is pushed over by the third entry; a
pipe of 2 and a vector input of 1 block their writers; three starts are a first run, a
restart and a restart after a restart, which is where a stale `Done()` would show; two clock
values are enough for equal and different names. Three classes are a parent, a generated
class and one more of either kind, in any order over two packages. The handlers of the log
broker, the traces and the coverage interact pairwise; the third coverage request is there to
push out the first record. The requests of `CodeCoverage` are numbered in the order in which
they reach `TryLock`, which loses nothing and saves the permutations. Four processes give a
wrapper with a chain of three below it, or two branches; two events are enough for a process
to be forked and its parent to end, or to end and be reaped, within one walk. The pids 10 and
11 stand before 2 and 3 in a directory that is sorted by name. The target directory of the
extraction is two segments deep, so that two documents can lead to it, above it or beside it.

`CHECK_DEADLOCK FALSE` is used throughout: every model ends, with its requests answered, its
program over or its inputs used up. That nothing gets stuck before is the business of the
liveness properties.

### Fairness

The goroutines of the admin are scheduled (`WF` of each), a `sync.Mutex` or `RWMutex` does
not starve a waiter (`SF` of the acquisition in `LogBroker` and `TargetProcess`), a select
chooses at random among ready cases (`SF(ContextDone)` in `TraceHandler`), a time limit is
reached in the end (`WF(ContextDone)` in `CodeCoverage` and `AdminPages`, where the code
sets limits of 3 minutes and 20 seconds), and a process that was killed ends. The tools run
under such a limit are killed by `exec.CommandContext`; they are taken to leave no process
behind that keeps their output open, for the code would wait for it. In `Supervisor`,
`ListenAndServe` returns after `Shutdown`. Nothing is assumed of the target, of vector, of a
connected client, of the processes in /proc or of a tool that has not been killed: they may
hang for ever. Where that matters the property says so (`ConsumersReturn` needs a vector that
does not stall for ever).

## 4. Findings

Each is a run that TLC ends with a counterexample.

1. **The last lines of a run may be missing from its record** (`target_lastlogs`).
   `waitForExit` does not wait for the consumers, and `cmd.Wait` closes their pipes.
2. **A coverage run that ended with status 0 is recorded as abnormal but does not trigger
   `auto.restart`** (`supervisor_coverage`), against the comment in `waitForExit`. The wrapper
   ends with status 0 and is recorded; `Run` receives nil from `Done()`, shuts the server down
   and returns, with no failure of the server and no restart tried.
3. **Two runs that start in one second share a gdb log, and the second overwrites the first**
   (`supervisor_gdb`).
4. **Lines of a generated class that were never executed vanish in the merge**
   (`cobertura_uncovered`), which raises the line rate.

Seen while modelling, without a statement in the repository to hold against them:

- The standard error shown with the stacks may be cut short, since `cmd.Wait` closes its pipe
  while the goroutine may still read.
- A trace whose countdown cannot be written returns without waiting for its dotnet-trace
  (`TracersAreReaped` states this as its only exception).
- A banner of netcoredbg that pauses for more than 100 ms is shown as a part of the stacks.
- The gdb script of a start that fails at its pipes stays on the disk.
- An embedded source of a negative size makes the reader panic; in the admin net/http recovers
  the request (`SourcesAreTheWriters` states that nothing else panics).
- Two documents of which one has the path of a directory of the other (`a` and `a/bb`) end the
  extraction with an error, and the documents after them are not extracted.
- `filepath.Join` resolves `..` segments of a document's name, so that a source may be written
  beside or above the target directory.
- A source that could not be written completely stays on the disk cut off; the cache is not
  marked then, and the next collection writes it again.

## 5. Proofs

TLAPS proves, for every value of the constants that satisfies the named assumptions:

| Theorem | Of | Statement |
|---|---|---|
| `TypeCorrect` | `LogBroker` | `Spec => []TypeOK`, with no channel over its capacity |
| `NoSendOnClosedHolds` | `LogBroker` | `Spec => []NoSendOnClosed` |
| `OwnSubscriptionHolds` | `LogBroker` | `Spec => []OwnSubscription` |
| `NoCollateralLossHolds` | `LogBroker` | `Spec => []NoCollateralLoss` |
| `ImplementsLogStreamHolds` | `LogBroker` | `Spec => ImplementsLogStream`, a refinement |
| `TypeCorrect` | `Supervisor` | `Spec => []TypeOK` |
| `OneTargetAliveHolds` | `Supervisor` | `Spec => []OneTargetAlive` |
| `HistoryIsTheRunsHolds` | `Supervisor` | `Spec => []HistoryIsTheRuns` |
| `HandlersFollowTargetHolds` | `Supervisor` | `Spec => []HandlersFollowTarget` |
| `ReturnsForAReasonHolds` | `Supervisor` | `Spec => []ReturnsForAReason` |
| `ImplementsTargetRunsHolds` | `Supervisor` | `Spec => ImplementsTargetRuns`, a refinement |
| `StreamIntactHolds` | `TargetProcess` | `Spec => []StreamIntact` |
| `VectorGaplessHolds` | `TargetProcess` | `Spec => []VectorGapless` |
| `RecentIsWindowHolds` | `TargetProcess` | `Spec => []RecentIsWindow` |
| `RunIsATargetRun` | `TargetProcess` | `Spec => Run!Init /\ [][Run!Next]_(Run!vars)`, the safety part of a refinement |
| `TracersAreReapedHolds` | `TraceHandler` | `Spec => []TracersAreReaped` |
| `UnsupportedIsRetriedHolds` | `TraceHandler` | `Spec => []UnsupportedIsRetried` |
| `ListedIsCompleteHolds` | `TraceHandler` | `Spec => []ListedIsComplete` |
| `IndexedIsWholeHolds` | `CodeCoverage` | `Spec => []IndexedIsWhole` |
| `AnsweredTruthfullyHolds` | `CodeCoverage` | `Spec => []AnsweredTruthfully` |
| `HistoryIsTheLastHolds` | `CodeCoverage` | `Spec => []HistoryIsTheLast` |
| `NoGeneratedNextToParentHolds` | `CoberturaMerge` | `Spec => []NoGeneratedNextToParent` |
| `CoverageKeptHolds` | `CoberturaMerge` | `Spec => []CoverageKept` |
| `ClassesAgreeHolds` | `CoberturaMerge` | `Spec => []ClassesAgree` |
| `MissingSourcesAreFoundHolds` | `CoberturaMerge` | `Spec => []MissingSourcesAreFound` |
| `TargetIsResolvedHolds` | `AdminPages` | `PagesSpec => []TargetIsResolved`, of `ProcTree` |
| `ListIsOfTheProcessesHolds` | `AdminPages` | `PagesSpec => []ListIsOfTheProcesses`, of `ProcTree` |
| `PageShowsTheOutputHolds` | `AdminPages` | `PagesSpec => []PageShowsTheOutput` |
| `OutputIsWholeHolds` | `AdminPages` | `PagesSpec => []OutputIsWhole` |
| `DebuggerIsReapedHolds` | `AdminPages` | `PagesSpec => []DebuggerIsReaped` |
| `LayoutIsTheWritersHolds` | `PdbSources` | `SourcesSpec => []LayoutIsTheWriters`, of `PdbLayout` |
| `SourcesAreTheWritersHolds` | `PdbSources` | `SourcesSpec => []SourcesAreTheWriters`, with the bytes of `PdbBytes` |

None of these properties is inductive as it stands. Each `*_proofs` module defines the
invariant `IInv`, shows with one lemma or one case per action that it is kept (`Invariance`),
and derives the properties from it. What is added to it for one property has a name of its own
(`RecentInv`, `DocInv`, `TreeInv`, `LayoutInv`, `SourcesInv`) and a lemma or theorem that it is
kept.

Some of these proofs need an induction over data: how far up a parent is, what a text of so
many lines is parsed into, what a number of columns takes. The induction theorems of the
library have an operator as a parameter, which the provers cannot instantiate. Instead,
`LeastElement` shows that a set of natural numbers that is not empty has a least element (since
inclusion is well-founded on the intervals up to its members), `Induction` states the principle
for a *set* of numbers, `Recursion` gives the function that a recursive definition asks for,
and `Following` says that a function equal to its own recursion has the values expected. A
recursive function of the model is then used through a lemma about its steps (`AncestorIs`,
`ParseLinesIs`, `TotalIs`).

**LogBroker.** That a Broadcast ranges over entries of the map depends on nobody holding the
lock for writing meanwhile, and that cancel removes only its own entry on ids being unique.
`IInv` is `TypeOK` with `EntriesInv` (ids below `nextID`, unique, and held by the request whose
channel it is), `HandlersInv` (a request that streams or cancels has its entry; a closed
channel belongs to a request that is done) and `LockInv` (who may hold the lock, and what a
Broadcast has still to visit). On top of it `SeenInv` says that what a subscriber has taken,
has waiting or lost is, producer by producer, the interval from its subscription to the last
message offered; it holds since a Broadcast visits an entry once, and it gives both that
nothing else is lost and that what is accepted is newer than what came before, which is what
`LogStream` asks. Assumptions: a positive capacity, message bounds in the naturals, and `None`
not a request.

**Supervisor.** `IInv` is `TypeOK` with `RunsInv` (how far the goroutine of each run is, run by
run), `HistoryInv` (exactly the runs past `Add` are in the history, in order), `ControlInv`
(what `Run` knows of the last run at each place: after `TargetDone` it has been reported, and
so on), `OutsideInv` (server, `serverErrCh`, handlers and vector at each place) and
`ScriptsInv` (which scripts are on the disk). The heart is that `started` grows only where the
last run is known to be `"returned"`; the lemma `StartTargetStep` says what that gives, once
for the launch and the restart. The refinement follows from the same invariant: each action
changes at most one run, and that by a step of `TargetRun`. Assumptions: at least one run, a
clock bound in the naturals.

**TargetProcess.** A line moves from the pipe to the scanner, to the recent lines, to vector
and to the log stream, while `cmd.Wait` may close the pipe to its reader. `LinesInv` says that
the lines of a stream that were broadcast, those in the scanner and those in the pipe follow
each other, with at most one counted twice while it is in the consumer's hands, and are all
that was written; `VectorInv` says that vector has had exactly the lines recorded, or the one
at hand besides, as long as nobody has found it dead; `WaitInv` says what has been recorded at
each place of `waitForExit`. `RecentInv` is about the window of last lines. The property says
that it holds the last lines recorded, by numbers and in any order of the two streams; a step
adds one line and drops at most one from the front (`RecordRecentLineInv`), and the lines
later than one that is kept grow by the new one (`LaterAfterAppend`). Assumptions: positive
capacities.

**TraceHandler.** `PlaceInv` says what the attempts of a request have come to at each place of
the handler, `ProfileInv` that earlier profiles were tried and refused, `FileInv` how a trace
file goes with its dotnet-trace, `TracesInv` how the store goes with the requests that added
to it.

**CodeCoverage.** `RunInv` says what a request has done at each place, and that every request
in the pipeline holds the lock, so that there is one at most; `CacheInv` that only that
request is inside the cache, which is why nobody truncates a file that another has in its
index; `ArrivalInv` and `HistoryInv` that requests enter the history in the order of their
numbers, from which the list is the latest ones. `Crash` keeps all of it because the marker
of a pdb file is written after its sources. Assumptions: a positive length of the history,
and lists that name a pdb file once.

**CoberturaMerge.** `LiveInv` is the invariant of the loop: of the classes it has passed, those
that are left are the ones that are not generated or have no parent. It rests on `IndexInv`
(the index, made before the loop, has the keys of exactly the parents in the packages that
are kept) and on `ClassesInv` (merging and recomputing change the lines, methods and rates of
a class, never what its key is made of). `DocInv` adds what the classes show: `CoverInv` that
the classes still in the document cover, for every file, line and number of hits, what those
that were read did; `MethodsInv` and `AsyncInv` that no method is lost and that a merged
state machine is listed by its parent; `RateInv` which rates are already right. The lemmas
under it say what the operators of the merge give for any lines (`WithLinesCovers`,
`MergeIs`). That a missing file gets the best source follows from what `pickBest` and
`commonSuffix` return for every list of candidates (`PickBestIs`, `SameEndIs`). Assumptions:
a document has a length and well-formed classes, in which the lines of the methods are lines
of the class (`ClassOK`); a source in the index is one that is cached.

**AdminPages.** `PiecesInv` says that what was collected, the chunks in the channel, the one in
the reader's hands and the pipe join without a gap to all that netcoredbg has written (`Spans`
and `Linked` relate a sequence, or a queue of them, to the numbers it covers); `ReaderInv` and
`CollectorInv` say what has ended or been closed at each place, and `ResultInv` what of it is
in the result. The invariant speaks of the collector only and is lifted to the composed
specification, in which every other action leaves it alone. `TreeInv` does the same for the
walk over /proc: `HistoryInv` relates the table of processes to the one of the listing and to
the processes that stayed as they were, `EntriesInv` and `ChildrenInv` say what has been read
of them, `QueueInv` that of every target process below the root that nothing has happened to,
nor to a parent between, the process or one of these parents waits in the queue, `RowsInv` that
the list has the rows of those that were there. Chains of parents are iterated functions, whose
depth is bounded since pids are finite. For what the page shows, the parser is stated by
positions: after so many lines, a line of the output is in the startup text, under a thread or
left out (`AtOfAt`, `ThreadsAre`), and `ParsedNext` carries this over one line. Assumptions:
positive capacities, a bound on the output in the naturals; distinct positive pids, all of them
in the order of the directory.

**PdbSources.** `WalkAt` says of the walk over the tables, for the file, the length of its
payload and the table it has come to: the offset is where the writer puts this table, the two
tables of interest are as written, or absent, once they are passed, and an error means that
this table is there and does not fit, or cannot be sized. A table that is absent has no rows
(`FileOK`), so the offset is right after it too. It rests on `WidthsAgree` and `RowSizesAgree`:
the reader's width of a column, from thresholds on row counts and flags, is the least one that
holds every reference the writer may have to put there. Assumption: row counts and the bytes
cut off are numbers, the wide heaps are heaps, an absent table has no rows. It is a theorem
about `SourcesSpec`, in which the extraction follows.

`SourcesInv` says of the run that what it found, wrote and counted so far is what the file
holds, that no two of the sources written clash, and that after a failed write a beginning of
one source may be at its path besides (`HalfWritten`). Its step needs that one document comes
out as it went in (`ExtractionIs`), and that is built from the bytes up. `Holds` says that some
bytes are at an offset of a heap, `Begins` that a heap goes on from another: the heap grows by
one blob after the other, so what the writer put at a reference is still there at the end
(`HeapIs`), and a reader that has the heap, or only the beginning of it, reads just that or
nothing (`ReadBytesIs`). From there one lemma per layer inverts what the writer did:
`ReadUintIs` and `ReadBlobIs` for compressed integers and blobs, `DecodeIs` for the loop over
the references of a name, `PathIs` and `SplitJoined` for the path made of it and its segments,
`OccupiedIs` for the places that are taken, `RowsAre` for tags and rows, `SourceRoundTrip` for
the size and the stream of a source, `DirectoryIs` for the stream directory. Assumptions:
`ContentsAssumption`, that segments of a path are not empty and have no separators, that
numbers and bytes are such, and that the version is padded to a multiple of four, as the format
demands; `TargetDirAssumption`, that the target directory is such a path; `HeapsAssumption`,
that a heap has less than 2^29 bytes, beyond which no compressed reference reaches, and that no
more is cut off than there is.

**Only model-checked:** every liveness property and the liveness of the refinement of
`TargetRun` by `TargetProcess`, for liveness under fairness is out of the prover's reach.
Every safety invariant, every action property and the safety of every refinement are proved.

## 6. What is not modelled, and why

- Templates, the static files, the speedscope viewer and the console over a socket: they
  render a snapshot, serve a file or copy bytes.
- `startup_command.go`, option parsing, `gdb_attach_command.go`, the arguments and messages of
  `pdb_util`, `main.go`: sequential string handling and wiring. What the options lead to in
  `Run` is in `Supervisor`.
- `detectCoreDump`: one look at the file system.
- CPU, memory and start time in the process list: formatting of numbers that were read.
- The fixed headers of a pdb file, the encoding of GUIDs and DEFLATE itself.
- Links and the directories that an extraction leaves empty; `SourceCache` keeps a file per row
  and leaves paths that coincide or clash to `PdbSources`, where a clash is an error as any.
- `handleResetCoverageData`: it starts a command and answers. A collection that begins after
  its answer may still hold data from before the reset, which the page does not rule out.
- XML: `CoberturaMerge` starts from the parsed document.

## 7. What could come next

- `Supervisor` with the `RecentLines` of each run in its record, which would put
  `LastLogsAreTheLast` on the history page.
