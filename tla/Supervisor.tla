----------------------------- MODULE Supervisor -----------------------------
(***************************************************************************)
(* internal/debugadmin/run.go: Run starts vector, the target and the HTTP  *)
(* server, restarts the target when it crashed and -auto.restart is given, *)
(* and takes everything down at the end.                                   *)
(*                                                                         *)
(* Runs of the target are numbered in the order in which they are started. *)
(* Each has its waitForExit goroutine, of which only the order of          *)
(* cmd.Wait, history.Add and the report on Done() is kept: TargetProcess   *)
(* models the rest, and both modules implement TargetRun.                  *)
(*                                                                         *)
(* Outside are the programs (which end when they like), gdb, the vector    *)
(* process, the HTTP server and the clock.  One tick is one second, the    *)
(* resolution of the names of the gdb logs.                                *)
(***************************************************************************)
EXTENDS Integers, Sequences

CONSTANTS MaxRuns,    \* bound: starts of the target
          MaxTime     \* bound: the clock

ASSUME MaxRunsAssumption == MaxRuns \in Nat \ {0}
ASSUME MaxTimeAssumption == MaxTime \in Nat

RunID == 1..MaxRuns
Outcomes == {"clean", "failed"}
Pending == "pending"
NoRun == 0
\* -with.gdb and with.coverage exclude each other.
Options == [autoRestart : BOOLEAN, mode : {"plain", "gdb", "coverage"}]

VARIABLES
    options,        \* GlobalOptions
    pc,             \* where Run is
    why,            \* why Run returns
    target,         \* Run's variable target
    handlerTarget,  \* AdminHandler.target
    started,        \* how many runs have been started
    wpc,            \* wpc[g]: where waitForExit of run g is
    outcome,        \* outcome[g]: how the program of run g ended
    doneCh,         \* doneCh[g]: what Done() of run g holds
    closed,         \* the runs whose Done() is closed
    history,        \* RunHistory.records
    server,         \* the goroutine of ListenAndServe
    serverErrCh,    \* what is in serverErrCh
    vector,         \* the vector process
    clock,
    gdbLogPath,     \* gdbLogPath[g]: the second that names the gdb log of run g
    logFile,        \* logFile[t]: the run whose output the gdb log of second t has
    scripts         \* the starts whose file of gdb commands is on the disk

runVars == <<wpc, outcome, doneCh, closed, history>>
serverVars == <<server, serverErrCh>>
gdbVars == <<gdbLogPath, logFile, scripts>>
vars == <<options, pc, why, target, handlerTarget, started, wpc, outcome, doneCh, closed,
          history, server, serverErrCh, vector, clock, gdbLogPath, logFile, scripts>>

Record == [run : RunID, outcome : Outcomes, abnormal : BOOLEAN]

TypeOK ==
    /\ options \in Options
    /\ pc \in {"init", "launch", "listen", "select", "restart", "setTarget", "shutdown",
               "drain", "return", "stopVector", "waitVector", "exited"}
    /\ why \in {"notYet", "usage", "startFailed", "restartFailed", "serverFailed",
                "serverClosed", "finishedClean", "finishedFailed"}
    /\ target \in 0..MaxRuns
    /\ handlerTarget \in 0..MaxRuns
    /\ started \in 0..MaxRuns
    /\ wpc \in [RunID -> {"none", "wait", "history", "report", "returned"}]
    /\ outcome \in [RunID -> Outcomes \cup {Pending}]
    /\ doneCh \in [RunID -> Outcomes \cup {Pending}]
    /\ closed \subseteq RunID
    /\ history \in Seq(Record)
    /\ server \in {"none", "listening", "closing", "returned"}
    /\ serverErrCh \in {"empty", "failed", "closed"}
    /\ vector \in {"none", "up", "closing", "killed", "dead"}
    /\ clock \in 0..MaxTime
    /\ gdbLogPath \in [RunID -> 0..MaxTime]
    /\ logFile \in [0..MaxTime -> 0..MaxRuns]
    /\ scripts \subseteq 1..(MaxRuns + 1)

Init ==
    /\ options \in Options
    /\ pc = "init" /\ why = "notYet"
    /\ target = NoRun /\ handlerTarget = NoRun /\ started = 0
    /\ wpc = [g \in RunID |-> "none"]
    /\ outcome = [g \in RunID |-> Pending]
    /\ doneCh = [g \in RunID |-> Pending]
    /\ closed = {}
    /\ history = <<>>
    /\ server = "none" /\ serverErrCh = "empty"
    /\ vector = "none"
    /\ clock = 0
    /\ gdbLogPath = [g \in RunID |-> 0]
    /\ logFile = [t \in 0..MaxTime |-> NoRun]
    /\ scripts = {}

-----------------------------------------------------------------------------
(* Run.                                                                    *)

\* Options, core limit and, with -log.push.url, the vector process.
Begin ==
    /\ pc = "init"
    /\ \/ why' = "usage" /\ pc' = "exited" /\ UNCHANGED vector
       \/ why' = "startFailed" /\ pc' = "exited" /\ UNCHANGED vector
       \/ UNCHANGED why /\ pc' = "launch" /\ vector' \in {"none", "up"}
    /\ UNCHANGED <<options, target, handlerTarget, started, runVars, serverVars, clock, gdbVars>>

\* buildTargetCommand: gdb gets its commands in a file of its own.
WithScript(g) == IF options.mode = "gdb" THEN scripts \cup {g} ELSE scripts

\* StartTarget succeeds: a new run, whose gdb log is named after the second.
StartTarget ==
    /\ started < MaxRuns
    /\ started' = started + 1
    /\ wpc' = [wpc EXCEPT ![started'] = "wait"]
    /\ gdbLogPath' = [gdbLogPath EXCEPT ![started'] = clock]
    /\ scripts' = WithScript(started')

\* It fails: the file is removed again, but not when a pipe cannot be opened.
StartTargetFails ==
    /\ scripts' \in {scripts, WithScript(started + 1)}
    /\ UNCHANGED <<target, started, wpc, gdbLogPath>>

Launch ==
    /\ pc = "launch"
    /\ \/ /\ StartTarget
          /\ target' = started'
          /\ pc' = "listen"
          /\ UNCHANGED why
       \/ /\ StartTargetFails
          /\ why' = "startFailed"
          /\ pc' = "return"
    /\ UNCHANGED <<options, handlerTarget, outcome, doneCh, closed, history, serverVars,
                   vector, clock, logFile>>

\* NewHTTPServer, and the goroutine that serves.
Listen ==
    /\ pc = "listen"
    /\ \/ /\ handlerTarget' = target
          /\ server' = "listening"
          /\ pc' = "select"
          /\ UNCHANGED why
       \/ /\ why' = "serverFailed"
          /\ pc' = "return"
          /\ UNCHANGED <<handlerTarget, server>>
    /\ UNCHANGED <<options, target, started, runVars, serverErrCh, vector, clock, gdbVars>>

\* Mutant of Abnormal: nothing counts as a crash.
NeverAbnormal(o) == o \notin Outcomes

\* classifyExit
Abnormal(o) == o # "clean"

\* <-Done(): the value that was sent or, from a closed and empty channel, nil.
CanReceiveDone(g) == doneCh[g] # Pending \/ g \in closed
DoneValue(g) == IF doneCh[g] # Pending THEN doneCh[g] ELSE "clean"

\* case targetErr := <-target.Done()
TargetDone ==
    /\ pc = "select"
    /\ CanReceiveDone(target)
    /\ doneCh' = [doneCh EXCEPT ![target] = Pending]
    /\ IF options.autoRestart /\ Abnormal(DoneValue(target))
       THEN /\ pc' = "restart"
            /\ UNCHANGED why
       ELSE /\ pc' = "shutdown"
            /\ why' = IF DoneValue(target) = "clean" THEN "finishedClean" ELSE "finishedFailed"
    /\ UNCHANGED <<options, target, handlerTarget, started, wpc, outcome, closed, history,
                   serverVars, vector, clock, gdbVars>>

\* Mutant of Restart: Run keeps selecting on the old target's Done().
RestartKeepingTarget ==
    /\ pc = "restart"
    /\ \/ /\ StartTarget
          /\ pc' = "setTarget"
          /\ UNCHANGED <<why, target>>
       \/ /\ StartTargetFails
          /\ why' = "restartFailed"
          /\ pc' = "shutdown"
    /\ UNCHANGED <<options, handlerTarget, outcome, doneCh, closed, history, serverVars,
                   vector, clock, logFile>>

Restart ==
    /\ pc = "restart"
    /\ \/ /\ StartTarget
          /\ target' = started'
          /\ pc' = "setTarget"
          /\ UNCHANGED why
       \/ /\ StartTargetFails
          /\ why' = "restartFailed"
          /\ pc' = "shutdown"
    /\ UNCHANGED <<options, handlerTarget, outcome, doneCh, closed, history, serverVars,
                   vector, clock, logFile>>

\* Mutant of SetTarget: the handlers are not told of the new target.
SetTargetForgotten ==
    /\ pc = "setTarget"
    /\ pc' = "select"
    /\ UNCHANGED <<options, why, target, handlerTarget, started, runVars, serverVars, vector,
                   clock, gdbVars>>

SetTarget ==
    /\ pc = "setTarget"
    /\ handlerTarget' = target
    /\ pc' = "select"
    /\ UNCHANGED <<options, why, target, started, runVars, serverVars, vector, clock, gdbVars>>

\* Mutant of ServerDone: shutdown() is called here too, and waits for a second
\* value from serverErrCh.
ServerDoneShutdown ==
    /\ pc = "select"
    /\ serverErrCh # "empty"
    /\ why' = "serverFailed"
    /\ serverErrCh' = "empty"
    /\ pc' = "shutdown"
    /\ UNCHANGED <<options, target, handlerTarget, started, runVars, server, vector, clock, gdbVars>>

\* Mutant of ServerDone: the failure of the server restarts the target.
ServerDoneRestart ==
    /\ pc = "select"
    /\ serverErrCh # "empty"
    /\ serverErrCh' = "empty"
    /\ pc' = "restart"
    /\ UNCHANGED <<options, why, target, handlerTarget, started, runVars, server, vector, clock,
                   gdbVars>>

\* case serverErr := <-serverErrCh: the target is left alone.
ServerDone ==
    /\ pc = "select"
    /\ serverErrCh # "empty"
    /\ why' = IF serverErrCh = "failed" THEN "serverFailed" ELSE "serverClosed"
    /\ serverErrCh' = "empty"
    /\ pc' = "return"
    /\ UNCHANGED <<options, target, handlerTarget, started, runVars, server, vector, clock, gdbVars>>

\* shutdown(): server.Shutdown, which takes at most three seconds, ...
Shutdown ==
    /\ pc = "shutdown"
    /\ server' = IF server = "listening" THEN "closing" ELSE server
    /\ pc' = "drain"
    /\ UNCHANGED <<options, why, target, handlerTarget, started, runVars, serverErrCh, vector,
                   clock, gdbVars>>

\* ... and <-serverErrCh.
Drain ==
    /\ pc = "drain"
    /\ serverErrCh # "empty"
    /\ serverErrCh' = "empty"
    /\ pc' = "return"
    /\ UNCHANGED <<options, why, target, handlerTarget, started, runVars, server, vector, clock,
                   gdbVars>>

\* The deferred vectorProc.Stop() closes vector's standard input.
CloseVectorStdin ==
    /\ pc = "return"
    /\ pc' = IF vector = "none" THEN "exited" ELSE "stopVector"
    /\ vector' = IF vector = "up" THEN "closing" ELSE vector
    /\ UNCHANGED <<options, why, target, handlerTarget, started, runVars, serverVars, clock, gdbVars>>

\* Two seconds later it is killed.
KillVector ==
    /\ pc = "stopVector" /\ vector = "closing"
    /\ vector' = "killed"
    /\ pc' = "waitVector"
    /\ UNCHANGED <<options, why, target, handlerTarget, started, runVars, serverVars, clock, gdbVars>>

VectorStopped ==
    /\ pc \in {"stopVector", "waitVector"} /\ vector = "dead"
    /\ pc' = "exited"
    /\ UNCHANGED <<options, why, target, handlerTarget, started, runVars, serverVars, vector,
                   clock, gdbVars>>

RunStep == \/ Begin \/ Launch \/ Listen \/ TargetDone \/ Restart \/ SetTarget \/ ServerDone
           \/ Shutdown \/ Drain \/ CloseVectorStdin \/ KillVector \/ VectorStopped

-----------------------------------------------------------------------------
(* The goroutine waitForExit of run g.                                     *)

\* Mutant of Wait: cmd.Wait() is not waited for.
WaitForNothing(g) ==
    /\ wpc[g] = "wait"
    /\ wpc' = [wpc EXCEPT ![g] = "history"]
    /\ UNCHANGED <<options, pc, why, target, handlerTarget, started, outcome, doneCh, closed,
                   history, serverVars, vector, clock, gdbVars>>

\* Mutant of Wait: the file of gdb commands is left.
WaitLeavingScript(g) ==
    /\ pc # "exited"
    /\ wpc[g] = "wait" /\ outcome[g] # Pending
    /\ wpc' = [wpc EXCEPT ![g] = "history"]
    /\ UNCHANGED <<options, pc, why, target, handlerTarget, started, outcome, doneCh, closed,
                   history, serverVars, vector, clock, gdbVars>>

\* cmd.Wait() has returned: the program has ended.
Wait(g) ==
    /\ pc # "exited"
    /\ wpc[g] = "wait" /\ outcome[g] # Pending
    /\ wpc' = [wpc EXCEPT ![g] = "history"]
    /\ scripts' = scripts \ {g}
    /\ UNCHANGED <<options, pc, why, target, handlerTarget, started, outcome, doneCh, closed,
                   history, serverVars, vector, clock, gdbLogPath, logFile>>

\* Mutant of AddRecord: in coverage mode the outcome itself is overwritten.
AddRecordOverwritten(g) ==
    /\ wpc[g] = "history"
    /\ history' = Append(history,
                      [run |-> g, abnormal |-> options.mode = "coverage" \/ Abnormal(outcome[g]),
                       outcome |-> IF options.mode = "coverage" THEN "failed" ELSE outcome[g]])
    /\ wpc' = [wpc EXCEPT ![g] = "report"]
    /\ UNCHANGED <<options, pc, why, target, handlerTarget, started, outcome, doneCh, closed,
                   serverVars, vector, clock, gdbVars>>

\* The record of the run; in coverage mode every end counts as abnormal.
AddRecord(g) ==
    /\ pc # "exited"
    /\ wpc[g] = "history"
    /\ history' = Append(history,
                      [run |-> g, outcome |-> outcome[g],
                       abnormal |-> options.mode = "coverage" \/ Abnormal(outcome[g])])
    /\ wpc' = [wpc EXCEPT ![g] = "report"]
    /\ UNCHANGED <<options, pc, why, target, handlerTarget, started, outcome, doneCh, closed,
                   serverVars, vector, clock, gdbVars>>

\* Mutant of ReportDone: the end may be reported before the record is added.
ReportDoneEarly(g) ==
    /\ g \notin closed
    /\ wpc[g] \in {"history", "report"}
    /\ doneCh' = [doneCh EXCEPT ![g] = outcome[g]]
    /\ closed' = closed \cup {g}
    /\ UNCHANGED <<options, pc, why, target, handlerTarget, started, wpc, outcome, history,
                   serverVars, vector, clock, gdbVars>>

\* done <- err; close(done)
ReportDone(g) ==
    /\ pc # "exited"
    /\ wpc[g] = "report"
    /\ doneCh' = [doneCh EXCEPT ![g] = outcome[g]]
    /\ closed' = closed \cup {g}
    /\ wpc' = [wpc EXCEPT ![g] = "returned"]
    /\ UNCHANGED <<options, pc, why, target, handlerTarget, started, outcome, history,
                   serverVars, vector, clock, gdbVars>>

WaitForExit(g) == Wait(g) \/ AddRecord(g) \/ ReportDone(g)

-----------------------------------------------------------------------------
(* The environment.                                                        *)

\* The program of run g is there and has not ended.
Alive(g) == g <= started /\ outcome[g] = Pending

\* The program ends, by itself or killed.  gdb and dotnet-coverage, when they
\* wrap it, make what they like of its exit status.
ProgramEnds(g) ==
    /\ Alive(g)
    /\ \E o \in Outcomes : outcome' = [outcome EXCEPT ![g] = o]
    /\ UNCHANGED <<options, pc, why, target, handlerTarget, started, wpc, doneCh, closed,
                   history, serverVars, vector, clock, gdbVars>>

\* gdb truncates the log named in its script and starts to write it.
GdbOpensLog(g) ==
    /\ options.mode = "gdb"
    /\ Alive(g)
    /\ logFile' = [logFile EXCEPT ![gdbLogPath[g]] = g]
    /\ UNCHANGED <<options, pc, why, target, handlerTarget, started, runVars, serverVars,
                   vector, clock, gdbLogPath, scripts>>

ServerFails ==
    /\ server = "listening"
    /\ server' = "returned"
    /\ serverErrCh' = "failed"
    /\ UNCHANGED <<options, pc, why, target, handlerTarget, started, runVars, vector, clock, gdbVars>>

\* Shutdown makes ListenAndServe return ErrServerClosed.
ServerCloses ==
    /\ server = "closing"
    /\ server' = "returned"
    /\ serverErrCh' = "closed"
    /\ UNCHANGED <<options, pc, why, target, handlerTarget, started, runVars, vector, clock, gdbVars>>

VectorEnds ==
    /\ vector \in {"up", "closing", "killed"}
    /\ vector' = "dead"
    /\ UNCHANGED <<options, pc, why, target, handlerTarget, started, runVars, serverVars, clock,
                   gdbVars>>

Tick ==
    /\ clock < MaxTime
    /\ clock' = clock + 1
    /\ UNCHANGED <<options, pc, why, target, handlerTarget, started, runVars, serverVars,
                   vector, gdbVars>>

Environment == \/ \E g \in RunID : ProgramEnds(g) \/ GdbOpensLog(g)
               \/ ServerFails \/ ServerCloses \/ VectorEnds \/ Tick

Next == RunStep \/ (\E g \in RunID : WaitForExit(g)) \/ Environment

Spec == Init /\ [][Next]_vars

\* The goroutines run; ListenAndServe returns once Shutdown was called; a
\* killed process ends.  Programs, gdb, a vector that is only asked to stop and
\* the network owe nothing.
Fairness ==
    /\ WF_vars(RunStep)
    /\ \A g \in RunID : WF_vars(WaitForExit(g))
    /\ WF_vars(ServerCloses)
    /\ WF_vars(vector = "killed" /\ VectorEnds)

FairSpec == Spec /\ Fairness
-----------------------------------------------------------------------------
(* The pages of the history, which change nothing: what they answer now.   *)

\* buildRunHistoryRows: the latest run first, each with the index of its link.
RunHistoryRows ==
    [row \in DOMAIN history |->
        LET i == Len(history) - row IN [run |-> history[i + 1].run, index |-> i]]

\* handleGDBLog: whose output the log is, or NoRun for "not found".
GDBLog(index) ==
    IF options.mode = "gdb" /\ index + 1 \in DOMAIN history
    THEN logFile[gdbLogPath[history[index + 1].run]]
    ELSE NoRun

-----------------------------------------------------------------------------
(* Properties.                                                             *)

\* A restart never overlaps the run it replaces: at most one program is alive.
OneTargetAlive == \A g, h \in RunID : Alive(g) /\ Alive(h) => g = h

\* The history lists the runs in the order of their starts, each once and with
\* its own outcome, and lacks at most the latest one: the index by which the
\* page of the run history names a gdb log is the number of the run, although
\* every run is added by a goroutine of its own.
HistoryIsTheRuns ==
    /\ \A i \in 1..Len(history) : /\ history[i].run = i
                                  /\ history[i].outcome = outcome[i]
    /\ Len(history) <= started /\ started <= Len(history) + 1

\* The HTTP handlers look at the current run, or for the moment between the
\* restart and SetTarget at the one before, which is then in the history.
HandlersFollowTarget ==
    server # "none" =>
        /\ handlerTarget \in {target - 1, target}
        /\ handlerTarget # target => pc = "setTarget" /\ handlerTarget <= Len(history)
        /\ target = started

\* Run returns for the reason it gives: the outcome of the last run, which the
\* exit status repeats, or a failure of its own.  It leaves a program behind, and
\* the file with the commands of its gdb, only when the HTTP server failed, and
\* never a vector process; another such file only if it could not start the
\* target.  As long as gdb runs its commands are there to be read.
ReturnsForAReason ==
    /\ why = "finishedClean" => outcome[started] = "clean"
    /\ why = "finishedFailed" => outcome[started] = "failed" /\ ~options.autoRestart
    /\ why = "restartFailed" => outcome[started] = "failed" /\ options.autoRestart
    /\ pc = "exited" => /\ vector \in {"none", "dead"}
                        /\ (\E g \in RunID : Alive(g)) => why = "serverFailed"
                        /\ \A g \in scripts :
                              \/ g = started /\ why = "serverFailed"
                              \/ g = started + 1 /\ why \in {"startFailed", "restartFailed"}
    /\ options.mode = "gdb" => \A g \in RunID : Alive(g) => g \in scripts

\* Every run goes through TargetRun.
Run(g) == INSTANCE TargetRun WITH
    outcome <- outcome[g],
    recorded <- IF g <= Len(history) THEN history[g].outcome ELSE Pending,
    reported <- IF g \in closed THEN outcome[g] ELSE Pending

ImplementsTargetRuns ==
    /\ \A g \in RunID : Run(g)!Init
    /\ [][\A g \in RunID : Run(g)!Next \/ UNCHANGED Run(g)!vars]_vars

\* When a program ends, its run is replaced or the admin exits, whatever state
\* the HTTP server and vector are in: the admin never lingers without a target.
EndedRunIsHandled ==
    \A g \in RunID : outcome[g] # Pending ~> started > g \/ pc = "exited"

\* With -auto.restart a run that failed is followed by another one, unless the
\* target cannot be started any more or the HTTP server failed.
FailedRunIsRestarted ==
    \A g \in RunID : options.autoRestart /\ outcome[g] = "failed" ~>
        started > g \/ why \in {"restartFailed", "serverFailed"}

RecordedAbnormal(g) == \E i \in 1..Len(history) : history[i].run = g /\ history[i].abnormal
ServerFailed == serverErrCh = "failed" \/ why = "serverFailed"

\* The comment in waitForExit: a run of the coverage mode is recorded as abnormal
\* so that auto.restart is triggered, whatever status its wrapper ended with.
\* Such a run is followed by another one, unless the target cannot be started any
\* more or the HTTP server fails at some time.
AbnormalRunIsRestarted ==
    \/ <>ServerFailed
    \/ \A g \in RunID :
          options.mode = "coverage" /\ options.autoRestart /\ RecordedAbnormal(g)
          ~> started > g \/ why = "restartFailed"

\* The README on -with.gdb: the crash information of a run can be opened from
\* the run history.  The link of a row does not lead to the log of another run.
GdbLogIsOfItsRun ==
    \A row \in DOMAIN RunHistoryRows :
        GDBLog(RunHistoryRows[row].index) \in {NoRun, RunHistoryRows[row].run}

=============================================================================
