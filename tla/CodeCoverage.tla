---------------------------- MODULE CodeCoverage ----------------------------
(***************************************************************************)
(* internal/debugadmin/code_coverage.go: a request for /code_coverage runs *)
(* dotnet-coverage snapshot, dotnet-coverage merge, the clean-up of the    *)
(* cobertura file and reportgenerator one after the other, records the     *)
(* result and redirects to the report.                                     *)
(*                                                                         *)
(* One request at a time collects, by TryLock of coverageRunMu.  The tools *)
(* run under a context that ends after three minutes or when the client    *)
(* goes away; the clean-up, which uses the cache of SourceCache, does not. *)
(* The admin process may end at any moment and start again: the lock and   *)
(* the history are lost, the disk is not.                                  *)
(***************************************************************************)
EXTENDS SourceCache

CONSTANTS MaxRequests,          \* bound: the requests for /code_coverage
          PdbLists,             \* the lists findPDBFiles may return
          maxCoverageHistory,
          MaxCrashes            \* bound: how often the admin process ends

\* The requests, numbered in the order in which they come to TryLock.
Requests == 1..MaxRequests
Free == 0       \* coverageRunMu is not held

ASSUME CoverageAssumption ==
    /\ MaxRequests \in Nat /\ Callers = Requests
    /\ \A list \in PdbLists : list \in Seq(Pdbs) /\ IsInjective(list)
    /\ maxCoverageHistory \in Nat \ {0} /\ MaxCrashes \in Nat

\* steps of handleCodeCoverage: snapshot, merge, reportgenerator.
Snapshot == 1
MergeTool == 2
ReportGenerator == 3

VARIABLES
    pc,          \* where request r is in handleCodeCoverage
    tool,        \* the step it is at
    proc,        \* the process of that step
    expired,     \* the requests whose context is done
    holder,      \* who holds coverageRunMu
    report,      \* report[r]: the directory reportgenerator writes for r
    history,     \* coverageHistory, as requests
    answer,      \* what the client was told
    taken,       \* the requests that collected since the admin process started
    unreadable,  \* those whose cobertura file recordCoverageResult could not read
    crashes

vars == <<cacheVars, pc, tool, proc, expired, holder, report, history, answer,
          taken, unreadable, crashes>>
unchangedExceptRun == <<history, taken, unreadable, crashes>>

Init ==
    /\ CacheInit
    /\ pc = [r \in Requests |-> "idle"]
    /\ tool = [r \in Requests |-> Snapshot]
    /\ proc = [r \in Requests |-> "none"]
    /\ expired = {} /\ unreadable = {}
    /\ holder = Free
    /\ report = [r \in Requests |-> "none"]
    /\ history = <<>> /\ taken = {}
    /\ answer = [r \in Requests |-> "none"]
    /\ crashes = 0

-----------------------------------------------------------------------------
(* handleCodeCoverage.                                                     *)

Goto(r, l) == pc' = [pc EXCEPT ![r] = l]

\* r comes to TryLock.
Arrives(r) == pc[r] = "idle" /\ \A i \in 1..(r - 1) : pc[i] # "idle"

\* Mutant of Return: Unlock is left out.
ReturnHoldingLock(r, a) ==
    /\ Goto(r, "done")
    /\ answer' = [answer EXCEPT ![r] = a]
    /\ expired' = expired \ {r}
    /\ tool' = [tool EXCEPT ![r] = Snapshot]
    /\ UNCHANGED holder

\* The handler returns: its deferred Unlock and cancel run.
Return(r, a) ==
    /\ Goto(r, "done")
    /\ answer' = [answer EXCEPT ![r] = a]
    /\ holder' = Free
    /\ expired' = expired \ {r}
    /\ tool' = [tool EXCEPT ![r] = Snapshot]

\* A page with status 500 ends the request.
Fail(r) == Return(r, "failed") /\ DropIndex(r)

\* TryLock fails.
Refuse(r) ==
    /\ Arrives(r) /\ holder # Free
    /\ Goto(r, "done")
    /\ answer' = [answer EXCEPT ![r] = "conflict"]
    /\ UNCHANGED <<cacheVars, tool, proc, expired, holder, report, unchangedExceptRun>>

\* Mutant of Begin: there is no lock.
BeginUnlocked(r) ==
    /\ Arrives(r)
    /\ holder' = r
    /\ taken' = taken \cup {r}
    /\ Goto(r, "start")
    /\ UNCHANGED <<cacheVars, tool, proc, expired, report, history, answer, unreadable, crashes>>

\* TryLock succeeds.
Begin(r) ==
    /\ Arrives(r) /\ holder = Free
    /\ holder' = r
    /\ taken' = taken \cup {r}
    /\ Goto(r, "start")
    /\ UNCHANGED <<cacheVars, tool, proc, expired, report, history, answer, unreadable, crashes>>

\* The command of the step starts, unless it cannot or the context is done.
StartTool(r) ==
    /\ pc[r] = "start"
    /\ \/ /\ r \notin expired
          /\ proc' = [proc EXCEPT ![r] = "running"]
          /\ Goto(r, "wait")
          /\ UNCHANGED <<cacheVars, tool, expired, holder, answer>>
       \/ Fail(r) /\ UNCHANGED proc
    /\ UNCHANGED <<report, unchangedExceptRun>>

\* CombinedOutput returns an error: the command failed or was killed, or ended
\* as the context did.
StepFails(r) ==
    /\ pc[r] = "wait"
    /\ \/ proc[r] \in {"failed", "killed"}
       \/ proc[r] = "ok" /\ r \in expired
    /\ proc' = [proc EXCEPT ![r] = "none"]
    /\ Fail(r)
    /\ UNCHANGED <<report, unchangedExceptRun>>

\* Mutant of StepSucceeds: the error of a step is not looked at.
StepSucceedsAnyhow(r) ==
    /\ pc[r] = "wait" /\ proc[r] \in {"ok", "failed", "killed"}
    /\ proc' = [proc EXCEPT ![r] = "none"]
    /\ Goto(r, CASE tool[r] = MergeTool -> "clean"
                 [] tool[r] = ReportGenerator -> "record"
                 [] OTHER -> "start")
    /\ tool' = [tool EXCEPT ![r] = IF @ = Snapshot THEN MergeTool ELSE @]
    /\ UNCHANGED <<cacheVars, expired, holder, report, answer, unchangedExceptRun>>

\* It returns without one.
StepSucceeds(r) ==
    /\ pc[r] = "wait" /\ proc[r] = "ok"
    /\ proc' = [proc EXCEPT ![r] = "none"]
    /\ Goto(r, CASE tool[r] = MergeTool -> "clean"
                 [] tool[r] = ReportGenerator -> "record"
                 [] OTHER -> "start")
    /\ tool' = [tool EXCEPT ![r] = IF @ = Snapshot THEN MergeTool ELSE @]
    /\ UNCHANGED <<cacheVars, expired, holder, report, answer, unchangedExceptRun>>

\* cleanCoberturaCompilerGeneratedClasses reads and parses the file, and looks
\* for the pdb files of the target: none when sources are not taken from pdbs.
Clean(r) ==
    /\ pc[r] = "clean"
    /\ \/ /\ \E pdbFiles \in PdbLists : BuildIndex(r, pdbFiles)
          /\ Goto(r, "cleaning")
          /\ UNCHANGED <<tool, expired, holder, answer>>
       \/ Fail(r)
    /\ UNCHANGED <<proc, report, unchangedExceptRun>>

BuildIndexStep(r) ==
    /\ pc[r] = "cleaning"
    /\ BuildStep(r)
    /\ UNCHANGED <<pc, tool, proc, expired, holder, report, answer, unchangedExceptRun>>

\* A panic ends the handler: what it deferred runs, and net/http, which recovers,
\* closes the connection without an answer.
HandlerPanics(r) ==
    /\ pc[r] = "cleaning"
    /\ Panic(r)
    /\ Return(r, "none")
    /\ UNCHANGED <<proc, report, unchangedExceptRun>>

\* The file names are fixed with the index and the file is written back.
WriteCleaned(r) ==
    /\ pc[r] = "cleaning" /\ IndexBuilt(r)
    /\ \/ /\ Goto(r, "start")
          /\ tool' = [tool EXCEPT ![r] = ReportGenerator]
          /\ UNCHANGED <<cacheVars, expired, holder, answer>>
       \/ Fail(r)
    /\ UNCHANGED <<proc, report, unchangedExceptRun>>

\* Mutant of LastN: one more is kept.
LastNAndOne(s, n) == IF Len(s) > n + 1 THEN SubSeq(s, Len(s) - n, Len(s)) ELSE s

\* Mutant of LastN: the oldest are kept.
FirstN(s, n) == SubSeq(s, 1, IF Len(s) < n THEN Len(s) ELSE n)

LastN(s, n) == IF Len(s) > n THEN SubSeq(s, Len(s) - n + 1, Len(s)) ELSE s

\* recordCoverageResult: without a readable file there is no record.
Record(r) ==
    /\ pc[r] = "record"
    /\ \/ /\ history' = LastN(Append(history, r), maxCoverageHistory)
          /\ UNCHANGED unreadable
       \/ /\ unreadable' = unreadable \cup {r}
          /\ UNCHANGED history
    /\ Goto(r, "reply")
    /\ UNCHANGED <<cacheVars, tool, proc, expired, holder, report, answer, taken, crashes>>

\* http.Redirect to the report.
Reply(r) ==
    /\ pc[r] = "reply"
    /\ Return(r, "redirect")
    /\ DropIndex(r)
    /\ UNCHANGED <<proc, report, unchangedExceptRun>>

HandleCodeCoverage(r) ==
    \/ Refuse(r) \/ Begin(r) \/ StartTool(r) \/ StepFails(r) \/ StepSucceeds(r)
    \/ Clean(r) \/ BuildIndexStep(r) \/ HandlerPanics(r) \/ WriteCleaned(r)
    \/ Record(r) \/ Reply(r)

-----------------------------------------------------------------------------
(* The tools, the context and the admin process.                           *)

\* What a tool leaves of the report.
Reported(r, end) ==
    report' = IF tool[r] = ReportGenerator THEN [report EXCEPT ![r] = end] ELSE report

ToolEnds(r) ==
    /\ proc[r] = "running"
    /\ \/ proc' = [proc EXCEPT ![r] = "ok"] /\ Reported(r, "whole")
       \/ proc' = [proc EXCEPT ![r] = "failed"] /\ Reported(r, "part")
    /\ UNCHANGED <<cacheVars, pc, tool, expired, holder, answer, unchangedExceptRun>>

\* Three minutes have passed or the client has gone away.
ContextDone(r) ==
    /\ pc[r] \notin {"idle", "done"} /\ r \notin expired
    /\ expired' = expired \cup {r}
    /\ UNCHANGED <<cacheVars, pc, tool, proc, holder, report, answer, unchangedExceptRun>>

\* exec.CommandContext kills the process of a context that is done.
Kill(r) ==
    /\ proc[r] = "running" /\ r \in expired
    /\ proc' = [proc EXCEPT ![r] = "killed"]
    /\ Reported(r, "part")
    /\ UNCHANGED <<cacheVars, pc, tool, expired, holder, answer, unchangedExceptRun>>

\* The admin process ends and starts again; clients of the old one get nothing.
Crash ==
    /\ crashes < MaxCrashes
    /\ crashes' = crashes + 1
    /\ LoseCallers
    /\ pc' = [r \in Requests |-> IF pc[r] = "idle" THEN "idle" ELSE "done"]
    /\ proc' = [r \in Requests |-> "none"]
    /\ holder' = Free
    /\ history' = <<>> /\ taken' = {}
    /\ tool' = [r \in Requests |-> Snapshot]
    /\ expired' = {}
    /\ UNCHANGED <<report, answer, unreadable>>

Environment ==
    \/ \E r \in Requests : ToolEnds(r) \/ ContextDone(r) \/ Kill(r)
    \/ Crash

Next == Environment \/ \E r \in Requests : HandleCodeCoverage(r)

Spec == Init /\ [][Next]_vars

\* A handler runs, the limit of three minutes is reached in the end, and a
\* process is killed when its context is done.  A tool may hang.
Fairness ==
    \A r \in Requests : /\ WF_vars(pc[r] # "idle" /\ HandleCodeCoverage(r))
                        /\ WF_vars(ContextDone(r))
                        /\ WF_vars(Kill(r))

FairSpec == Spec /\ Fairness
-----------------------------------------------------------------------------
(* The pages, which change nothing: what they answer now.                  *)

\* handleGetCodeCoverageList over SnapshotCoverageHistory: the newest first.
CodeCoverageList == Reverse(history)

\* handleCodeCoverageReport: the directory is served if it is there.
CodeCoverageReport(r) == IF report[r] = "none" THEN "not found" ELSE report[r]

-----------------------------------------------------------------------------
(* Properties.                                                             *)

Collecting(r) == pc[r] \notin {"idle", "done"}

\* The list shows the latest collections, the newest first, and only those whose
\* report is complete when its link is followed; a collection that was answered
\* with a redirect is on it, unless its file could not be read or as many later
\* ones have pushed it out (appendCoverageHistory, recordCoverageResult).
HistoryIsTheLast ==
    LET list == CodeCoverageList
    IN /\ Len(list) <= maxCoverageHistory
       /\ \A i \in DOMAIN list :
              /\ list[i] \in taken \ unreadable
              /\ CodeCoverageReport(list[i]) = "whole"
              /\ \A j \in 1..(i - 1) : list[j] > list[i]
       /\ \A r \in (taken \ unreadable) \ ToSet(list) :
              answer[r] = "redirect" =>
                  /\ Len(list) = maxCoverageHistory
                  /\ \A i \in DOMAIN list : list[i] > r

\* The client that is redirected finds a complete report, and one that is told
\* of a failure or of another collection has left nothing in the history.
AnsweredTruthfully ==
    \A r \in Requests :
        /\ answer[r] = "redirect" => CodeCoverageReport(r) = "whole"
        /\ answer[r] \in {"failed", "conflict"} => r \notin ToSet(history)
        /\ answer[r] = "conflict" => report[r] = "none"

\* A directory with the marker is never used unfinished, whatever failed or
\* crashed before: and what a request has in its index stays whole until its
\* reportgenerator has read it.
IndexedIsWhole ==
    /\ \A p \in marked : Whole(p)
    /\ \A r \in Requests : Collecting(r) => \A p \in indexed[r] : Whole(p)

\* A collection ends, even if a tool hangs, and gives the lock back.
CollectionEnds ==
    \A r \in Requests : Collecting(r) ~> (pc[r] = "done" /\ holder # r)

=============================================================================
