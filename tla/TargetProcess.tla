--------------------------- MODULE TargetProcess ---------------------------
(***************************************************************************)
(* internal/debugadmin/target_process.go: one run of the target program,   *)
(* from cmd.Start to the report on Done().                                 *)
(*                                                                         *)
(* Three goroutines belong to a run: consumeOutput for each of the two     *)
(* pipes, and waitForExit.  Around them stand the program (which may leave *)
(* a descendant behind that holds the pipes open), the kernel's pipes, and *)
(* the vector process, which reads its standard input at its own pace or   *)
(* not at all, and may die.                                                *)
(*                                                                         *)
(* A line is <<s, n>>, the n-th line of stream s.                          *)
(***************************************************************************)
EXTENDS Integers, Sequences, FiniteSets

CONSTANTS MaxLines,      \* bound: MaxLines[s], the lines the program writes on s
          PipeCap,       \* lines that fit one of the program's pipes
          VectorCap,     \* lines that fit vector's standard input
          MaxRecent      \* maxRecentLogLines

Streams == {"stdout", "stderr"}

ASSUME BoundsAssumption ==
    /\ MaxLines \in [Streams -> Nat]
    /\ PipeCap \in Nat \ {0} /\ VectorCap \in Nat \ {0}
    /\ MaxRecent \in Nat \ {0}

Line == Streams \X Nat
\* What is broadcast besides lines.
Notices == {"targetExited", "logStreamError", "vectorWriteFailed"}
Outcomes == {"clean", "failed"}
NoOne == "nobody"
NoRecord == [outcome |-> "running", lastLogs |-> <<>>]

VARIABLES
    proc,           \* the program: "running", "orphaned" (it has ended but a
                    \* descendant still holds the pipes), "ended"
    outcome,        \* what cmd.Wait returns: nil ("clean") or an error
    written,        \* written[s]: lines written on s
    pipe,           \* pipe[s]: what is in the pipe of s
    readEnd,        \* readEnd[s]: the admin's end of it is open
    cpc,            \* where consumeOutput(s) is
    scanned,        \* scanned[s]: the lines in its scanner's buffer
    lineWriterMu,   \* who holds lineWriterMu
    lineWriteDead,
    vector,         \* "none" (no -log.push.url), "up", "down"
    shipped,        \* shipped[s]: the lines of s written to vector's standard input
    vectorRead,     \* how many lines vector has read from there
    recentLines,
    streamed,       \* streamed[s]: the lines of s that were broadcast
    notices,        \* notices[k]: how many notices k were broadcast
    wpc,            \* where waitForExit is
    record,         \* the RunRecord added to the history
    reported        \* what was sent on done

program == <<proc, outcome, written>>
vectorVars == <<lineWriterMu, lineWriteDead, vector, shipped, vectorRead>>
brokerVars == <<streamed, notices>>
waitVars == <<wpc, record, reported>>
vars == <<proc, outcome, written, pipe, readEnd, cpc, scanned, lineWriterMu,
          lineWriteDead, vector, shipped, vectorRead, recentLines, streamed,
          notices, wpc, record, reported>>

\* The lines that wait in vector's standard input.
Unread == Len(shipped["stdout"]) + Len(shipped["stderr"]) - vectorRead

Init ==
    /\ proc = "running" /\ outcome = "running"
    /\ written = [s \in Streams |-> 0]
    /\ pipe = [s \in Streams |-> <<>>]
    /\ readEnd = [s \in Streams |-> TRUE]
    /\ cpc = [s \in Streams |-> "scan"]
    /\ scanned = [s \in Streams |-> <<>>]
    /\ lineWriterMu = NoOne /\ lineWriteDead = FALSE
    /\ vector \in {"none", "up"}
    /\ shipped = [s \in Streams |-> <<>>] /\ vectorRead = 0
    /\ recentLines = <<>>
    /\ streamed = [s \in Streams |-> <<>>]
    /\ notices = [k \in Notices |-> 0]
    /\ wpc = "wait" /\ record = NoRecord /\ reported = "running"

-----------------------------------------------------------------------------
(* The program and vector.                                                 *)

\* The program, or what it left behind, writes a line; it blocks while the
\* pipe is full, and a write to a pipe nobody reads is lost.
Write(s) ==
    /\ proc # "ended" /\ written[s] < MaxLines[s]
    /\ readEnd[s] /\ Len(pipe[s]) < PipeCap
    /\ written' = [written EXCEPT ![s] = @ + 1]
    /\ pipe' = [pipe EXCEPT ![s] = Append(@, <<s, written[s] + 1>>)]
    /\ UNCHANGED <<proc, outcome, readEnd, cpc, scanned, vectorVars, recentLines,
                   brokerVars, waitVars>>

\* The program ends.
End ==
    /\ proc = "running"
    /\ proc' \in {"orphaned", "ended"}
    /\ outcome' \in Outcomes
    /\ UNCHANGED <<written, pipe, readEnd, cpc, scanned, vectorVars, recentLines,
                   brokerVars, waitVars>>

\* The last descendant that holds the pipes ends.
DescendantsEnd ==
    /\ proc = "orphaned"
    /\ proc' = "ended"
    /\ UNCHANGED <<outcome, written, pipe, readEnd, cpc, scanned, vectorVars, recentLines,
                   brokerVars, waitVars>>

VectorReads ==
    /\ vector = "up" /\ Unread > 0
    /\ vectorRead' = vectorRead + 1
    /\ UNCHANGED <<program, pipe, readEnd, cpc, scanned, lineWriterMu, lineWriteDead, vector,
                   shipped, recentLines, brokerVars, waitVars>>

\* Vector dies, or Run closes its standard input: writes fail from now on.
VectorEnds ==
    /\ vector = "up"
    /\ vector' = "down"
    /\ UNCHANGED <<program, pipe, readEnd, cpc, scanned, lineWriterMu, lineWriteDead,
                   shipped, vectorRead, recentLines, brokerVars, waitVars>>

-----------------------------------------------------------------------------
(* consumeOutput.                                                          *)

Notify(k) == notices' = [notices EXCEPT ![k] = @ + 1]

\* Mutant of Read: the read comes before the last line was taken.
ReadOver(s) ==
    /\ cpc[s] = "scan"
    /\ readEnd[s] /\ pipe[s] # <<>>
    /\ scanned' = [scanned EXCEPT ![s] = pipe[s]]
    /\ pipe' = [pipe EXCEPT ![s] = <<>>]
    /\ UNCHANGED <<program, readEnd, cpc, vectorVars, recentLines, brokerVars, waitVars>>

\* The scanner's buffer is empty: one read brings in what is there.
Read(s) ==
    /\ cpc[s] = "scan" /\ scanned[s] = <<>>
    /\ readEnd[s] /\ pipe[s] # <<>>
    /\ scanned' = [scanned EXCEPT ![s] = pipe[s]]
    /\ pipe' = [pipe EXCEPT ![s] = <<>>]
    /\ UNCHANGED <<program, readEnd, cpc, vectorVars, recentLines, brokerVars, waitVars>>

\* scanner.Scan() yields a line: it is broadcast (and echoed).
BroadcastLine(s) ==
    /\ cpc[s] = "scan" /\ scanned[s] # <<>>
    /\ streamed' = [streamed EXCEPT ![s] = Append(@, Head(scanned[s]))]
    /\ cpc' = [cpc EXCEPT ![s] = "vector"]
    /\ UNCHANGED <<notices, program, pipe, readEnd, scanned, vectorVars, recentLines, waitVars>>

\* writeLineToVector: there is no vector, or it has failed before.
SkipVector(s) ==
    /\ cpc[s] = "vector" /\ lineWriterMu = NoOne
    /\ vector = "none" \/ lineWriteDead
    /\ cpc' = [cpc EXCEPT ![s] = "record"]
    /\ UNCHANGED <<program, pipe, readEnd, scanned, vectorVars, recentLines, brokerVars, waitVars>>

\* Mutant of StartVectorWrite: the flag is read, the lock is not taken.
StartVectorWriteUnlocked(s) ==
    /\ cpc[s] = "vector"
    /\ vector # "none" /\ ~lineWriteDead
    /\ cpc' = [cpc EXCEPT ![s] = "writing"]
    /\ UNCHANGED <<program, pipe, readEnd, scanned, vectorVars, recentLines, brokerVars, waitVars>>

\* writeLineToVector: the lock is held over the write, which may block.
StartVectorWrite(s) ==
    /\ cpc[s] = "vector" /\ lineWriterMu = NoOne
    /\ vector # "none" /\ ~lineWriteDead
    /\ lineWriterMu' = s
    /\ cpc' = [cpc EXCEPT ![s] = "writing"]
    /\ UNCHANGED <<program, pipe, readEnd, scanned, lineWriteDead, vector, shipped,
                   vectorRead, recentLines, brokerVars, waitVars>>

\* The write returns: done once there is room, failed once vector is down.
EndVectorWrite(s) ==
    /\ cpc[s] = "writing"
    /\ \/ /\ vector = "up" /\ Unread < VectorCap
          /\ shipped' = [shipped EXCEPT ![s] = Append(@, Head(scanned[s]))]
          /\ UNCHANGED <<lineWriteDead, notices>>
       \/ /\ vector = "down"
          /\ lineWriteDead' = TRUE
          /\ Notify("vectorWriteFailed")
          /\ UNCHANGED shipped
    /\ lineWriterMu' = NoOne
    /\ cpc' = [cpc EXCEPT ![s] = "record"]
    /\ UNCHANGED <<program, pipe, readEnd, scanned, vector, vectorRead, recentLines, streamed,
                   waitVars>>

\* Mutant of LastN: once it is full the list keeps what it has.
FirstN(q, n) == IF Len(q) > n THEN SubSeq(q, 1, n) ELSE q

\* Mutant of LastN: one line too many stays.
LastNAndOne(q, n) == IF Len(q) > n + 1 THEN SubSeq(q, Len(q) - n, Len(q)) ELSE q

\* The last n elements of q, or all of them.
LastN(q, n) == IF Len(q) > n THEN SubSeq(q, Len(q) - n + 1, Len(q)) ELSE q

RecordRecentLine(s) ==
    /\ cpc[s] = "record"
    /\ recentLines' = LastN(Append(recentLines, Head(scanned[s])), MaxRecent)
    /\ scanned' = [scanned EXCEPT ![s] = Tail(@)]
    /\ cpc' = [cpc EXCEPT ![s] = "scan"]
    /\ UNCHANGED <<program, pipe, readEnd, vectorVars, brokerVars, waitVars>>

\* The pipe is at its end: the goroutine closes it and returns.
EndOfFile(s) ==
    /\ cpc[s] = "scan" /\ scanned[s] = <<>> /\ readEnd[s]
    /\ pipe[s] = <<>> /\ proc = "ended"
    /\ readEnd' = [readEnd EXCEPT ![s] = FALSE]
    /\ cpc' = [cpc EXCEPT ![s] = "done"]
    /\ UNCHANGED <<program, pipe, scanned, vectorVars, recentLines, brokerVars, waitVars>>

\* The read fails because cmd.Wait has closed the pipe, or the scanner refuses
\* the line because it is longer than 1 MiB, as any line may be.
ScanError(s) ==
    /\ cpc[s] = "scan"
    /\ scanned[s] # <<>> \/ ~readEnd[s]
    /\ cpc' = [cpc EXCEPT ![s] = "error"]
    /\ UNCHANGED <<program, pipe, readEnd, scanned, vectorVars, recentLines, brokerVars, waitVars>>

\* The error is broadcast, and the deferred Close gives up the pipe.
AbandonStream(s) ==
    /\ cpc[s] = "error"
    /\ Notify("logStreamError")
    /\ readEnd' = [readEnd EXCEPT ![s] = FALSE]
    /\ cpc' = [cpc EXCEPT ![s] = "done"]
    /\ UNCHANGED <<streamed, program, pipe, scanned, vectorVars, recentLines, waitVars>>

-----------------------------------------------------------------------------
(* waitForExit.                                                            *)

\* Mutant of Wait: the read ends are left to the consumers.
WaitLeavingPipes ==
    /\ wpc = "wait" /\ proc # "running"
    /\ wpc' = "announce"
    /\ UNCHANGED <<program, pipe, readEnd, cpc, scanned, vectorVars, recentLines, brokerVars,
                   record, reported>>

\* cmd.Wait() returns as soon as the program has ended, and closes the read
\* ends of both pipes on its way out.
Wait ==
    /\ wpc = "wait" /\ proc # "running"
    /\ readEnd' = [s \in Streams |-> FALSE]
    /\ wpc' = "announce"
    /\ UNCHANGED <<program, pipe, cpc, scanned, vectorVars, recentLines, brokerVars, record, reported>>

AnnounceExit ==
    /\ wpc = "announce"
    /\ Notify("targetExited")
    /\ wpc' = "history"
    /\ UNCHANGED <<program, pipe, readEnd, cpc, scanned, vectorVars, recentLines, streamed, record, reported>>

\* Mutant of AddRecord: recentLines shares the lock of the vector writer.
AddRecordUnderLineWriterMu ==
    /\ wpc = "history" /\ lineWriterMu = NoOne
    /\ record' = [outcome |-> outcome, lastLogs |-> recentLines]
    /\ wpc' = "report"
    /\ UNCHANGED <<program, pipe, readEnd, cpc, scanned, vectorVars, recentLines, brokerVars, reported>>

\* The exit is classified and recorded with the recent lines (Supervisor has
\* what else the record says).
AddRecord ==
    /\ wpc = "history"
    /\ record' = [outcome |-> outcome, lastLogs |-> recentLines]
    /\ wpc' = "report"
    /\ UNCHANGED <<program, pipe, readEnd, cpc, scanned, vectorVars, recentLines, brokerVars, reported>>

ReportDone ==
    /\ wpc = "report"
    /\ reported' = outcome
    /\ wpc' = "returned"
    /\ UNCHANGED <<program, pipe, readEnd, cpc, scanned, vectorVars, recentLines, brokerVars, record>>

-----------------------------------------------------------------------------
ConsumeOutput(s) ==
    \/ Read(s) \/ BroadcastLine(s) \/ SkipVector(s) \/ StartVectorWrite(s) \/ EndVectorWrite(s)
    \/ RecordRecentLine(s) \/ EndOfFile(s) \/ ScanError(s) \/ AbandonStream(s)

WaitForExit == Wait \/ AnnounceExit \/ AddRecord \/ ReportDone

Environment == End \/ DescendantsEnd \/ VectorReads \/ VectorEnds \/ \E s \in Streams : Write(s)

Next == WaitForExit \/ Environment \/ \E s \in Streams : ConsumeOutput(s)

Spec == Init /\ [][Next]_vars

\* The goroutines of the run are scheduled fairly, and lineWriterMu is handed
\* over in the end (sync.Mutex does not starve a waiter).  Nothing is assumed
\* of the program or of vector.
Fairness ==
    /\ WF_vars(WaitForExit)
    /\ \A s \in Streams : /\ WF_vars(ConsumeOutput(s))
                          /\ SF_vars(SkipVector(s) \/ StartVectorWrite(s))

FairSpec == Spec /\ Fairness
-----------------------------------------------------------------------------
(* Properties.                                                             *)

\* Where q holds lines of the stream of its i-th line after that one.
Later(q, i) == {j \in i + 1..Len(q) : q[j][1] = q[i][1]}

\* Lines m to n of stream s.
Lines(s, m, n) == [i \in 1..(n - m + 1) |-> <<s, m + i - 1>>]

\* The line at the head of the scanner's buffer is on its way to the sinks.
HeadIsOut(s) == cpc[s] \in {"vector", "writing", "record"}

\* How many lines of s have been recorded.
Recorded(s) == Len(streamed[s]) - (IF HeadIsOut(s) THEN 1 ELSE 0)

\* What the program writes on a stream is broadcast in order, without a gap
\* and without repetition: whatever is missing from the log stream is still
\* in the scanner or in the pipe, or the end of what was written there.
StreamIntact ==
    \A s \in Streams :
        streamed[s] \o (IF HeadIsOut(s) THEN Tail(scanned[s]) ELSE scanned[s])
            \o pipe[s] = Lines(s, 1, written[s])

\* The two consumers share recentLines.  It is always the end of what they
\* recorded: each stream's part is a window that ends with the last line
\* recorded for that stream (the line after which k more lines of its stream
\* follow is the k-th before that one), and the whole is as long as MaxRecent
\* allows.
RecentIsWindow ==
    /\ \A i \in 1..Len(recentLines) :
           LET s == recentLines[i][1]
           IN recentLines[i] = <<s, Recorded(s) - Cardinality(Later(recentLines, i))>>
    /\ LET all == Recorded("stdout") + Recorded("stderr")
       IN Len(recentLines) = IF all > MaxRecent THEN MaxRecent ELSE all

\* Vector gets every stream from its first line on without a gap for as long
\* as it lives, and its failure is announced once, after which neither of the
\* consumers writes to it again.
VectorGapless ==
    /\ \A s \in Streams :
           /\ shipped[s] = Lines(s, 1, Len(shipped[s]))
           /\ vector = "up" => Len(shipped[s]) >= Recorded(s)
    /\ notices["vectorWriteFailed"] = (IF lineWriteDead THEN 1 ELSE 0)

\* The run goes through TargetRun: its end is entered in the history before it
\* is reported, once each and with the outcome of cmd.Wait.  Both happen
\* whatever vector, the readers of the pipes and the descendants do.
Run == INSTANCE TargetRun WITH
    Pending <- "running", recorded <- record.outcome

ImplementsTargetRun == Run!Spec

\* Vector's standard input is full and vector does not read.
VectorStalled == vector = "up" /\ Unread = VectorCap

\* Once the program has ended both consumers return, unless vector stalls for
\* ever: not even a descendant that keeps the pipes open leaks them.
ConsumersReturn ==
    []<>~VectorStalled => \A s \in Streams : proc # "running" ~> cpc[s] = "done"

\* The comments of maxRecentLogLines and of buildRunHistoryRows: the record
\* holds the last lines the target wrote before it ended.
LastLogsAreTheLast ==
    record # NoRecord /\ proc = "ended" =>
        \A s \in Streams :
            written[s] > 0 => \E i \in 1..Len(record.lastLogs) :
                                  record.lastLogs[i] = <<s, written[s]>>
=============================================================================
