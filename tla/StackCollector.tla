--------------------------- MODULE StackCollector ---------------------------
(***************************************************************************)
(* collectStackOutput and readPipeChunks of internal/debugadmin/           *)
(* http_server.go, for one request of /stack: netcoredbg is attached to    *)
(* the target, "bt all" is sent once its banner seems to be over (nothing  *)
(* for 100 ms), and all it writes is collected until it ends.              *)
(*                                                                         *)
(* The collector, the goroutine that reads standard output into stdoutCh,  *)
(* the one that reads standard error, the debugger and the context, which  *)
(* ends after 20 s or with the client, proceed independently; AdminPages,  *)
(* where the handler calls it, states their fairness.  Output is a         *)
(* sequence of numbered pieces; netcoredbg has no process of its own that  *)
(* would keep its pipes open.                                              *)
(***************************************************************************)
EXTENDS Integers, Sequences

CONSTANTS ChanCap,     \* capacity of stdoutCh: 32 in the code
          PipeCap,     \* what the pipe holds before a write blocks
          MaxPieces    \* bound: what the debugger writes

ASSUME BoundsAssumption == {ChanCap, PipeCap, MaxPieces} \subseteq Nat \ {0}

VARIABLES
    pc,          \* where collectStackOutput is
    timer,       \* idleTimer
    startup,     \* startupStdout
    all,         \* allStdout
    runErr,      \* runErr is set
    result,      \* what is returned
    ctx,         \* the context
    reader,      \* where readPipeChunks is
    chunk,       \* the chunk it sends
    stdoutCh,
    stdoutErr,   \* the value in stdoutErrCh
    errReader,   \* where the goroutine of standard error is
    debugger,    \* the netcoredbg process
    written,     \* the pieces it has written to standard output
    pipe,        \* those that were not read yet
    closed,      \* cmd.Wait has closed the read ends of the pipes
    asked        \* how many were written before "bt all" was sent, if it was

collectorVars == <<timer, startup, all, runErr, result>>
readerVars == <<reader, chunk, stdoutErr>>
debuggerVars == <<debugger, written, pipe>>
vars == <<pc, collectorVars, ctx, readerVars, stdoutCh, errReader, debuggerVars, closed, asked>>

Alive == debugger \in {"running", "killed"}
Ended == debugger \in {"ok", "failed"}
ctxDone == ctx # "live"

NoResult == [startup |-> <<>>, stack |-> <<>>, err |-> "none"]

Init ==
    /\ pc = "start"
    /\ timer = "armed"
    /\ startup = <<>> /\ all = <<>>
    /\ runErr = FALSE
    /\ result = NoResult
    /\ ctx = "live"
    /\ reader = "none" /\ chunk = <<>>
    /\ stdoutCh = <<>> /\ stdoutErr = "none"
    /\ errReader = "none"
    /\ debugger = "none" /\ written = 0 /\ pipe = <<>>
    /\ closed = FALSE
    /\ asked = MaxPieces

-----------------------------------------------------------------------------
(* collectStackOutput.                                                     *)

\* cmd.Start(), and the two goroutines; or an error, as from the pipes before.
Start ==
    /\ pc = "start"
    /\ \/ /\ ~ctxDone
          /\ debugger' = "running"
          /\ reader' = "read" /\ errReader' = "read"
          /\ pc' = "startup"
          /\ UNCHANGED result
       \/ /\ pc' = "returned"
          /\ result' = [NoResult EXCEPT !.err = "start"]
          /\ UNCHANGED <<debugger, reader, errReader>>
    /\ UNCHANGED <<timer, startup, all, runErr, ctx, chunk, stdoutCh, stdoutErr,
                   written, pipe, closed, asked>>

\* A chunk of the banner; the timer starts anew.
BannerChunk ==
    /\ pc = "startup" /\ stdoutCh # <<>>
    /\ startup' = startup \o Head(stdoutCh)
    /\ all' = all \o Head(stdoutCh)
    /\ stdoutCh' = Tail(stdoutCh)
    /\ timer' = "armed"
    /\ UNCHANGED <<pc, runErr, result, ctx, readerVars, errReader, debuggerVars, closed, asked>>

ChannelClosed == stdoutCh = <<>> /\ reader = "ended"

\* The output has ended before the command: neither it is sent nor stdin closed.
ClosedEarly ==
    /\ pc = "startup" /\ ChannelClosed
    /\ pc' = "drain"
    /\ UNCHANGED <<collectorVars, ctx, readerVars, stdoutCh, errReader, debuggerVars, closed, asked>>

\* case <-idleTimer.C
Idle ==
    /\ pc = "startup" /\ timer = "fired"
    /\ pc' = "command"
    /\ timer' = "stopped"
    /\ UNCHANGED <<startup, all, runErr, result, ctx, readerVars, stdoutCh, errReader,
                   debuggerVars, closed, asked>>

\* Mutant of GiveUp: the debugger is left to the context.
GiveUpAtOnce ==
    /\ pc = "startup" /\ ctxDone
    /\ pc' = "giveUpStderr"
    /\ UNCHANGED <<collectorVars, ctx, readerVars, stdoutCh, errReader, debuggerVars, closed, asked>>

\* case <-ctx.Done(): the debugger is killed, and waited for in WaitKilled.
GiveUp ==
    /\ pc = "startup" /\ ctxDone
    /\ debugger' = IF debugger = "running" THEN "killed" ELSE debugger
    /\ pc' = "giveUp"
    /\ UNCHANGED <<collectorVars, ctx, readerVars, stdoutCh, errReader, written, pipe, closed, asked>>

WaitKilled ==
    /\ pc = "giveUp" /\ Ended
    /\ closed' = TRUE
    /\ pc' = "giveUpStderr"
    /\ UNCHANGED <<collectorVars, ctx, readerVars, stdoutCh, errReader, debuggerVars, asked>>

\* ctx.Err() is returned with what was read of the banner.
ReturnGivenUp ==
    /\ pc = "giveUpStderr" /\ errReader = "sent"
    /\ result' = [startup |-> startup, stack |-> <<>>, err |-> ctx]
    /\ pc' = "returned"
    /\ UNCHANGED <<timer, startup, all, runErr, ctx, readerVars, stdoutCh, errReader,
                   debuggerVars, closed, asked>>

\* io.WriteString to stdin, which fails when nobody reads it any more.
SendCommand ==
    /\ pc = "command"
    /\ \/ Alive /\ UNCHANGED runErr
       \/ runErr' = TRUE
    /\ asked' = written
    /\ pc' = "close"
    /\ UNCHANGED <<timer, startup, all, result, ctx, readerVars, stdoutCh, errReader,
                   debuggerVars, closed>>

CloseStdin ==
    /\ pc = "close"
    /\ runErr' \in {runErr, TRUE}
    /\ pc' = "drain"
    /\ UNCHANGED <<timer, startup, all, result, ctx, readerVars, stdoutCh, errReader,
                   debuggerVars, closed, asked>>

\* for chunk := range stdoutCh
Drain ==
    /\ pc = "drain"
    /\ \/ /\ stdoutCh # <<>>
          /\ all' = all \o Head(stdoutCh)
          /\ stdoutCh' = Tail(stdoutCh)
          /\ UNCHANGED pc
       \/ /\ ChannelClosed
          /\ pc' = "wait"
          /\ UNCHANGED <<all, stdoutCh>>
    /\ UNCHANGED <<timer, startup, runErr, result, ctx, readerVars, errReader,
                   debuggerVars, closed, asked>>

\* <-stdoutErrCh and cmd.Wait(), which closes the pipes.  It reports the status
\* of the debugger, or the context that killed it as it ended.
Wait ==
    /\ pc = "wait" /\ Ended
    /\ closed' = TRUE
    /\ \/ runErr' = (runErr \/ stdoutErr \in {"expired", "closed"} \/ debugger = "failed")
       \/ ctxDone /\ runErr' = TRUE
    /\ pc' = "stderr"
    /\ UNCHANGED <<timer, startup, all, result, ctx, readerVars, stdoutCh, errReader,
                   debuggerVars, asked>>

\* What comes after the banner is the answer.
Return ==
    /\ pc = "stderr" /\ errReader = "sent"
    /\ result' = [startup |-> startup,
                  stack |-> SubSeq(all, Len(startup) + 1, Len(all)),
                  err |-> IF runErr THEN "run" ELSE "nil"]
    /\ pc' = "returned"
    /\ UNCHANGED <<timer, startup, all, runErr, ctx, readerVars, stdoutCh, errReader,
                   debuggerVars, closed, asked>>

CollectStackOutput ==
    \/ Start \/ BannerChunk \/ ClosedEarly \/ Idle \/ GiveUp \/ WaitKilled \/ ReturnGivenUp
    \/ SendCommand \/ CloseStdin \/ Drain \/ Wait \/ Return

-----------------------------------------------------------------------------
(* The goroutines.                                                         *)

unchangedByReader == <<pc, collectorVars, ctx, errReader, closed, asked>>

\* pipe.Read returns what there is, at most as much as the buffer holds.
ReadChunk ==
    /\ reader = "read" /\ pipe # <<>> /\ ~closed
    /\ \E n \in 1..Len(pipe) : /\ chunk' = SubSeq(pipe, 1, n)
                               /\ pipe' = SubSeq(pipe, n + 1, Len(pipe))
    /\ reader' = "send"
    /\ UNCHANGED <<unchangedByReader, stdoutErr, stdoutCh, debugger, written>>

\* The end of the output, or an error, ends the goroutine and closes stdoutCh.
ReadEnd ==
    /\ reader = "read"
    /\ \/ closed /\ stdoutErr' = "closed"
       \/ ~closed /\ pipe = <<>> /\ Ended /\ stdoutErr' = "nil"
    /\ reader' = "ended"
    /\ UNCHANGED <<unchangedByReader, chunk, stdoutCh, debuggerVars>>

SendChunk ==
    /\ reader = "send" /\ Len(stdoutCh) < ChanCap
    /\ stdoutCh' = Append(stdoutCh, chunk)
    /\ chunk' = <<>>
    /\ reader' = "read"
    /\ UNCHANGED <<unchangedByReader, stdoutErr, debuggerVars>>

\* Mutant of SendDone: a chunk for which there is no room is dropped.
SendDoneOrFull ==
    /\ reader = "send" /\ (ctxDone \/ Len(stdoutCh) = ChanCap)
    /\ reader' = IF ctxDone THEN "ended" ELSE "read"
    /\ stdoutErr' = IF ctxDone THEN ctx ELSE stdoutErr
    /\ chunk' = <<>>
    /\ UNCHANGED <<unchangedByReader, stdoutCh, debuggerVars>>

\* Mutant of SendDone: the chunk is sent without a look at the context.
SendOnly == SendChunk

\* Nobody may be left to take the chunk: the context ends the goroutine.
SendDone ==
    /\ reader = "send" /\ ctxDone
    /\ reader' = "ended"
    /\ stdoutErr' = ctx
    /\ chunk' = <<>>
    /\ UNCHANGED <<unchangedByReader, stdoutCh, debuggerVars>>

ReadPipeChunks == ReadChunk \/ ReadEnd \/ SendChunk \/ SendDone

\* io.ReadAll of standard error ends with the debugger.
ReadStderr ==
    /\ errReader = "read" /\ (Ended \/ closed)
    /\ errReader' = "sent"
    /\ UNCHANGED <<pc, collectorVars, ctx, readerVars, stdoutCh, debuggerVars, closed, asked>>

-----------------------------------------------------------------------------
(* The debugger, the timer and the context.                                *)

unchangedByEnvironment == <<pc, startup, all, runErr, result, readerVars, stdoutCh, errReader,
                            closed, asked>>

DebuggerWrites ==
    /\ debugger = "running"
    /\ written < MaxPieces /\ Len(pipe) < PipeCap
    /\ written' = written + 1
    /\ pipe' = Append(pipe, written + 1)
    /\ UNCHANGED <<unchangedByEnvironment, timer, ctx, debugger>>

\* It ends by itself, well or not, or because it was killed.
DebuggerEnds ==
    /\ Alive
    /\ debugger' \in {"failed"} \cup (IF debugger = "running" THEN {"ok"} ELSE {})
    /\ UNCHANGED <<unchangedByEnvironment, timer, ctx, written, pipe>>

\* exec.CommandContext kills it when the context is done.
ContextKills ==
    /\ debugger = "running" /\ ctxDone
    /\ debugger' = "killed"
    /\ UNCHANGED <<unchangedByEnvironment, timer, ctx, written, pipe>>

TimerFires ==
    /\ pc = "startup" /\ timer = "armed"
    /\ timer' = "fired"
    /\ UNCHANGED <<unchangedByEnvironment, ctx, debuggerVars>>

\* The client goes away, or 20 s have passed.
ContextDone ==
    /\ pc # "returned" /\ ~ctxDone
    /\ ctx' \in {"canceled", "expired"}
    /\ UNCHANGED <<unchangedByEnvironment, timer, debuggerVars>>

Environment == DebuggerWrites \/ DebuggerEnds \/ ContextKills \/ TimerFires \/ ContextDone

Next == CollectStackOutput \/ ReadPipeChunks \/ ReadStderr \/ Environment

Spec == Init /\ [][Next]_vars

-----------------------------------------------------------------------------
(* Properties.                                                             *)

\* What is shown is a part of what the debugger wrote, in its order and from
\* the beginning; it is all of it when no error is shown with it and the client
\* is there to see it; and nothing that was written after "bt all" is taken for
\* the banner.
OutputIsWhole ==
    LET shown == result.startup \o result.stack
    IN  /\ \A i \in 1..Len(shown) : shown[i] = i
        /\ result.err = "nil" /\ ctx # "canceled" => Len(shown) = written
        /\ Len(startup) <= asked

\* collectStackOutput does not return while the debugger is attached to the
\* target, and not before cmd.Wait has freed the process and the pipes.
DebuggerIsReaped ==
    pc = "returned" => \/ debugger = "none"
                       \/ Ended /\ closed

=============================================================================
