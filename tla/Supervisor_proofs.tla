-------------------------- MODULE Supervisor_proofs --------------------------
(***************************************************************************)
(* The safety properties of Supervisor hold for every number of runs and   *)
(* every clock.  The invariant says, for each place in Run, which runs     *)
(* there are and how far the waitForExit goroutine of each has come.       *)
(***************************************************************************)
EXTENDS Supervisor, TLAPS

\* The runs that were started are those up to target; all but the last have
\* been recorded and reported, and the goroutine of a run is not ahead of its
\* program.
RunsInv ==
    /\ target = started
    /\ \A g \in RunID :
           /\ wpc[g] = "none" <=> g > started
           /\ g > started => outcome[g] = Pending
           /\ g < started => wpc[g] = "returned"
           /\ wpc[g] \in {"history", "report", "returned"} => outcome[g] # Pending
           /\ g \in closed <=> wpc[g] = "returned"
           /\ doneCh[g] # Pending => doneCh[g] = outcome[g] /\ wpc[g] = "returned"

\* The history has a record of every run whose goroutine has added it.
HistoryInv ==
    /\ Len(history) \in 0..MaxRuns
    /\ \A g \in RunID : wpc[g] \in {"report", "returned"} <=> g <= Len(history)
    /\ \A i \in 1..Len(history) : history[i].run = i /\ history[i].outcome = outcome[i]

\* What Run knows of the last run.
ControlInv ==
    /\ pc \in {"init", "launch"} => started = 0
    /\ pc \in {"listen", "select", "restart", "setTarget", "shutdown", "drain"} => started > 0
    /\ pc \in {"listen", "select", "setTarget"} /\ started > 0 /\ wpc[started] = "returned"
           => doneCh[started] = outcome[started]
    /\ pc = "restart" \/ why = "restartFailed" =>
           /\ started > 0 /\ options.autoRestart
           /\ wpc[started] = "returned" /\ outcome[started] = "failed"
    /\ pc \in {"init", "launch", "listen", "select", "restart", "setTarget"} <=> why = "notYet"
    /\ why \in {"usage", "startFailed"} => started = 0
    /\ why = "finishedClean" =>
           started > 0 /\ wpc[started] = "returned" /\ outcome[started] = "clean"
    /\ why = "finishedFailed" =>
           /\ started > 0 /\ ~options.autoRestart
           /\ wpc[started] = "returned" /\ outcome[started] = "failed"
    /\ why # "serverClosed"
    /\ pc \in {"shutdown", "drain"} =>
           why \in {"finishedClean", "finishedFailed", "restartFailed"}

\* What Run knows of the HTTP server and of vector.
OutsideInv ==
    /\ pc \in {"init", "launch", "listen"} => server = "none"
    /\ pc \in {"select", "restart", "setTarget"} =>
           server \in {"listening", "returned"} /\ serverErrCh # "closed"
    /\ pc = "shutdown" => server \in {"listening", "returned"} /\ serverErrCh # "closed"
    /\ server = "none" => serverErrCh = "empty"
    /\ server = "listening" => serverErrCh = "empty"
    /\ server # "none" =>
           /\ started > 0
           /\ handlerTarget = IF pc = "setTarget" THEN target - 1 ELSE target
    /\ pc = "setTarget" => started > 1
    /\ pc = "init" => vector = "none"
    /\ vector = "closing" => pc = "stopVector"
    /\ vector = "killed" => pc = "waitVector"
    /\ pc = "stopVector" => vector \in {"closing", "dead"}
    /\ pc = "waitVector" => vector \in {"killed", "dead"}
    /\ pc = "exited" => vector \in {"none", "dead"}

\* A file of gdb commands belongs to a run whose goroutine waits for its program,
\* or to a start that failed, after which there is no other.
ScriptsInv ==
    /\ \A s \in scripts : \/ s \in RunID /\ s <= started /\ wpc[s] = "wait"
                          \/ s = started + 1 /\ why \in {"startFailed", "restartFailed"}
    /\ options.mode = "gdb" => \A g \in RunID : wpc[g] = "wait" => g \in scripts

IInv == TypeOK /\ RunsInv /\ HistoryInv /\ ControlInv /\ OutsideInv /\ ScriptsInv
-----------------------------------------------------------------------------
(* Proofs.                                                                 *)

\* The initial states satisfy the invariant.
LEMMA InitIInv == Init => IInv
<1> SUFFICES ASSUME Init PROVE IInv
  OBVIOUS
<1> USE MaxRunsAssumption, MaxTimeAssumption DEF Init, RunID
<1>1. TypeOK
  BY DEF TypeOK, Outcomes, Record, Options, Pending, NoRun
<1>2. RunsInv
  BY DEF RunsInv, NoRun
<1>3. HistoryInv
  BY DEF HistoryInv
<1>4. ControlInv
  BY DEF ControlInv
<1>5. OutsideInv
  BY DEF OutsideInv
<1>6. ScriptsInv
  BY DEF ScriptsInv
<1> QED
  BY <1>1, <1>2, <1>3, <1>4, <1>5, <1>6 DEF IInv

\* A run is started after the one before it was reported.
LEMMA StartTargetStep ==
    ASSUME TypeOK, RunsInv, HistoryInv, ScriptsInv, StartTarget, target' = started',
           UNCHANGED <<options, why, outcome, doneCh, closed, history>>, why = "notYet",
           started > 0 => wpc[started] = "returned"
    PROVE  /\ started' \in RunID /\ started' = started + 1
           /\ wpc' \in [RunID -> {"none", "wait", "history", "report", "returned"}]
           /\ gdbLogPath' \in [RunID -> 0..MaxTime]
           /\ scripts' \subseteq 1..(MaxRuns + 1)
           /\ RunsInv' /\ HistoryInv' /\ ScriptsInv'
<1> USE MaxRunsAssumption, MaxTimeAssumption
<1>1. started \in Nat /\ started' = started + 1 /\ started' \in RunID
  BY DEF TypeOK, StartTarget, RunID
<1>2. wpc' \in [RunID -> {"none", "wait", "history", "report", "returned"}]
  BY <1>1 DEF TypeOK, StartTarget
<1>3. gdbLogPath' \in [RunID -> 0..MaxTime]
  BY <1>1 DEF TypeOK, StartTarget
<1>4. \A g \in RunID : wpc'[g] = IF g = started' THEN "wait" ELSE wpc[g]
  BY <1>1 DEF TypeOK, StartTarget
<1>5. wpc[started'] = "none" /\ outcome[started'] = Pending
  BY <1>1 DEF RunsInv, RunID
<1>6. RunsInv'
  <2> SUFFICES ASSUME NEW g \in RunID
               PROVE  /\ wpc'[g] = "none" <=> g > started'
                      /\ g > started' => outcome'[g] = Pending
                      /\ g < started' => wpc'[g] = "returned"
                      /\ wpc'[g] \in {"history", "report", "returned"} => outcome'[g] # Pending
                      /\ g \in closed' <=> wpc'[g] = "returned"
                      /\ doneCh'[g] # Pending => doneCh'[g] = outcome'[g] /\ wpc'[g] = "returned"
    BY DEF RunsInv
  <2>1. CASE g = started'
    BY <1>1, <1>4, <1>5, <2>1 DEF RunsInv, RunID
  <2>2. CASE g # started'
    BY <1>1, <1>4, <2>2 DEF RunsInv, RunID
  <2> QED
    BY <2>1, <2>2
<1>7. HistoryInv'
  <2>1. \A g \in RunID : wpc'[g] \in {"report", "returned"} <=> wpc[g] \in {"report", "returned"}
    BY <1>4, <1>5
  <2> QED
    BY <2>1 DEF HistoryInv
<1>8. scripts' \subseteq 1..(MaxRuns + 1)
  BY <1>1 DEF TypeOK, StartTarget, WithScript, RunID
<1>9. ScriptsInv'
  BY <1>1, <1>4, <1>5 DEF ScriptsInv, StartTarget, WithScript, RunID
<1> QED
  BY <1>1, <1>2, <1>3, <1>6, <1>7, <1>8, <1>9

\* A start that fails leaves no file but its own.
LEMMA StartTargetFailsStep ==
    ASSUME TypeOK, ScriptsInv, StartTargetFails, why = "notYet",
           why' \in {"startFailed", "restartFailed"}, UNCHANGED options
    PROVE  scripts' \subseteq 1..(MaxRuns + 1) /\ ScriptsInv'
<1> USE MaxRunsAssumption DEF TypeOK, StartTargetFails, WithScript
<1>1. scripts' \subseteq 1..(MaxRuns + 1)
  OBVIOUS
<1>2. \A s \in scripts' : s \in scripts \/ s = started' + 1
  OBVIOUS
<1>3. \A g \in RunID : g \in scripts => g \in scripts'
  OBVIOUS
<1>4. ScriptsInv'
  BY <1>2, <1>3 DEF ScriptsInv
<1> QED
  BY <1>1, <1>4

\* The steps of Run preserve it.
LEMMA RunStepIInv == IInv /\ RunStep => IInv'
<1> SUFFICES ASSUME IInv, RunStep PROVE IInv'
  OBVIOUS
<1> USE MaxRunsAssumption, MaxTimeAssumption DEF IInv
<1>1. CASE Begin
  <2>1. TypeOK'
    BY <1>1 DEF TypeOK, Begin, runVars, serverVars, gdbVars
  <2>2. RunsInv'
    BY <1>1 DEF TypeOK, RunsInv, ControlInv, RunID, Pending, Begin, runVars, serverVars, gdbVars
  <2>3. HistoryInv'
    BY <1>1 DEF TypeOK, RunsInv, HistoryInv, RunID, Begin, runVars, serverVars, gdbVars
  <2>4. ControlInv'
    BY <1>1 DEF TypeOK, RunsInv, ControlInv, OutsideInv, RunID, Pending, Begin, runVars, serverVars, gdbVars
  <2>5. OutsideInv'
    BY <1>1 DEF TypeOK, RunsInv, ControlInv, OutsideInv, RunID, Begin, runVars, serverVars, gdbVars
  <2>6. ScriptsInv'
    BY <1>1 DEF TypeOK, RunsInv, ControlInv, ScriptsInv, RunID, Begin, runVars, serverVars, gdbVars
  <2> QED
    BY <2>1, <2>2, <2>3, <2>4, <2>5, <2>6 DEF IInv
<1>2. CASE Launch
  <2>1. CASE StartTarget /\ target' = started' /\ pc' = "listen" /\ UNCHANGED why
    <3> USE <1>2, <2>1 DEF Launch, serverVars
    <3>1. started = 0 /\ why = "notYet"
      BY DEF ControlInv
    <3>2. /\ started' \in RunID /\ started' = started + 1
          /\ wpc' \in [RunID -> {"none", "wait", "history", "report", "returned"}]
          /\ gdbLogPath' \in [RunID -> 0..MaxTime]
          /\ scripts' \subseteq 1..(MaxRuns + 1)
          /\ RunsInv' /\ HistoryInv' /\ ScriptsInv'
      BY <3>1, StartTargetStep
    <3>3. TypeOK'
      <4>1. started' \in 0..MaxRuns
        BY <3>2 DEF RunID
      <4>2. /\ wpc' \in [RunID -> {"none", "wait", "history", "report", "returned"}]
            /\ gdbLogPath' \in [RunID -> 0..MaxTime]
            /\ scripts' \subseteq 1..(MaxRuns + 1)
        BY <3>2
      <4> QED
        BY <4>1, <4>2 DEF TypeOK
    <3>4. wpc'[started'] = "wait"
      BY <3>2 DEF StartTarget, TypeOK
    <3>5. ControlInv'
      BY <3>1, <3>2, <3>4 DEF ControlInv
    <3>6. OutsideInv'
      BY <3>1, <3>2 DEF OutsideInv
    <3> QED
      BY <3>2, <3>3, <3>5, <3>6
  <2>2. CASE StartTargetFails /\ why' = "startFailed" /\ pc' = "return"
    <3> USE <1>2, <2>2 DEF Launch, serverVars
    <3>1. UNCHANGED <<target, started, wpc, gdbLogPath>>
      BY DEF StartTargetFails
    <3>2. why = "notYet"
      BY DEF ControlInv
    <3>3. scripts' \subseteq 1..(MaxRuns + 1) /\ ScriptsInv'
      BY <3>2, StartTargetFailsStep
    <3>4. TypeOK'
      BY <3>1, <3>3 DEF TypeOK
    <3>5. RunsInv'
      BY <3>1 DEF RunsInv
    <3>6. HistoryInv'
      BY <3>1 DEF HistoryInv
    <3>7. ControlInv'
      BY <3>1 DEF ControlInv
    <3>8. OutsideInv'
      BY <3>1 DEF OutsideInv
    <3> QED
      BY <3>3, <3>4, <3>5, <3>6, <3>7, <3>8
  <2> QED
    BY <1>2, <2>1, <2>2 DEF Launch
<1>3. CASE Listen
  <2>1. TypeOK'
    BY <1>3 DEF TypeOK, Listen, runVars, gdbVars
  <2>2. RunsInv'
    BY <1>3 DEF TypeOK, RunsInv, ControlInv, RunID, Pending, Listen, runVars, gdbVars
  <2>3. HistoryInv'
    BY <1>3 DEF TypeOK, RunsInv, HistoryInv, RunID, Listen, runVars, gdbVars
  <2>4. ControlInv'
    BY <1>3 DEF TypeOK, RunsInv, ControlInv, OutsideInv, RunID, Pending, Listen, runVars, gdbVars
  <2>5. OutsideInv'
    BY <1>3 DEF TypeOK, RunsInv, ControlInv, OutsideInv, RunID, Listen, runVars, gdbVars
  <2>6. ScriptsInv'
    BY <1>3 DEF TypeOK, RunsInv, ControlInv, ScriptsInv, RunID, Listen, runVars, serverVars, gdbVars
  <2> QED
    BY <2>1, <2>2, <2>3, <2>4, <2>5, <2>6 DEF IInv
<1>4. CASE TargetDone
  <2>1. TypeOK'
    <3>1. doneCh' \in [RunID -> Outcomes \cup {Pending}]
      BY <1>4 DEF TypeOK, TargetDone
    <3>2. pc' \in {"restart", "shutdown"} /\ why' \in {why, "finishedClean", "finishedFailed"}
      BY <1>4 DEF TargetDone
    <3> QED
      BY <1>4, <3>1, <3>2 DEF TypeOK, TargetDone, serverVars, gdbVars
  <2>2. RunsInv'
    BY <1>4 DEF TypeOK, RunsInv, ControlInv, RunID, Pending, TargetDone, Abnormal, CanReceiveDone, DoneValue, serverVars, gdbVars
  <2>3. HistoryInv'
    BY <1>4 DEF TypeOK, RunsInv, HistoryInv, RunID, TargetDone, Abnormal, CanReceiveDone, DoneValue, serverVars, gdbVars
  <2>4. ControlInv'
    <3> USE DEF TypeOK, RunsInv, ControlInv, OutsideInv, RunID
    <3>1. /\ target = started /\ started \in RunID
          /\ wpc[started] = "returned" /\ doneCh[started] = outcome[started]
          /\ DoneValue(target) = outcome[started] /\ outcome[started] # Pending
      BY <1>4 DEF TargetDone, CanReceiveDone, DoneValue
    <3>2. CASE options.autoRestart /\ Abnormal(DoneValue(target))
      BY <1>4, <3>1, <3>2 DEF TargetDone, Abnormal, Outcomes, Pending
    <3>3. CASE ~(options.autoRestart /\ Abnormal(DoneValue(target)))
      BY <1>4, <3>1, <3>3 DEF TargetDone, Abnormal, Outcomes, Pending
    <3> QED
      BY <3>2, <3>3
  <2>5. OutsideInv'
    BY <1>4 DEF TypeOK, RunsInv, ControlInv, OutsideInv, RunID, TargetDone, Abnormal, CanReceiveDone, DoneValue, serverVars, gdbVars
  <2>6. ScriptsInv'
    BY <1>4 DEF TypeOK, RunsInv, ControlInv, ScriptsInv, RunID, TargetDone, CanReceiveDone, DoneValue, runVars, serverVars, gdbVars
  <2> QED
    BY <2>1, <2>2, <2>3, <2>4, <2>5, <2>6 DEF IInv
<1>5. CASE Restart
  <2>1. CASE StartTarget /\ target' = started' /\ pc' = "setTarget" /\ UNCHANGED why
    <3> USE <1>5, <2>1 DEF Restart, serverVars
    <3>1. /\ started > 0 /\ started \in Nat /\ wpc[started] = "returned"
          /\ target = started /\ why = "notYet"
      BY DEF ControlInv, RunsInv, TypeOK
    <3>2. /\ started' \in RunID /\ started' = started + 1
          /\ wpc' \in [RunID -> {"none", "wait", "history", "report", "returned"}]
          /\ gdbLogPath' \in [RunID -> 0..MaxTime]
          /\ scripts' \subseteq 1..(MaxRuns + 1)
          /\ RunsInv' /\ HistoryInv' /\ ScriptsInv'
      BY <3>1, StartTargetStep
    <3>3. TypeOK'
      <4>1. started' \in 0..MaxRuns
        BY <3>2 DEF RunID
      <4>2. /\ wpc' \in [RunID -> {"none", "wait", "history", "report", "returned"}]
            /\ gdbLogPath' \in [RunID -> 0..MaxTime]
            /\ scripts' \subseteq 1..(MaxRuns + 1)
        BY <3>2
      <4> QED
        BY <4>1, <4>2 DEF TypeOK
    <3>4. wpc'[started'] = "wait"
      BY <3>2 DEF StartTarget, TypeOK
    <3>5. ControlInv'
      BY <3>1, <3>2, <3>4 DEF ControlInv
    <3>6. OutsideInv'
      BY <3>1, <3>2 DEF OutsideInv
    <3> QED
      BY <3>2, <3>3, <3>5, <3>6
  <2>2. CASE StartTargetFails /\ why' = "restartFailed" /\ pc' = "shutdown"
    <3> USE <1>5, <2>2 DEF Restart, serverVars
    <3>1. UNCHANGED <<target, started, wpc, gdbLogPath>>
      BY DEF StartTargetFails
    <3>2. why = "notYet"
      BY DEF ControlInv
    <3>3. scripts' \subseteq 1..(MaxRuns + 1) /\ ScriptsInv'
      BY <3>2, StartTargetFailsStep
    <3>4. TypeOK'
      BY <3>1, <3>3 DEF TypeOK
    <3>5. RunsInv'
      BY <3>1 DEF RunsInv
    <3>6. HistoryInv'
      BY <3>1 DEF HistoryInv
    <3>7. ControlInv'
      BY <3>1 DEF ControlInv
    <3>8. OutsideInv'
      BY <3>1 DEF OutsideInv
    <3> QED
      BY <3>3, <3>4, <3>5, <3>6, <3>7, <3>8
  <2> QED
    BY <1>5, <2>1, <2>2 DEF Restart
<1>6. CASE SetTarget
  <2>1. TypeOK'
    BY <1>6 DEF TypeOK, SetTarget, runVars, serverVars, gdbVars
  <2>2. RunsInv'
    BY <1>6 DEF TypeOK, RunsInv, ControlInv, RunID, Pending, SetTarget, runVars, serverVars, gdbVars
  <2>3. HistoryInv'
    BY <1>6 DEF TypeOK, RunsInv, HistoryInv, RunID, SetTarget, runVars, serverVars, gdbVars
  <2>4. ControlInv'
    BY <1>6 DEF TypeOK, RunsInv, ControlInv, OutsideInv, RunID, Pending, SetTarget, runVars, serverVars, gdbVars
  <2>5. OutsideInv'
    BY <1>6 DEF TypeOK, RunsInv, ControlInv, OutsideInv, RunID, SetTarget, runVars, serverVars, gdbVars
  <2>6. ScriptsInv'
    BY <1>6 DEF TypeOK, RunsInv, ControlInv, ScriptsInv, RunID, SetTarget, runVars, serverVars, gdbVars
  <2> QED
    BY <2>1, <2>2, <2>3, <2>4, <2>5, <2>6 DEF IInv
<1>7. CASE ServerDone
  <2>1. TypeOK'
    BY <1>7 DEF TypeOK, ServerDone, runVars, gdbVars
  <2>2. RunsInv'
    BY <1>7 DEF TypeOK, RunsInv, ControlInv, RunID, Pending, ServerDone, runVars, gdbVars
  <2>3. HistoryInv'
    BY <1>7 DEF TypeOK, RunsInv, HistoryInv, RunID, ServerDone, runVars, gdbVars
  <2>4. ControlInv'
    BY <1>7 DEF TypeOK, RunsInv, ControlInv, OutsideInv, RunID, Pending, ServerDone, runVars, gdbVars
  <2>5. OutsideInv'
    BY <1>7 DEF TypeOK, RunsInv, ControlInv, OutsideInv, RunID, ServerDone, runVars, gdbVars
  <2>6. ScriptsInv'
    BY <1>7 DEF TypeOK, RunsInv, ControlInv, ScriptsInv, RunID, ServerDone, runVars, serverVars, gdbVars
  <2> QED
    BY <2>1, <2>2, <2>3, <2>4, <2>5, <2>6 DEF IInv
<1>8. CASE Shutdown
  <2>1. TypeOK'
    BY <1>8 DEF TypeOK, Shutdown, runVars, gdbVars
  <2>2. RunsInv'
    BY <1>8 DEF TypeOK, RunsInv, ControlInv, RunID, Pending, Shutdown, runVars, gdbVars
  <2>3. HistoryInv'
    BY <1>8 DEF TypeOK, RunsInv, HistoryInv, RunID, Shutdown, runVars, gdbVars
  <2>4. ControlInv'
    BY <1>8 DEF TypeOK, RunsInv, ControlInv, OutsideInv, RunID, Pending, Shutdown, runVars, gdbVars
  <2>5. OutsideInv'
    BY <1>8 DEF TypeOK, RunsInv, ControlInv, OutsideInv, RunID, Shutdown, runVars, gdbVars
  <2>6. ScriptsInv'
    BY <1>8 DEF TypeOK, RunsInv, ControlInv, ScriptsInv, RunID, Shutdown, runVars, serverVars, gdbVars
  <2> QED
    BY <2>1, <2>2, <2>3, <2>4, <2>5, <2>6 DEF IInv
<1>9. CASE Drain
  <2>1. TypeOK'
    BY <1>9 DEF TypeOK, Drain, runVars, gdbVars
  <2>2. RunsInv'
    BY <1>9 DEF TypeOK, RunsInv, ControlInv, RunID, Pending, Drain, runVars, gdbVars
  <2>3. HistoryInv'
    BY <1>9 DEF TypeOK, RunsInv, HistoryInv, RunID, Drain, runVars, gdbVars
  <2>4. ControlInv'
    BY <1>9 DEF TypeOK, RunsInv, ControlInv, OutsideInv, RunID, Pending, Drain, runVars, gdbVars
  <2>5. OutsideInv'
    BY <1>9 DEF TypeOK, RunsInv, ControlInv, OutsideInv, RunID, Drain, runVars, gdbVars
  <2>6. ScriptsInv'
    BY <1>9 DEF TypeOK, RunsInv, ControlInv, ScriptsInv, RunID, Drain, runVars, serverVars, gdbVars
  <2> QED
    BY <2>1, <2>2, <2>3, <2>4, <2>5, <2>6 DEF IInv
<1>10. CASE CloseVectorStdin
  <2>1. TypeOK'
    BY <1>10 DEF TypeOK, CloseVectorStdin, runVars, serverVars, gdbVars
  <2>2. RunsInv'
    BY <1>10 DEF TypeOK, RunsInv, ControlInv, RunID, Pending, CloseVectorStdin, runVars, serverVars, gdbVars
  <2>3. HistoryInv'
    BY <1>10 DEF TypeOK, RunsInv, HistoryInv, RunID, CloseVectorStdin, runVars, serverVars, gdbVars
  <2>4. ControlInv'
    BY <1>10 DEF TypeOK, RunsInv, ControlInv, OutsideInv, RunID, Pending, CloseVectorStdin, runVars, serverVars, gdbVars
  <2>5. OutsideInv'
    BY <1>10 DEF TypeOK, RunsInv, ControlInv, OutsideInv, RunID, CloseVectorStdin, runVars, serverVars, gdbVars
  <2>6. ScriptsInv'
    BY <1>10 DEF TypeOK, RunsInv, ControlInv, ScriptsInv, RunID, CloseVectorStdin, runVars, serverVars, gdbVars
  <2> QED
    BY <2>1, <2>2, <2>3, <2>4, <2>5, <2>6 DEF IInv
<1>11. CASE KillVector
  <2>1. TypeOK'
    BY <1>11 DEF TypeOK, KillVector, runVars, serverVars, gdbVars
  <2>2. RunsInv'
    BY <1>11 DEF TypeOK, RunsInv, ControlInv, RunID, Pending, KillVector, runVars, serverVars, gdbVars
  <2>3. HistoryInv'
    BY <1>11 DEF TypeOK, RunsInv, HistoryInv, RunID, KillVector, runVars, serverVars, gdbVars
  <2>4. ControlInv'
    BY <1>11 DEF TypeOK, RunsInv, ControlInv, OutsideInv, RunID, Pending, KillVector, runVars, serverVars, gdbVars
  <2>5. OutsideInv'
    BY <1>11 DEF TypeOK, RunsInv, ControlInv, OutsideInv, RunID, KillVector, runVars, serverVars, gdbVars
  <2>6. ScriptsInv'
    BY <1>11 DEF TypeOK, RunsInv, ControlInv, ScriptsInv, RunID, KillVector, runVars, serverVars, gdbVars
  <2> QED
    BY <2>1, <2>2, <2>3, <2>4, <2>5, <2>6 DEF IInv
<1>12. CASE VectorStopped
  <2>1. TypeOK'
    BY <1>12 DEF TypeOK, VectorStopped, runVars, serverVars, gdbVars
  <2>2. RunsInv'
    BY <1>12 DEF TypeOK, RunsInv, ControlInv, RunID, Pending, VectorStopped, runVars, serverVars, gdbVars
  <2>3. HistoryInv'
    BY <1>12 DEF TypeOK, RunsInv, HistoryInv, RunID, VectorStopped, runVars, serverVars, gdbVars
  <2>4. ControlInv'
    BY <1>12 DEF TypeOK, RunsInv, ControlInv, OutsideInv, RunID, Pending, VectorStopped, runVars, serverVars, gdbVars
  <2>5. OutsideInv'
    BY <1>12 DEF TypeOK, RunsInv, ControlInv, OutsideInv, RunID, VectorStopped, runVars, serverVars, gdbVars
  <2>6. ScriptsInv'
    BY <1>12 DEF TypeOK, RunsInv, ControlInv, ScriptsInv, RunID, VectorStopped, runVars, serverVars, gdbVars
  <2> QED
    BY <2>1, <2>2, <2>3, <2>4, <2>5, <2>6 DEF IInv
<1> QED
  BY <1>1, <1>2, <1>3, <1>4, <1>5, <1>6, <1>7, <1>8, <1>9, <1>10, <1>11, <1>12 DEF RunStep

\* The steps of a waitForExit goroutine preserve it.
LEMMA WaitForExitIInv == IInv /\ (\E g \in RunID : WaitForExit(g)) => IInv'
<1> SUFFICES ASSUME IInv, NEW g \in RunID, WaitForExit(g) PROVE IInv'
  OBVIOUS
<1> USE MaxRunsAssumption, MaxTimeAssumption DEF IInv
<1>1. CASE Wait(g)
  <2>1. TypeOK'
    <3>1. wpc' \in [RunID -> {"none", "wait", "history", "report", "returned"}]
      BY <1>1 DEF TypeOK, Wait
    <3>2. scripts' \subseteq 1..(MaxRuns + 1)
      BY <1>1 DEF TypeOK, Wait
    <3> QED
      BY <1>1, <3>1, <3>2 DEF TypeOK, Wait, serverVars
  <2>2. RunsInv'
    BY <1>1 DEF TypeOK, RunsInv, ControlInv, RunID, Pending, Wait, serverVars, gdbVars
  <2>3. HistoryInv'
    BY <1>1 DEF TypeOK, RunsInv, HistoryInv, RunID, Wait, serverVars, gdbVars
  <2>4. ControlInv'
    BY <1>1 DEF TypeOK, RunsInv, ControlInv, OutsideInv, RunID, Pending, Wait, serverVars, gdbVars
  <2>5. OutsideInv'
    BY <1>1 DEF TypeOK, RunsInv, ControlInv, OutsideInv, RunID, Wait, serverVars, gdbVars
  <2>6. ScriptsInv'
    BY <1>1 DEF TypeOK, RunsInv, ControlInv, ScriptsInv, RunID, Wait, runVars, serverVars, gdbVars
  <2> QED
    BY <2>1, <2>2, <2>3, <2>4, <2>5, <2>6 DEF IInv
<1>2. CASE AddRecord(g)
  <2>1. TypeOK'
    <3>1. outcome[g] \in Outcomes
      BY <1>2 DEF TypeOK, RunsInv, AddRecord, Outcomes, Pending
    <3>2. history' \in Seq(Record)
      BY <1>2, <3>1 DEF TypeOK, AddRecord, Abnormal, Record
    <3>3. wpc' \in [RunID -> {"none", "wait", "history", "report", "returned"}]
      BY <1>2 DEF TypeOK, AddRecord
    <3> QED
      BY <1>2, <3>2, <3>3 DEF TypeOK, AddRecord, serverVars, gdbVars
  <2>2. RunsInv'
    BY <1>2 DEF TypeOK, RunsInv, ControlInv, RunID, Pending, AddRecord, Abnormal, serverVars, gdbVars
  <2>3. HistoryInv'
    <3>1. g \in RunID /\ wpc[g] = "history" /\ outcome' = outcome
      BY <1>2 DEF AddRecord
    <3>2. started \in 0..MaxRuns /\ g = started
      BY <3>1 DEF TypeOK, RunsInv, RunID
    <3>3. Len(history) = g - 1
      <4>1. Len(history) \in Nat /\ Len(history) < g
        BY <3>1 DEF HistoryInv, RunID
      <4>2. g > 1 => wpc[g - 1] = "returned" /\ g - 1 \in RunID
        BY <3>2 DEF RunsInv, RunID
      <4>3. g > 1 => g - 1 <= Len(history)
        BY <4>2 DEF HistoryInv
      <4> QED
        BY <4>1, <4>3 DEF RunID
    <3>4. /\ Len(history') = g
          /\ \A i \in 1..Len(history) : history'[i] = history[i]
          /\ history'[g].run = g /\ history'[g].outcome = outcome[g]
      <4> DEFINE r == [run |-> g, outcome |-> outcome[g],
                       abnormal |-> options.mode = "coverage" \/ Abnormal(outcome[g])]
      <4>1. r.run = g /\ r.outcome = outcome[g]
        OBVIOUS
      <4>2. history' = Append(history, r)
        BY <1>2 DEF AddRecord
      <4> HIDE DEF r
      <4>3. history \in Seq(Record) /\ Len(history) \in Nat /\ Len(history) + 1 = g
        BY <3>3 DEF TypeOK, RunID
      <4>4. /\ Len(history') = g
            /\ \A i \in 1..Len(history) : history'[i] = history[i]
            /\ history'[g] = r
        BY <4>2, <4>3
      <4> QED
        BY <4>1, <4>4
    <3>5. \A h \in RunID : wpc'[h] = IF h = g THEN "report" ELSE wpc[h]
      BY <1>2 DEF TypeOK, AddRecord
    <3>6. \A h \in RunID : wpc'[h] \in {"report", "returned"} <=> h <= Len(history')
      BY <3>3, <3>4, <3>5 DEF HistoryInv, RunID
    <3>7. \A i \in 1..Len(history') : history'[i].run = i /\ history'[i].outcome = outcome[i]
      BY <3>3, <3>4 DEF HistoryInv, RunID
    <3> QED
      BY <3>1, <3>4, <3>6, <3>7 DEF HistoryInv, RunID
  <2>4. ControlInv'
    BY <1>2 DEF TypeOK, RunsInv, ControlInv, OutsideInv, RunID, Pending, AddRecord, Abnormal, serverVars, gdbVars
  <2>5. OutsideInv'
    BY <1>2 DEF TypeOK, RunsInv, ControlInv, OutsideInv, RunID, AddRecord, Abnormal, serverVars, gdbVars
  <2>6. ScriptsInv'
    BY <1>2 DEF TypeOK, RunsInv, ControlInv, ScriptsInv, RunID, AddRecord, runVars, serverVars, gdbVars
  <2> QED
    BY <2>1, <2>2, <2>3, <2>4, <2>5, <2>6 DEF IInv
<1>3. CASE ReportDone(g)
  <2>1. TypeOK'
    <3>1. doneCh' \in [RunID -> Outcomes \cup {Pending}]
      BY <1>3 DEF TypeOK, ReportDone
    <3>2. closed' \subseteq RunID
      BY <1>3 DEF TypeOK, ReportDone
    <3>3. wpc' \in [RunID -> {"none", "wait", "history", "report", "returned"}]
      BY <1>3 DEF TypeOK, ReportDone
    <3> QED
      BY <1>3, <3>1, <3>2, <3>3 DEF TypeOK, ReportDone, serverVars, gdbVars
  <2>2. RunsInv'
    BY <1>3 DEF TypeOK, RunsInv, ControlInv, RunID, Pending, ReportDone, serverVars, gdbVars
  <2>3. HistoryInv'
    BY <1>3 DEF TypeOK, RunsInv, HistoryInv, RunID, ReportDone, serverVars, gdbVars
  <2>4. ControlInv'
    BY <1>3, SMTT(30) DEF TypeOK, RunsInv, ControlInv, OutsideInv, RunID, Pending, ReportDone, serverVars, gdbVars
  <2>5. OutsideInv'
    BY <1>3 DEF TypeOK, RunsInv, ControlInv, OutsideInv, RunID, ReportDone, serverVars, gdbVars
  <2>6. ScriptsInv'
    BY <1>3 DEF TypeOK, RunsInv, ControlInv, ScriptsInv, RunID, ReportDone, runVars, serverVars, gdbVars
  <2> QED
    BY <2>1, <2>2, <2>3, <2>4, <2>5, <2>6 DEF IInv
<1> QED
  BY <1>1, <1>2, <1>3 DEF WaitForExit

\* The steps of the programs preserve it.
LEMMA ProgramIInv == IInv /\ (\E g \in RunID : ProgramEnds(g) \/ GdbOpensLog(g)) => IInv'
<1> SUFFICES ASSUME IInv, NEW g \in RunID, ProgramEnds(g) \/ GdbOpensLog(g) PROVE IInv'
  OBVIOUS
<1> USE MaxRunsAssumption, MaxTimeAssumption DEF IInv
<1>1. CASE ProgramEnds(g)
  <2>1. TypeOK'
    BY <1>1 DEF TypeOK, ProgramEnds, Alive, serverVars, gdbVars
  <2>2. RunsInv'
    BY <1>1 DEF TypeOK, RunsInv, ControlInv, RunID, Pending, ProgramEnds, Alive, serverVars, gdbVars
  <2>3. HistoryInv'
    <3>1. g > Len(history)
      BY <1>1 DEF TypeOK, RunsInv, HistoryInv, RunID, ProgramEnds, Alive
    <3>2. ASSUME NEW i \in 1..Len(history)
          PROVE  outcome'[i] = outcome[i]
      BY <1>1, <3>1 DEF TypeOK, HistoryInv, RunID, ProgramEnds
    <3> QED
      BY <1>1, <3>2 DEF HistoryInv, ProgramEnds
  <2>4. ControlInv'
    BY <1>1 DEF TypeOK, RunsInv, ControlInv, OutsideInv, RunID, Pending, ProgramEnds, Alive, serverVars, gdbVars
  <2>5. OutsideInv'
    BY <1>1 DEF TypeOK, RunsInv, ControlInv, OutsideInv, RunID, ProgramEnds, Alive, serverVars, gdbVars
  <2>6. ScriptsInv'
    BY <1>1 DEF TypeOK, RunsInv, ControlInv, ScriptsInv, RunID, ProgramEnds, Alive, runVars, serverVars, gdbVars
  <2> QED
    BY <2>1, <2>2, <2>3, <2>4, <2>5, <2>6 DEF IInv
<1>2. CASE GdbOpensLog(g)
  <2>1. TypeOK'
    <3>1. gdbLogPath[g] \in 0..MaxTime /\ g \in 0..MaxRuns
      BY DEF TypeOK, RunID
    <3>2. logFile' \in [0..MaxTime -> 0..MaxRuns]
      BY <1>2, <3>1 DEF TypeOK, GdbOpensLog
    <3> QED
      BY <1>2, <3>2 DEF TypeOK, GdbOpensLog, runVars, serverVars
  <2>2. RunsInv'
    BY <1>2 DEF TypeOK, RunsInv, ControlInv, RunID, Pending, GdbOpensLog, Alive, runVars, serverVars
  <2>3. HistoryInv'
    BY <1>2 DEF TypeOK, RunsInv, HistoryInv, RunID, GdbOpensLog, Alive, runVars, serverVars
  <2>4. ControlInv'
    BY <1>2 DEF TypeOK, RunsInv, ControlInv, OutsideInv, RunID, Pending, GdbOpensLog, Alive, runVars, serverVars
  <2>5. OutsideInv'
    BY <1>2 DEF TypeOK, RunsInv, ControlInv, OutsideInv, RunID, GdbOpensLog, Alive, runVars, serverVars
  <2>6. ScriptsInv'
    BY <1>2 DEF TypeOK, RunsInv, ControlInv, ScriptsInv, RunID, GdbOpensLog, Alive, runVars, serverVars, gdbVars
  <2> QED
    BY <2>1, <2>2, <2>3, <2>4, <2>5, <2>6 DEF IInv
<1> QED
  BY <1>1, <1>2

\* The steps of the HTTP server, of vector and of the clock preserve it.
LEMMA OutsideIInv == IInv /\ (ServerFails \/ ServerCloses \/ VectorEnds \/ Tick) => IInv'
<1> SUFFICES ASSUME IInv, ServerFails \/ ServerCloses \/ VectorEnds \/ Tick PROVE IInv'
  OBVIOUS
<1> USE MaxRunsAssumption, MaxTimeAssumption DEF IInv
<1>1. CASE ServerFails
  <2>1. TypeOK'
    BY <1>1 DEF TypeOK, ServerFails, runVars, gdbVars
  <2>2. RunsInv'
    BY <1>1 DEF TypeOK, RunsInv, ControlInv, RunID, Pending, ServerFails, runVars, gdbVars
  <2>3. HistoryInv'
    BY <1>1 DEF TypeOK, RunsInv, HistoryInv, RunID, ServerFails, runVars, gdbVars
  <2>4. ControlInv'
    BY <1>1 DEF TypeOK, RunsInv, ControlInv, OutsideInv, RunID, Pending, ServerFails, runVars, gdbVars
  <2>5. OutsideInv'
    BY <1>1 DEF TypeOK, RunsInv, ControlInv, OutsideInv, RunID, ServerFails, runVars, gdbVars
  <2>6. ScriptsInv'
    BY <1>1 DEF TypeOK, RunsInv, ControlInv, ScriptsInv, RunID, ServerFails, runVars, serverVars, gdbVars
  <2> QED
    BY <2>1, <2>2, <2>3, <2>4, <2>5, <2>6 DEF IInv
<1>2. CASE ServerCloses
  <2>1. TypeOK'
    BY <1>2 DEF TypeOK, ServerCloses, runVars, gdbVars
  <2>2. RunsInv'
    BY <1>2 DEF TypeOK, RunsInv, ControlInv, RunID, Pending, ServerCloses, runVars, gdbVars
  <2>3. HistoryInv'
    BY <1>2 DEF TypeOK, RunsInv, HistoryInv, RunID, ServerCloses, runVars, gdbVars
  <2>4. ControlInv'
    BY <1>2 DEF TypeOK, RunsInv, ControlInv, OutsideInv, RunID, Pending, ServerCloses, runVars, gdbVars
  <2>5. OutsideInv'
    BY <1>2 DEF TypeOK, RunsInv, ControlInv, OutsideInv, RunID, ServerCloses, runVars, gdbVars
  <2>6. ScriptsInv'
    BY <1>2 DEF TypeOK, RunsInv, ControlInv, ScriptsInv, RunID, ServerCloses, runVars, serverVars, gdbVars
  <2> QED
    BY <2>1, <2>2, <2>3, <2>4, <2>5, <2>6 DEF IInv
<1>3. CASE VectorEnds
  <2>1. TypeOK'
    BY <1>3 DEF TypeOK, VectorEnds, runVars, serverVars, gdbVars
  <2>2. RunsInv'
    BY <1>3 DEF TypeOK, RunsInv, ControlInv, RunID, Pending, VectorEnds, runVars, serverVars, gdbVars
  <2>3. HistoryInv'
    BY <1>3 DEF TypeOK, RunsInv, HistoryInv, RunID, VectorEnds, runVars, serverVars, gdbVars
  <2>4. ControlInv'
    BY <1>3 DEF TypeOK, RunsInv, ControlInv, OutsideInv, RunID, Pending, VectorEnds, runVars, serverVars, gdbVars
  <2>5. OutsideInv'
    BY <1>3 DEF TypeOK, RunsInv, ControlInv, OutsideInv, RunID, VectorEnds, runVars, serverVars, gdbVars
  <2>6. ScriptsInv'
    BY <1>3 DEF TypeOK, RunsInv, ControlInv, ScriptsInv, RunID, VectorEnds, runVars, serverVars, gdbVars
  <2> QED
    BY <2>1, <2>2, <2>3, <2>4, <2>5, <2>6 DEF IInv
<1>4. CASE Tick
  <2>1. TypeOK'
    BY <1>4 DEF TypeOK, Tick, runVars, serverVars, gdbVars
  <2>2. RunsInv'
    BY <1>4 DEF TypeOK, RunsInv, ControlInv, RunID, Pending, Tick, runVars, serverVars, gdbVars
  <2>3. HistoryInv'
    BY <1>4 DEF TypeOK, RunsInv, HistoryInv, RunID, Tick, runVars, serverVars, gdbVars
  <2>4. ControlInv'
    BY <1>4 DEF TypeOK, RunsInv, ControlInv, OutsideInv, RunID, Pending, Tick, runVars, serverVars, gdbVars
  <2>5. OutsideInv'
    BY <1>4 DEF TypeOK, RunsInv, ControlInv, OutsideInv, RunID, Tick, runVars, serverVars, gdbVars
  <2>6. ScriptsInv'
    BY <1>4 DEF TypeOK, RunsInv, ControlInv, ScriptsInv, RunID, Tick, runVars, serverVars, gdbVars
  <2> QED
    BY <2>1, <2>2, <2>3, <2>4, <2>5, <2>6 DEF IInv
<1> QED
  BY <1>1, <1>2, <1>3, <1>4

\* IInv is an invariant.
THEOREM Invariance == Spec => []IInv
<1>1. IInv /\ [Next]_vars => IInv'
  <2> SUFFICES ASSUME IInv, [Next]_vars PROVE IInv'
    OBVIOUS
  <2>1. CASE Next
    BY <2>1, RunStepIInv, WaitForExitIInv, ProgramIInv, OutsideIInv DEF Next, Environment
  <2>2. CASE UNCHANGED vars
    BY <2>2 DEF IInv, TypeOK, RunsInv, HistoryInv, ControlInv, OutsideInv, ScriptsInv, vars
  <2> QED
    BY <2>1, <2>2
<1> QED
  BY <1>1, InitIInv, PTL DEF Spec

\* TypeOK, for every instance.
THEOREM TypeCorrect == Spec => []TypeOK
  BY Invariance, PTL DEF IInv

\* OneTargetAlive, for every instance: a run that is not the last one has been
\* reported, and was not before its program had ended.
THEOREM OneTargetAliveHolds == Spec => []OneTargetAlive
<1>1. IInv => OneTargetAlive
  BY DEF IInv, TypeOK, RunsInv, OneTargetAlive, Alive, RunID
<1> QED
  BY <1>1, Invariance, PTL

\* HistoryIsTheRuns, for every instance: a run is started only after the one
\* before it was reported, hence recorded.
THEOREM HistoryIsTheRunsHolds == Spec => []HistoryIsTheRuns
<1>1. IInv => HistoryIsTheRuns
  <2> SUFFICES ASSUME IInv PROVE HistoryIsTheRuns
    OBVIOUS
  <2> USE MaxRunsAssumption DEF IInv, TypeOK, RunsInv, HistoryInv, RunID
  <2>1. Len(history) <= started
    <3>1. CASE Len(history) = 0
      BY <3>1
    <3>2. CASE Len(history) # 0
      <4>1. Len(history) \in RunID /\ wpc[Len(history)] # "none"
        BY <3>2
      <4> QED
        BY <4>1
    <3> QED
      BY <3>1, <3>2
  <2>2. started <= Len(history) + 1
    <3>1. CASE started <= 1
      BY <3>1
    <3>2. CASE started > 1
      <4>1. started - 1 \in RunID /\ wpc[started - 1] = "returned"
        BY <3>2
      <4> QED
        BY <4>1
    <3> QED
      BY <3>1, <3>2
  <2> QED
    BY <2>1, <2>2 DEF HistoryIsTheRuns
<1> QED
  BY <1>1, Invariance, PTL

\* HandlersFollowTarget, for every instance.
THEOREM HandlersFollowTargetHolds == Spec => []HandlersFollowTarget
<1>1. IInv => HandlersFollowTarget
  <2> SUFFICES ASSUME IInv, server # "none" PROVE HandlersFollowTarget
    BY DEF HandlersFollowTarget
  <2> USE MaxRunsAssumption DEF IInv, TypeOK, RunsInv, HistoryInv, OutsideInv, RunID
  <2>1. target = started
    OBVIOUS
  <2>2. CASE pc = "setTarget"
    <3>1. handlerTarget \in RunID /\ wpc[handlerTarget] = "returned" /\ handlerTarget = target - 1
      BY <2>2
    <3> QED
      BY <2>1, <2>2, <3>1 DEF HandlersFollowTarget
  <2>3. CASE pc # "setTarget"
    BY <2>1, <2>3 DEF HandlersFollowTarget
  <2> QED
    BY <2>2, <2>3
<1> QED
  BY <1>1, Invariance, PTL

\* ReturnsForAReason, for every instance: a file of gdb commands is that of a run
\* whose program may still be alive, or of the start that failed.
THEOREM ReturnsForAReasonHolds == Spec => []ReturnsForAReason
<1>1. IInv => ReturnsForAReason
  <2> SUFFICES ASSUME IInv PROVE ReturnsForAReason
    OBVIOUS
  <2> USE MaxRunsAssumption DEF IInv, TypeOK, RunsInv, ControlInv, OutsideInv, RunID
  <2>1. ASSUME pc = "exited", NEW g \in RunID, g <= started, wpc[g] # "returned",
               why # "serverFailed"
        PROVE  FALSE
    <3>1. started > 0 /\ started \in RunID /\ wpc[started] = "returned"
      BY <2>1
    <3>2. g < started \/ g = started
      BY <2>1, <3>1
    <3> QED
      BY <2>1, <3>1, <3>2
  <2>2. ASSUME NEW g \in RunID, Alive(g)
        PROVE  g <= started /\ wpc[g] = "wait"
    BY <2>2 DEF Alive, Pending
  <2>3. pc = "exited" => ((\E g \in RunID : Alive(g)) => why = "serverFailed")
    BY <2>1, <2>2
  <2>4. ASSUME pc = "exited", NEW g \in scripts
        PROVE  \/ g = started /\ why = "serverFailed"
               \/ g = started + 1 /\ why \in {"startFailed", "restartFailed"}
    BY <2>1, <2>4 DEF ScriptsInv
  <2>5. options.mode = "gdb" => \A g \in RunID : Alive(g) => g \in scripts
    BY <2>2 DEF ScriptsInv
  <2> QED
    BY <2>3, <2>4, <2>5 DEF ReturnsForAReason
<1> QED
  BY <1>1, Invariance, PTL

\* What TargetRun calls recorded and reported, of run g.
recorded(g) == IF g <= Len(history) THEN history[g].outcome ELSE Pending
reported(g) == IF g \in closed THEN outcome[g] ELSE Pending

\* Every step is a step of TargetRun, or none, for each run.
LEMMA StepRefines ==
    ASSUME IInv, IInv', Next, NEW g \in RunID
    PROVE  Run(g)!Next \/ UNCHANGED Run(g)!vars
<1> USE MaxRunsAssumption DEF IInv
<1>a. /\ g \in Nat /\ Len(history) \in Nat /\ history \in Seq(Record)
      /\ g <= Len(history) => g \in 1..Len(history) /\ outcome[g] # Pending
                              /\ recorded(g) = outcome[g]
      /\ g \in closed => outcome[g] # Pending /\ g <= Len(history)
  <2>1. g \in Nat /\ g >= 1 /\ Len(history) \in Nat /\ history \in Seq(Record)
    BY DEF TypeOK, HistoryInv, RunID
  <2>2. g <= Len(history) => g \in 1..Len(history) /\ outcome[g] # Pending
                             /\ history[g].outcome = outcome[g]
    BY <2>1 DEF RunsInv, HistoryInv
  <2>3. g \in closed => outcome[g] # Pending /\ g <= Len(history)
    BY DEF RunsInv, HistoryInv
  <2> QED
    BY <2>1, <2>2, <2>3 DEF recorded
<1>1. SUFFICES \/ UNCHANGED <<outcome[g], recorded(g), reported(g)>>
               \/ /\ outcome[g] = Pending /\ outcome'[g] \in Outcomes
                  /\ UNCHANGED <<recorded(g), reported(g)>>
               \/ /\ outcome[g] # Pending /\ recorded(g) = Pending
                  /\ recorded(g)' = outcome[g]
                  /\ UNCHANGED <<outcome[g], reported(g)>>
               \/ /\ recorded(g) # Pending /\ reported(g) = Pending
                  /\ reported(g)' = outcome[g]
                  /\ UNCHANGED <<outcome[g], recorded(g)>>
  BY DEF Run!Next, Run!End, Run!Record, Run!Report, Run!vars, recorded, reported
<1>2. CASE UNCHANGED <<outcome, history, closed>>
  BY <1>2 DEF recorded, reported
<1>3. ASSUME NEW h \in RunID, ProgramEnds(h)
      PROVE  \/ UNCHANGED <<outcome[g], recorded(g), reported(g)>>
             \/ /\ outcome[g] = Pending /\ outcome'[g] \in Outcomes
                /\ UNCHANGED <<recorded(g), reported(g)>>
  BY <1>a, <1>3 DEF TypeOK, ProgramEnds, Alive, recorded, reported, runVars
<1>4. ASSUME NEW h \in RunID, AddRecord(h)
      PROVE  \/ UNCHANGED <<outcome[g], recorded(g), reported(g)>>
             \/ /\ outcome[g] # Pending /\ recorded(g) = Pending
                /\ recorded(g)' = outcome[g]
                /\ UNCHANGED <<outcome[g], reported(g)>>
  <2>1. UNCHANGED <<outcome, closed>>
    BY <1>4 DEF AddRecord
  <2>2. Len(history') = Len(history) + 1 /\ \A i \in 1..Len(history) : history'[i] = history[i]
    BY <1>a, <1>4 DEF AddRecord
  <2>3. h = Len(history) + 1 /\ outcome[h] # Pending
    <3>1. wpc[h] = "history" /\ wpc'[h] = "report"
      BY <1>4 DEF AddRecord, TypeOK
    <3>2. ~(h <= Len(history)) /\ h <= Len(history')
      BY <3>1 DEF HistoryInv
    <3> QED
      BY <1>a, <2>2, <3>1, <3>2 DEF RunsInv, RunID
  <2>4. CASE g = h
    <3>1. recorded(g) = Pending
      BY <2>3, <2>4, <1>a DEF recorded
    <3>2. history'[h].outcome = outcome'[h] /\ h <= Len(history')
      BY <2>2, <2>3, <1>a DEF HistoryInv, RunID
    <3>3. recorded(g)' = outcome[g]
      BY <2>1, <2>4, <3>2 DEF recorded
    <3> QED
      BY <2>1, <2>3, <2>4, <3>1, <3>3 DEF reported
  <2>5. CASE g # h
    <3>1. g <= Len(history') <=> g <= Len(history)
      BY <1>a, <2>2, <2>3, <2>5
    <3> QED
      BY <1>a, <2>1, <2>2, <3>1 DEF recorded, reported
  <2> QED
    BY <2>4, <2>5
<1>5. ASSUME NEW h \in RunID, ReportDone(h)
      PROVE  \/ UNCHANGED <<outcome[g], recorded(g), reported(g)>>
             \/ /\ recorded(g) # Pending /\ reported(g) = Pending
                /\ reported(g)' = outcome[g]
                /\ UNCHANGED <<outcome[g], recorded(g)>>
  <2>1. /\ UNCHANGED <<outcome, history>> /\ closed' = closed \cup {h}
        /\ wpc[h] = "report"
    BY <1>5 DEF ReportDone
  <2>2. CASE g = h
    <3>1. g \notin closed /\ g <= Len(history)
      BY <2>1, <2>2 DEF RunsInv, HistoryInv
    <3> QED
      BY <1>a, <2>1, <2>2, <3>1 DEF recorded, reported
  <2>3. CASE g # h
    BY <2>1, <2>3 DEF recorded, reported
  <2> QED
    BY <2>2, <2>3
<1>6. \/ UNCHANGED <<outcome, history, closed>>
      \/ \E h \in RunID : ProgramEnds(h) \/ AddRecord(h) \/ ReportDone(h)
  <2>1. CASE RunStep
    BY <2>1 DEF RunStep, Begin, Launch, Listen, TargetDone, Restart, SetTarget, ServerDone,
                Shutdown, Drain, CloseVectorStdin, KillVector, VectorStopped, runVars
  <2>2. CASE \E h \in RunID : WaitForExit(h)
    BY <2>2 DEF WaitForExit, Wait
  <2>3. CASE Environment
    BY <2>3 DEF Environment, GdbOpensLog, ServerFails, ServerCloses, VectorEnds, Tick, runVars
  <2> QED
    BY <2>1, <2>2, <2>3 DEF Next
<1> QED
  BY <1>2, <1>3, <1>4, <1>5, <1>6

\* ImplementsTargetRuns, for every instance: each run is a TargetRun.
THEOREM ImplementsTargetRunsHolds == Spec => ImplementsTargetRuns
<1>1. Init => \A g \in RunID : Run(g)!Init
  <2> SUFFICES ASSUME Init, NEW g \in RunID PROVE Run(g)!Init
    OBVIOUS
  <2>1. Len(history) = 0 /\ closed = {} /\ outcome[g] = Pending /\ g >= 1
    BY DEF Init, RunID
  <2> QED
    BY <2>1 DEF Run!Init, RunID
<1>2. IInv /\ IInv' /\ [Next]_vars
          => [\A g \in RunID : Run(g)!Next \/ UNCHANGED Run(g)!vars]_vars
  BY StepRefines
<1> QED
  BY <1>1, <1>2, Invariance, PTL DEF Spec, ImplementsTargetRuns
=============================================================================
