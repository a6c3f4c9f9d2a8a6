------------------------ MODULE TargetProcess_proofs ------------------------
(***************************************************************************)
(* For every number of lines, every capacity and every interleaving of the *)
(* consumers: no line is lost, repeated or out of order between the pipes  *)
(* and the sinks of TargetProcess, vector gets every stream gapless, and   *)
(* the run is a TargetRun.                                                 *)
(***************************************************************************)
EXTENDS TargetProcess, FiniteSetTheorems, FunctionTheorems, TLAPS

Places == {"scan", "vector", "writing", "record", "error", "done"}

TypeOK ==
    /\ proc \in {"running", "orphaned", "ended"}
    /\ outcome \in Outcomes \cup {"running"}
    /\ written \in [Streams -> Nat]
    /\ pipe \in [Streams -> Seq(Line)]
    /\ cpc \in [Streams -> Places]
    /\ scanned \in [Streams -> Seq(Line)]
    /\ lineWriterMu \in Streams \cup {NoOne}
    /\ lineWriteDead \in BOOLEAN
    /\ vector \in {"none", "up", "down"}
    /\ shipped \in [Streams -> Seq(Line)]
    /\ streamed \in [Streams -> Seq(Line)]
    /\ notices \in [Notices -> Nat]

\* Which line of s is where: log stream, scanner, pipe.
LinesOf(s) ==
    /\ HeadIsOut(s) => Len(scanned[s]) > 0 /\ Len(streamed[s]) > 0
    /\ \A i \in 1..Len(streamed[s]) : streamed[s][i] = <<s, i>>
    /\ \A i \in 1..Len(scanned[s]) : scanned[s][i] = <<s, Recorded(s) + i>>
    /\ \A i \in 1..Len(pipe[s]) : pipe[s][i] = <<s, Recorded(s) + Len(scanned[s]) + i>>
    /\ Recorded(s) + Len(scanned[s]) + Len(pipe[s]) = written[s]

\* What vector was given of s, and the consumer that is about to give it more.
VectorOf(s) ==
    /\ \A i \in 1..Len(shipped[s]) : shipped[s][i] = <<s, i>>
    /\ cpc[s] = "writing" => lineWriterMu = s /\ vector # "none" /\ ~lineWriteDead
    /\ vector # "none" /\ ~lineWriteDead =>
           Len(shipped[s]) = Recorded(s) + (IF cpc[s] = "record" THEN 1 ELSE 0)

LinesInv == \A s \in Streams : LinesOf(s)

VectorInv ==
    /\ \A s \in Streams : VectorOf(s)
    /\ lineWriteDead => vector = "down"
    /\ notices["vectorWriteFailed"] = (IF lineWriteDead THEN 1 ELSE 0)

\* How far waitForExit is with the run.
WaitInv ==
    /\ proc = "running" <=> outcome = "running"
    /\ wpc \in {"wait", "announce", "history", "report", "returned"}
    /\ wpc # "wait" => outcome # "running"
    /\ record.outcome = IF wpc \in {"report", "returned"} THEN outcome ELSE "running"
    /\ reported = IF wpc = "returned" THEN outcome ELSE "running"

IInv == TypeOK /\ LinesInv /\ VectorInv /\ WaitInv
-----------------------------------------------------------------------------
(* Proofs.                                                                 *)

\* The initial states satisfy the invariant.
LEMMA InitIInv == Init => IInv
<1> SUFFICES ASSUME Init PROVE IInv
  OBVIOUS
<1> USE DEF Init
<1>1. TypeOK
  <2>1. <<>> \in Seq(Line) /\ NoOne \in Streams \cup {NoOne}
    OBVIOUS
  <2> QED
    BY <2>1 DEF TypeOK, Places
<1>2. LinesInv
  BY DEF LinesInv, LinesOf, HeadIsOut, Recorded
<1>3. VectorInv
  BY DEF VectorInv, VectorOf, HeadIsOut, Recorded, Notices
<1>4. WaitInv
  BY DEF WaitInv, NoRecord
<1> QED
  BY <1>1, <1>2, <1>3, <1>4 DEF IInv

\* The line that is on its way to the sinks is streamed but not recorded.
LEMMA RecordedIs ==
    ASSUME NEW s \in Streams, Len(streamed[s]) \in Nat
    PROVE  /\ Recorded(s) \in Int
           /\ HeadIsOut(s) => Recorded(s) = Len(streamed[s]) - 1
           /\ ~HeadIsOut(s) => Recorded(s) = Len(streamed[s])
<1>1. CASE HeadIsOut(s)
  BY <1>1 DEF Recorded
<1>2. CASE ~HeadIsOut(s)
  BY <1>2 DEF Recorded
<1> QED
  BY <1>1, <1>2

\* A stream whose lines are where they were.
LEMMA LinesFrame ==
    ASSUME NEW t \in Streams, LinesOf(t), HeadIsOut(t)' <=> HeadIsOut(t),
           UNCHANGED <<streamed[t], scanned[t], pipe[t], written[t]>>
    PROVE  LinesOf(t)'
  BY DEF LinesOf, Recorded

\* A stream of which vector got nothing new.
LEMMA VectorFrame ==
    ASSUME NEW t \in Streams, VectorOf(t),
           UNCHANGED <<streamed[t], cpc[t], shipped[t]>>,
           vector' = "none" <=> vector = "none",
           lineWriteDead => lineWriteDead',
           cpc[t] = "writing" => UNCHANGED <<lineWriterMu, lineWriteDead>>
    PROVE  VectorOf(t)'
<1>1. UNCHANGED Recorded(t)
  BY DEF Recorded, HeadIsOut
<1>2. \A i \in 1..Len(shipped'[t]) : shipped'[t][i] = <<t, i>>
  BY DEF VectorOf
<1>3. cpc'[t] = "writing" => lineWriterMu' = t /\ vector' # "none" /\ ~lineWriteDead'
  BY DEF VectorOf
<1>4. ASSUME vector' # "none", ~lineWriteDead'
      PROVE  Len(shipped'[t]) = Recorded(t)' + (IF cpc'[t] = "record" THEN 1 ELSE 0)
  <2>1. vector # "none" /\ ~lineWriteDead
    BY <1>4
  <2> QED
    BY <1>1, <2>1 DEF VectorOf
<1> QED
  BY <1>2, <1>3, <1>4 DEF VectorOf

\* The steps of a consumer preserve it.
LEMMA ConsumeOutputIInv == IInv /\ (\E s \in Streams : ConsumeOutput(s)) => IInv'
<1> SUFFICES ASSUME IInv, NEW s \in Streams, ConsumeOutput(s) PROVE IInv'
  OBVIOUS
<1> USE DEF IInv
<1>a. NoOne \notin Streams /\ "vectorWriteFailed" \in Notices /\ "logStreamError" \in Notices
  BY DEF NoOne, Streams, Notices
<1>b. /\ streamed[s] \in Seq(Line) /\ scanned[s] \in Seq(Line) /\ pipe[s] \in Seq(Line)
      /\ shipped[s] \in Seq(Line) /\ written[s] \in Nat
      /\ Len(streamed[s]) \in Nat /\ Len(scanned[s]) \in Nat /\ Len(pipe[s]) \in Nat
      /\ Len(shipped[s]) \in Nat
      /\ LinesOf(s) /\ VectorOf(s)
  BY DEF TypeOK, LinesInv, VectorInv
<1>c. /\ Recorded(s) \in Int
      /\ HeadIsOut(s) => Recorded(s) = Len(streamed[s]) - 1 /\ Len(scanned[s]) > 0
      /\ ~HeadIsOut(s) => Recorded(s) = Len(streamed[s])
      /\ Len(scanned[s]) > 0 => /\ Head(scanned[s]) \in Line /\ Tail(scanned[s]) \in Seq(Line)
                               /\ Head(scanned[s]) = <<s, Recorded(s) + 1>>
  <2>1. /\ Recorded(s) \in Int
        /\ HeadIsOut(s) => Recorded(s) = Len(streamed[s]) - 1 /\ Len(scanned[s]) > 0
        /\ ~HeadIsOut(s) => Recorded(s) = Len(streamed[s])
    BY <1>b, RecordedIs DEF LinesOf
  <2>2. Len(scanned[s]) > 0 => /\ Head(scanned[s]) \in Line /\ Tail(scanned[s]) \in Seq(Line)
                               /\ Head(scanned[s]) = scanned[s][1]
    BY <1>b
  <2>3. Len(scanned[s]) > 0 => scanned[s][1] = <<s, Recorded(s) + 1>>
    BY <1>b DEF LinesOf
  <2> QED
    BY <2>1, <2>2, <2>3
<1>1. CASE Read(s)
  <2>1. TypeOK'
    <3>1. scanned' \in [Streams -> Seq(Line)]
      BY <1>a, <1>1 DEF Read, TypeOK, Places
    <3>2. pipe' \in [Streams -> Seq(Line)]
      BY <1>a, <1>1 DEF Read, TypeOK, Places
    <3> QED
      BY <1>1, <3>1, <3>2 DEF Read, TypeOK, program, vectorVars, brokerVars, waitVars
  <2>2. /\ \A t \in Streams \ {s} : UNCHANGED <<streamed[t], scanned[t], pipe[t], written[t], cpc[t], shipped[t]>>
        /\ scanned'[s] = pipe[s] /\ pipe'[s] = <<>> /\ scanned[s] = <<>> /\ cpc[s] = "scan"
        /\ UNCHANGED <<streamed[s], written[s], cpc[s], shipped[s]>>
    BY <1>1 DEF Read, TypeOK, program, vectorVars, brokerVars, waitVars
  <2>3. LinesInv'
    <3>1. ASSUME NEW t \in Streams \ {s} PROVE LinesOf(t)'
      BY <2>2, LinesFrame DEF LinesInv, HeadIsOut
    <3>2. LinesOf(s)'
      <4>1. Recorded(s)' = Recorded(s) /\ ~HeadIsOut(s)'
        BY <2>2 DEF Recorded, HeadIsOut
      <4> QED
        BY <1>b, <1>c, <2>2, <4>1 DEF LinesOf
    <3> QED
      BY <3>1, <3>2 DEF LinesInv
  <2>4. VectorInv'
    <3>0. /\ vector' = vector /\ (lineWriteDead => lineWriteDead')
          /\ \A t \in Streams \ {s} : cpc[t] = "writing" => UNCHANGED <<lineWriterMu, lineWriteDead>>
      BY <1>a, <1>1 DEF Read, VectorInv, VectorOf, vectorVars
    <3>1. ASSUME NEW t \in Streams \ {s} PROVE VectorOf(t)'
      BY <2>2, <3>0, VectorFrame DEF VectorInv
    <3>2. VectorOf(s)'
      BY <2>2, <3>0, <1>1, VectorFrame DEF Read, VectorInv, vectorVars
    <3>3. /\ lineWriteDead' => vector' = "down"
          /\ notices'["vectorWriteFailed"] = (IF lineWriteDead' THEN 1 ELSE 0)
      BY <1>a, <1>1 DEF Read, VectorInv, VectorOf, TypeOK, Notify, vectorVars, brokerVars
    <3> QED
      BY <3>1, <3>2, <3>3 DEF VectorInv
  <2>5. WaitInv'
    BY <1>1 DEF Read, WaitInv, program, waitVars
  <2> QED
    BY <2>1, <2>3, <2>4, <2>5 DEF IInv
<1>2. CASE BroadcastLine(s)
  <2>1. TypeOK'
    <3>0. Head(scanned[s]) \in Line
      BY <1>b, <1>c, <1>2 DEF BroadcastLine, HeadIsOut
    <3>1. streamed' \in [Streams -> Seq(Line)]
      BY <1>a, <3>0, <1>2 DEF BroadcastLine, TypeOK, Places
    <3>2. cpc' \in [Streams -> Places]
      BY <1>a, <3>0, <1>2 DEF BroadcastLine, TypeOK, Places
    <3> QED
      BY <1>2, <3>0, <3>1, <3>2 DEF BroadcastLine, TypeOK, program, vectorVars, brokerVars, waitVars
  <2>2. /\ \A t \in Streams \ {s} : UNCHANGED <<streamed[t], scanned[t], pipe[t], written[t], cpc[t], shipped[t]>>
        /\ streamed'[s] = Append(streamed[s], Head(scanned[s]))
        /\ scanned[s] # <<>> /\ cpc[s] = "scan" /\ cpc'[s] = "vector"
        /\ UNCHANGED <<scanned[s], pipe[s], written[s], shipped[s]>>
    BY <1>2 DEF BroadcastLine, TypeOK, program, vectorVars, brokerVars, waitVars
  <2>3. LinesInv'
    <3>1. ASSUME NEW t \in Streams \ {s} PROVE LinesOf(t)'
      BY <2>2, LinesFrame DEF LinesInv, HeadIsOut
    <3>2. LinesOf(s)'
      <4>1. Recorded(s) = Len(streamed[s]) /\ Recorded(s)' = Len(streamed[s]) /\ HeadIsOut(s)'
        BY <1>b, <2>2 DEF Recorded, HeadIsOut
      <4>2. Head(scanned[s]) = <<s, Len(streamed[s]) + 1>> /\ Len(scanned[s]) > 0
        BY <1>b, <1>c, <2>2, <4>1
      <4>3. /\ Len(streamed'[s]) = Len(streamed[s]) + 1
            /\ \A i \in 1..Len(streamed'[s]) : streamed'[s][i] = <<s, i>>
        BY <1>b, <2>2, <4>2, SMTT(30) DEF LinesOf
      <4>4. \A i \in 1..Len(scanned'[s]) : scanned'[s][i] = <<s, Recorded(s)' + i>>
        BY <1>b, <1>c, <2>2, <4>1 DEF LinesOf
      <4>5. /\ \A i \in 1..Len(pipe'[s]) :
                   pipe'[s][i] = <<s, Recorded(s)' + Len(scanned'[s]) + i>>
            /\ Recorded(s)' + Len(scanned'[s]) + Len(pipe'[s]) = written'[s]
        <5>1. PICK r \in Int : r = Recorded(s) /\ r = Recorded(s)'
          BY <1>b, <4>1
        <5>2. /\ \A i \in 1..Len(pipe[s]) : pipe[s][i] = <<s, r + Len(scanned[s]) + i>>
              /\ r + Len(scanned[s]) + Len(pipe[s]) = written[s]
          <6>1. /\ \A i \in 1..Len(pipe[s]) :
                       pipe[s][i] = <<s, Recorded(s) + Len(scanned[s]) + i>>
                /\ Recorded(s) + Len(scanned[s]) + Len(pipe[s]) = written[s]
            BY <1>b DEF LinesOf
          <6> QED
            BY <5>1, <6>1
        <5> QED
          BY <2>2, <5>1, <5>2
      <4>6. Len(scanned'[s]) > 0 /\ Len(streamed'[s]) > 0
        BY <1>b, <2>2, <4>2, <4>3
      <4> QED
        BY <4>3, <4>4, <4>5, <4>6 DEF LinesOf
    <3> QED
      BY <3>1, <3>2 DEF LinesInv
  <2>4. VectorInv'
    <3>0. /\ vector' = vector /\ (lineWriteDead => lineWriteDead')
          /\ \A t \in Streams \ {s} : cpc[t] = "writing" => UNCHANGED <<lineWriterMu, lineWriteDead>>
      BY <1>a, <1>2 DEF BroadcastLine, VectorInv, VectorOf, vectorVars
    <3>1. ASSUME NEW t \in Streams \ {s} PROVE VectorOf(t)'
      BY <2>2, <3>0, VectorFrame DEF VectorInv
    <3>2. VectorOf(s)'
      <4>1. Recorded(s)' = Recorded(s)
        BY <1>b, <2>2 DEF Recorded, HeadIsOut
      <4> QED
        BY <1>b, <1>2, <2>2, <3>0, <4>1 DEF BroadcastLine, VectorOf, vectorVars
    <3>3. /\ lineWriteDead' => vector' = "down"
          /\ notices'["vectorWriteFailed"] = (IF lineWriteDead' THEN 1 ELSE 0)
      BY <1>a, <1>2 DEF BroadcastLine, VectorInv, VectorOf, TypeOK, Notify, vectorVars, brokerVars
    <3> QED
      BY <3>1, <3>2, <3>3 DEF VectorInv
  <2>5. WaitInv'
    BY <1>2 DEF BroadcastLine, WaitInv, program, waitVars
  <2> QED
    BY <2>1, <2>3, <2>4, <2>5 DEF IInv
<1>3. CASE SkipVector(s)
  <2>1. TypeOK'
    <3>1. cpc' \in [Streams -> Places]
      BY <1>a, <1>3 DEF SkipVector, TypeOK, Places
    <3> QED
      BY <1>3, <3>1 DEF SkipVector, TypeOK, program, vectorVars, brokerVars, waitVars
  <2>2. /\ \A t \in Streams \ {s} : UNCHANGED <<streamed[t], scanned[t], pipe[t], written[t], cpc[t], shipped[t]>>
        /\ cpc[s] = "vector" /\ cpc'[s] = "record"
        /\ UNCHANGED <<streamed[s], scanned[s], pipe[s], written[s], shipped[s]>>
    BY <1>3 DEF SkipVector, TypeOK, program, vectorVars, brokerVars, waitVars
  <2>3. LinesInv'
    <3>1. ASSUME NEW t \in Streams \ {s} PROVE LinesOf(t)'
      BY <2>2, LinesFrame DEF LinesInv, HeadIsOut
    <3>2. LinesOf(s)'
      BY <2>2, LinesFrame DEF LinesInv, HeadIsOut
    <3> QED
      BY <3>1, <3>2 DEF LinesInv
  <2>4. VectorInv'
    <3>0. /\ vector' = vector /\ (lineWriteDead => lineWriteDead')
          /\ \A t \in Streams \ {s} : cpc[t] = "writing" => UNCHANGED <<lineWriterMu, lineWriteDead>>
      BY <1>a, <1>3 DEF SkipVector, VectorInv, VectorOf, vectorVars
    <3>1. ASSUME NEW t \in Streams \ {s} PROVE VectorOf(t)'
      BY <2>2, <3>0, VectorFrame DEF VectorInv
    <3>2. VectorOf(s)'
      <4>1. Recorded(s)' = Recorded(s)
        BY <2>2 DEF Recorded, HeadIsOut
      <4> QED
        BY <1>b, <1>3, <2>2, <3>0, <4>1 DEF SkipVector, VectorOf, vectorVars
    <3>3. /\ lineWriteDead' => vector' = "down"
          /\ notices'["vectorWriteFailed"] = (IF lineWriteDead' THEN 1 ELSE 0)
      BY <1>a, <1>3 DEF SkipVector, VectorInv, VectorOf, TypeOK, Notify, vectorVars, brokerVars
    <3> QED
      BY <3>1, <3>2, <3>3 DEF VectorInv
  <2>5. WaitInv'
    BY <1>3 DEF SkipVector, WaitInv, program, waitVars
  <2> QED
    BY <2>1, <2>3, <2>4, <2>5 DEF IInv
<1>4. CASE StartVectorWrite(s)
  <2>1. TypeOK'
    <3>1. cpc' \in [Streams -> Places]
      BY <1>a, <1>4 DEF StartVectorWrite, TypeOK, Places
    <3> QED
      BY <1>4, <3>1 DEF StartVectorWrite, TypeOK, program, vectorVars, brokerVars, waitVars
  <2>2. /\ \A t \in Streams \ {s} : UNCHANGED <<streamed[t], scanned[t], pipe[t], written[t], cpc[t], shipped[t]>>
        /\ cpc[s] = "vector" /\ cpc'[s] = "writing"
        /\ UNCHANGED <<streamed[s], scanned[s], pipe[s], written[s], shipped[s]>>
    BY <1>4 DEF StartVectorWrite, TypeOK, program, vectorVars, brokerVars, waitVars
  <2>3. LinesInv'
    <3>1. ASSUME NEW t \in Streams \ {s} PROVE LinesOf(t)'
      BY <2>2, LinesFrame DEF LinesInv, HeadIsOut
    <3>2. LinesOf(s)'
      BY <2>2, LinesFrame DEF LinesInv, HeadIsOut
    <3> QED
      BY <3>1, <3>2 DEF LinesInv
  <2>4. VectorInv'
    <3>0. /\ vector' = vector /\ (lineWriteDead => lineWriteDead')
          /\ \A t \in Streams \ {s} : cpc[t] = "writing" => UNCHANGED <<lineWriterMu, lineWriteDead>>
      BY <1>a, <1>4 DEF StartVectorWrite, VectorInv, VectorOf, vectorVars
    <3>1. ASSUME NEW t \in Streams \ {s} PROVE VectorOf(t)'
      BY <2>2, <3>0, VectorFrame DEF VectorInv
    <3>2. VectorOf(s)'
      <4>1. Recorded(s)' = Recorded(s)
        BY <2>2 DEF Recorded, HeadIsOut
      <4> QED
        BY <1>b, <1>4, <2>2, <3>0, <4>1 DEF StartVectorWrite, VectorOf, vectorVars
    <3>3. /\ lineWriteDead' => vector' = "down"
          /\ notices'["vectorWriteFailed"] = (IF lineWriteDead' THEN 1 ELSE 0)
      BY <1>a, <1>4 DEF StartVectorWrite, VectorInv, VectorOf, TypeOK, Notify, vectorVars, brokerVars
    <3> QED
      BY <3>1, <3>2, <3>3 DEF VectorInv
  <2>5. WaitInv'
    BY <1>4 DEF StartVectorWrite, WaitInv, program, waitVars
  <2> QED
    BY <2>1, <2>3, <2>4, <2>5 DEF IInv
<1>5. CASE EndVectorWrite(s)
  <2>1. TypeOK'
    <3>0. Head(scanned[s]) \in Line
      BY <1>b, <1>c, <1>5 DEF EndVectorWrite, HeadIsOut
    <3>1. cpc' \in [Streams -> Places]
      BY <1>a, <3>0, <1>5 DEF EndVectorWrite, TypeOK, Places
    <3>2. shipped' \in [Streams -> Seq(Line)]
      <4>1. CASE shipped' = shipped
        BY <4>1 DEF TypeOK
      <4>2. CASE shipped' = [shipped EXCEPT ![s] = Append(@, Head(scanned[s]))]
        <5>1. Append(shipped[s], Head(scanned[s])) \in Seq(Line)
          BY <1>b, <3>0
        <5> QED
          BY <4>2, <5>1 DEF TypeOK
      <4> QED
        BY <1>5, <4>1, <4>2 DEF EndVectorWrite
    <3>3. notices' \in [Notices -> Nat]
      <4>1. CASE notices' = notices
        BY <4>1 DEF TypeOK
      <4>2. CASE Notify("vectorWriteFailed")
        BY <1>a, <4>2 DEF TypeOK, Notify
      <4> QED
        BY <1>5, <4>1, <4>2 DEF EndVectorWrite
    <3> QED
      BY <1>5, <3>0, <3>1, <3>2, <3>3 DEF EndVectorWrite, TypeOK, program, vectorVars, brokerVars, waitVars
  <2>2. /\ \A t \in Streams \ {s} : UNCHANGED <<streamed[t], scanned[t], pipe[t], written[t], cpc[t], shipped[t]>>
        /\ cpc[s] = "writing" /\ cpc'[s] = "record"
        /\ UNCHANGED <<streamed[s], scanned[s], pipe[s], written[s]>>
    BY <1>5 DEF EndVectorWrite, TypeOK, program, vectorVars, brokerVars, waitVars
  <2>3. LinesInv'
    <3>1. ASSUME NEW t \in Streams \ {s} PROVE LinesOf(t)'
      BY <2>2, LinesFrame DEF LinesInv, HeadIsOut
    <3>2. LinesOf(s)'
      BY <2>2, LinesFrame DEF LinesInv, HeadIsOut
    <3> QED
      BY <3>1, <3>2 DEF LinesInv
  <2>4. VectorInv'
    <3>0. /\ vector' = vector /\ (lineWriteDead => lineWriteDead')
          /\ \A t \in Streams \ {s} : cpc[t] = "writing" => UNCHANGED <<lineWriterMu, lineWriteDead>>
      BY <1>a, <1>5 DEF EndVectorWrite, VectorInv, VectorOf, vectorVars
    <3>1. ASSUME NEW t \in Streams \ {s} PROVE VectorOf(t)'
      BY <2>2, <3>0, VectorFrame DEF VectorInv
    <3>2. VectorOf(s)'
      <4>1. /\ Recorded(s)' = Recorded(s) /\ Len(shipped[s]) = Recorded(s) /\ HeadIsOut(s)
            /\ ~lineWriteDead
        BY <1>b, <2>2 DEF Recorded, HeadIsOut, VectorOf
      <4>2. Head(scanned[s]) = <<s, Recorded(s) + 1>>
        BY <1>c, <4>1
      <4>3. CASE lineWriteDead'
        <5>1. shipped'[s] = shipped[s]
          BY <1>5, <4>1, <4>3 DEF EndVectorWrite
        <5> QED
          BY <1>b, <2>2, <4>3, <5>1 DEF VectorOf
      <4>4. CASE ~lineWriteDead'
        <5>1. shipped'[s] = Append(shipped[s], Head(scanned[s]))
          BY <1>5, <4>4 DEF EndVectorWrite, TypeOK
        <5>2. /\ Len(shipped'[s]) = Len(shipped[s]) + 1
              /\ \A i \in 1..Len(shipped'[s]) : shipped'[s][i] = <<s, i>>
          BY <1>b, <4>1, <4>2, <5>1, SMTT(30) DEF VectorOf
        <5> QED
          BY <1>b, <2>2, <4>1, <5>2 DEF VectorOf
      <4> QED
        BY <4>3, <4>4
    <3>3. /\ lineWriteDead' => vector' = "down"
          /\ notices'["vectorWriteFailed"] = (IF lineWriteDead' THEN 1 ELSE 0)
      BY <1>a, <1>5 DEF EndVectorWrite, VectorInv, VectorOf, TypeOK, Notify, vectorVars, brokerVars
    <3> QED
      BY <3>1, <3>2, <3>3 DEF VectorInv
  <2>5. WaitInv'
    BY <1>5 DEF EndVectorWrite, WaitInv, program, waitVars
  <2> QED
    BY <2>1, <2>3, <2>4, <2>5 DEF IInv
<1>6. CASE RecordRecentLine(s)
  <2>1. TypeOK'
    <3>0. Len(scanned[s]) > 0 /\ Tail(scanned[s]) \in Seq(Line)
      BY <1>b, <1>c, <1>6 DEF RecordRecentLine, HeadIsOut
    <3>1. scanned' \in [Streams -> Seq(Line)]
      BY <1>a, <3>0, <1>6 DEF RecordRecentLine, TypeOK, Places
    <3>2. cpc' \in [Streams -> Places]
      BY <1>a, <3>0, <1>6 DEF RecordRecentLine, TypeOK, Places
    <3> QED
      BY <1>6, <3>0, <3>1, <3>2 DEF RecordRecentLine, TypeOK, program, vectorVars, brokerVars, waitVars
  <2>2. /\ \A t \in Streams \ {s} : UNCHANGED <<streamed[t], scanned[t], pipe[t], written[t], cpc[t], shipped[t]>>
        /\ scanned'[s] = Tail(scanned[s]) /\ cpc[s] = "record" /\ cpc'[s] = "scan"
        /\ UNCHANGED <<streamed[s], pipe[s], written[s], shipped[s]>>
    BY <1>6 DEF RecordRecentLine, TypeOK, program, vectorVars, brokerVars, waitVars
  <2>3. LinesInv'
    <3>1. ASSUME NEW t \in Streams \ {s} PROVE LinesOf(t)'
      BY <2>2, LinesFrame DEF LinesInv, HeadIsOut
    <3>2. LinesOf(s)'
      <4>1. /\ HeadIsOut(s) /\ ~HeadIsOut(s)' /\ Len(scanned[s]) > 0 /\ Len(streamed[s]) > 0
            /\ Recorded(s) = Len(streamed[s]) - 1 /\ Recorded(s)' = Len(streamed[s])
        BY <1>b, <1>c, <2>2 DEF Recorded, HeadIsOut, LinesOf
      <4>2. /\ Len(scanned'[s]) = Len(scanned[s]) - 1
            /\ \A i \in 1..Len(scanned'[s]) : scanned'[s][i] = scanned[s][i + 1]
        BY <1>b, <2>2, <4>1
      <4>3. \A i \in 1..Len(scanned'[s]) : scanned'[s][i] = <<s, Recorded(s)' + i>>
        <5> SUFFICES ASSUME NEW i \in 1..Len(scanned'[s])
                     PROVE  scanned'[s][i] = <<s, Recorded(s)' + i>>
          OBVIOUS
        <5>1. i \in Nat /\ i + 1 \in 1..Len(scanned[s]) /\ scanned'[s][i] = scanned[s][i + 1]
          BY <1>b, <4>1, <4>2
        <5>a. PICK l \in Nat : l = Len(streamed[s])
          BY <1>b
        <5>b. Recorded(s) = l - 1 /\ Recorded(s)' = l
          BY <4>1, <5>a
        <5>3. Recorded(s) + (i + 1) = Recorded(s)' + i
          BY <5>b, <5>1
        <5>2. scanned[s][i + 1] = <<s, Recorded(s) + (i + 1)>>
          BY <1>b, <5>1 DEF LinesOf
        <5> QED
          BY <5>1, <5>2, <5>3
      <4>4. /\ \A i \in 1..Len(pipe'[s]) :
                   pipe'[s][i] = <<s, Recorded(s)' + Len(scanned'[s]) + i>>
            /\ Recorded(s)' + Len(scanned'[s]) + Len(pipe'[s]) = written'[s]
        <5>a. PICK l \in Nat, m \in Nat, k \in Nat :
                  l = Len(streamed[s]) /\ m = Len(scanned[s]) /\ k = Len(scanned'[s])
          BY <1>b, <4>1, <4>2
        <5>b. Recorded(s) = l - 1 /\ Recorded(s)' = l /\ k = m - 1
          BY <4>1, <4>2, <5>a
        <5>c. PICK d \in Int : d = Recorded(s) + m /\ d = Recorded(s)' + k
          BY <5>b
        <5>1. /\ d = Recorded(s) + Len(scanned[s]) /\ d = Recorded(s)' + Len(scanned'[s])
              /\ pipe'[s] = pipe[s] /\ written'[s] = written[s]
          BY <2>2, <5>a, <5>c
        <5>2. /\ \A i \in 1..Len(pipe[s]) : pipe[s][i] = <<s, d + i>>
              /\ d + Len(pipe[s]) = written[s]
          BY <1>b, <1>c, <5>1 DEF LinesOf
        <5> QED
          BY <5>1, <5>2
      <4>5. \A i \in 1..Len(streamed'[s]) : streamed'[s][i] = <<s, i>>
        BY <1>b, <2>2 DEF LinesOf
      <4> QED
        BY <4>1, <4>3, <4>4, <4>5 DEF LinesOf
    <3> QED
      BY <3>1, <3>2 DEF LinesInv
  <2>4. VectorInv'
    <3>0. /\ vector' = vector /\ (lineWriteDead => lineWriteDead')
          /\ \A t \in Streams \ {s} : cpc[t] = "writing" => UNCHANGED <<lineWriterMu, lineWriteDead>>
      BY <1>a, <1>6 DEF RecordRecentLine, VectorInv, VectorOf, vectorVars
    <3>1. ASSUME NEW t \in Streams \ {s} PROVE VectorOf(t)'
      BY <2>2, <3>0, VectorFrame DEF VectorInv
    <3>2. VectorOf(s)'
      <4>1. Recorded(s)' = Recorded(s) + 1
        BY <1>b, <2>2 DEF Recorded, HeadIsOut
      <4> QED
        BY <1>b, <1>6, <2>2, <3>0, <4>1 DEF RecordRecentLine, VectorOf, vectorVars
    <3>3. /\ lineWriteDead' => vector' = "down"
          /\ notices'["vectorWriteFailed"] = (IF lineWriteDead' THEN 1 ELSE 0)
      BY <1>a, <1>6 DEF RecordRecentLine, VectorInv, VectorOf, TypeOK, Notify, vectorVars, brokerVars
    <3> QED
      BY <3>1, <3>2, <3>3 DEF VectorInv
  <2>5. WaitInv'
    BY <1>6 DEF RecordRecentLine, WaitInv, program, waitVars
  <2> QED
    BY <2>1, <2>3, <2>4, <2>5 DEF IInv
<1>7. CASE EndOfFile(s)
  <2>1. TypeOK'
    <3>1. cpc' \in [Streams -> Places]
      BY <1>a, <1>7 DEF EndOfFile, TypeOK, Places
    <3> QED
      BY <1>7, <3>1 DEF EndOfFile, TypeOK, program, vectorVars, brokerVars, waitVars
  <2>2. /\ \A t \in Streams \ {s} : UNCHANGED <<streamed[t], scanned[t], pipe[t], written[t], cpc[t], shipped[t]>>
        /\ cpc[s] = "scan" /\ cpc'[s] = "done"
        /\ UNCHANGED <<streamed[s], scanned[s], pipe[s], written[s], shipped[s]>>
    BY <1>7 DEF EndOfFile, TypeOK, program, vectorVars, brokerVars, waitVars
  <2>3. LinesInv'
    <3>1. ASSUME NEW t \in Streams \ {s} PROVE LinesOf(t)'
      BY <2>2, LinesFrame DEF LinesInv, HeadIsOut
    <3>2. LinesOf(s)'
      BY <2>2, LinesFrame DEF LinesInv, HeadIsOut
    <3> QED
      BY <3>1, <3>2 DEF LinesInv
  <2>4. VectorInv'
    <3>0. /\ vector' = vector /\ (lineWriteDead => lineWriteDead')
          /\ \A t \in Streams \ {s} : cpc[t] = "writing" => UNCHANGED <<lineWriterMu, lineWriteDead>>
      BY <1>a, <1>7 DEF EndOfFile, VectorInv, VectorOf, vectorVars
    <3>1. ASSUME NEW t \in Streams \ {s} PROVE VectorOf(t)'
      BY <2>2, <3>0, VectorFrame DEF VectorInv
    <3>2. VectorOf(s)'
      <4>1. Recorded(s)' = Recorded(s)
        BY <2>2 DEF Recorded, HeadIsOut
      <4> QED
        BY <1>b, <1>7, <2>2, <3>0, <4>1 DEF EndOfFile, VectorOf, vectorVars
    <3>3. /\ lineWriteDead' => vector' = "down"
          /\ notices'["vectorWriteFailed"] = (IF lineWriteDead' THEN 1 ELSE 0)
      BY <1>a, <1>7 DEF EndOfFile, VectorInv, VectorOf, TypeOK, Notify, vectorVars, brokerVars
    <3> QED
      BY <3>1, <3>2, <3>3 DEF VectorInv
  <2>5. WaitInv'
    BY <1>7 DEF EndOfFile, WaitInv, program, waitVars
  <2> QED
    BY <2>1, <2>3, <2>4, <2>5 DEF IInv
<1>8. CASE ScanError(s)
  <2>1. TypeOK'
    <3>1. cpc' \in [Streams -> Places]
      BY <1>a, <1>8 DEF ScanError, TypeOK, Places
    <3> QED
      BY <1>8, <3>1 DEF ScanError, TypeOK, program, vectorVars, brokerVars, waitVars
  <2>2. /\ \A t \in Streams \ {s} : UNCHANGED <<streamed[t], scanned[t], pipe[t], written[t], cpc[t], shipped[t]>>
        /\ cpc[s] = "scan" /\ cpc'[s] = "error"
        /\ UNCHANGED <<streamed[s], scanned[s], pipe[s], written[s], shipped[s]>>
    BY <1>8 DEF ScanError, TypeOK, program, vectorVars, brokerVars, waitVars
  <2>3. LinesInv'
    <3>1. ASSUME NEW t \in Streams \ {s} PROVE LinesOf(t)'
      BY <2>2, LinesFrame DEF LinesInv, HeadIsOut
    <3>2. LinesOf(s)'
      BY <2>2, LinesFrame DEF LinesInv, HeadIsOut
    <3> QED
      BY <3>1, <3>2 DEF LinesInv
  <2>4. VectorInv'
    <3>0. /\ vector' = vector /\ (lineWriteDead => lineWriteDead')
          /\ \A t \in Streams \ {s} : cpc[t] = "writing" => UNCHANGED <<lineWriterMu, lineWriteDead>>
      BY <1>a, <1>8 DEF ScanError, VectorInv, VectorOf, vectorVars
    <3>1. ASSUME NEW t \in Streams \ {s} PROVE VectorOf(t)'
      BY <2>2, <3>0, VectorFrame DEF VectorInv
    <3>2. VectorOf(s)'
      <4>1. Recorded(s)' = Recorded(s)
        BY <2>2 DEF Recorded, HeadIsOut
      <4> QED
        BY <1>b, <1>8, <2>2, <3>0, <4>1 DEF ScanError, VectorOf, vectorVars
    <3>3. /\ lineWriteDead' => vector' = "down"
          /\ notices'["vectorWriteFailed"] = (IF lineWriteDead' THEN 1 ELSE 0)
      BY <1>a, <1>8 DEF ScanError, VectorInv, VectorOf, TypeOK, Notify, vectorVars, brokerVars
    <3> QED
      BY <3>1, <3>2, <3>3 DEF VectorInv
  <2>5. WaitInv'
    BY <1>8 DEF ScanError, WaitInv, program, waitVars
  <2> QED
    BY <2>1, <2>3, <2>4, <2>5 DEF IInv
<1>9. CASE AbandonStream(s)
  <2>1. TypeOK'
    <3>1. cpc' \in [Streams -> Places]
      BY <1>a, <1>9 DEF AbandonStream, TypeOK, Places
    <3>2. notices' \in [Notices -> Nat]
      BY <1>a, <1>9, SMTT(30) DEF AbandonStream, TypeOK, Places, Notify
    <3> QED
      BY <1>9, <3>1, <3>2 DEF AbandonStream, TypeOK, program, vectorVars, brokerVars, waitVars
  <2>2. /\ \A t \in Streams \ {s} : UNCHANGED <<streamed[t], scanned[t], pipe[t], written[t], cpc[t], shipped[t]>>
        /\ cpc[s] = "error" /\ cpc'[s] = "done"
        /\ UNCHANGED <<streamed[s], scanned[s], pipe[s], written[s], shipped[s]>>
    BY <1>9 DEF AbandonStream, TypeOK, program, vectorVars, brokerVars, waitVars
  <2>3. LinesInv'
    <3>1. ASSUME NEW t \in Streams \ {s} PROVE LinesOf(t)'
      BY <2>2, LinesFrame DEF LinesInv, HeadIsOut
    <3>2. LinesOf(s)'
      BY <2>2, LinesFrame DEF LinesInv, HeadIsOut
    <3> QED
      BY <3>1, <3>2 DEF LinesInv
  <2>4. VectorInv'
    <3>0. /\ vector' = vector /\ (lineWriteDead => lineWriteDead')
          /\ \A t \in Streams \ {s} : cpc[t] = "writing" => UNCHANGED <<lineWriterMu, lineWriteDead>>
      BY <1>a, <1>9 DEF AbandonStream, VectorInv, VectorOf, vectorVars
    <3>1. ASSUME NEW t \in Streams \ {s} PROVE VectorOf(t)'
      BY <2>2, <3>0, VectorFrame DEF VectorInv
    <3>2. VectorOf(s)'
      <4>1. Recorded(s)' = Recorded(s)
        BY <2>2 DEF Recorded, HeadIsOut
      <4> QED
        BY <1>b, <1>9, <2>2, <3>0, <4>1 DEF AbandonStream, VectorOf, vectorVars
    <3>3. /\ lineWriteDead' => vector' = "down"
          /\ notices'["vectorWriteFailed"] = (IF lineWriteDead' THEN 1 ELSE 0)
      BY <1>a, <1>9 DEF AbandonStream, VectorInv, VectorOf, TypeOK, Notify, vectorVars, brokerVars
    <3> QED
      BY <3>1, <3>2, <3>3 DEF VectorInv
  <2>5. WaitInv'
    BY <1>9 DEF AbandonStream, WaitInv, program, waitVars
  <2> QED
    BY <2>1, <2>3, <2>4, <2>5 DEF IInv
<1> QED
  BY <1>1, <1>2, <1>3, <1>4, <1>5, <1>6, <1>7, <1>8, <1>9 DEF ConsumeOutput

\* So do those of waitForExit.
LEMMA WaitForExitIInv == IInv /\ WaitForExit => IInv'
<1> SUFFICES ASSUME IInv, WaitForExit PROVE IInv'
  OBVIOUS
<1> USE DEF IInv, program, vectorVars, brokerVars, Notify
<1>a. "targetExited" \in Notices /\ "vectorWriteFailed" \in Notices
  BY DEF Notices
<1>1. CASE Wait
  <2> USE <1>1 DEF Wait
  <2>1. TypeOK'
    BY DEF TypeOK
  <2>2. LinesInv'
    BY LinesFrame DEF LinesInv, HeadIsOut
  <2>3. VectorInv'
    BY VectorFrame DEF VectorInv
  <2>4. WaitInv'
    BY DEF WaitInv
  <2> QED
    BY <2>1, <2>2, <2>3, <2>4 DEF IInv
<1>2. CASE AnnounceExit
  <2> USE <1>2 DEF AnnounceExit
  <2>1. TypeOK'
    <3>1. notices' \in [Notices -> Nat]
      BY <1>a DEF TypeOK
    <3> QED
      BY <3>1 DEF TypeOK
  <2>2. LinesInv'
    BY LinesFrame DEF LinesInv, HeadIsOut
  <2>3. VectorInv'
    BY VectorFrame DEF VectorInv
  <2>4. WaitInv'
    BY DEF WaitInv
  <2> QED
    BY <2>1, <2>2, <2>3, <2>4 DEF IInv
<1>3. CASE AddRecord
  <2> USE <1>3 DEF AddRecord
  <2>1. TypeOK'
    BY DEF TypeOK
  <2>2. LinesInv'
    BY LinesFrame DEF LinesInv, HeadIsOut
  <2>3. VectorInv'
    BY VectorFrame DEF VectorInv
  <2>4. WaitInv'
    BY DEF WaitInv
  <2> QED
    BY <2>1, <2>2, <2>3, <2>4 DEF IInv
<1>4. CASE ReportDone
  <2> USE <1>4 DEF ReportDone
  <2>1. TypeOK'
    BY DEF TypeOK
  <2>2. LinesInv'
    BY LinesFrame DEF LinesInv, HeadIsOut
  <2>3. VectorInv'
    BY VectorFrame DEF VectorInv
  <2>4. WaitInv'
    BY DEF WaitInv
  <2> QED
    BY <2>1, <2>2, <2>3, <2>4 DEF IInv
<1> QED
  BY <1>1, <1>2, <1>3, <1>4 DEF WaitForExit

\* And those of the program and of vector.
LEMMA EnvironmentIInv == IInv /\ Environment => IInv'
<1> SUFFICES ASSUME IInv, Environment PROVE IInv'
  OBVIOUS
<1> USE DEF IInv, program, vectorVars, brokerVars, waitVars
<1>a. Notices # {}
  BY DEF Notices
<1>1. CASE End
  <2> USE <1>1 DEF End
  <2>1. TypeOK'
    BY DEF TypeOK
  <2>2. LinesInv'
    BY LinesFrame DEF LinesInv, HeadIsOut
  <2>3. VectorInv'
    BY VectorFrame DEF VectorInv
  <2>4. WaitInv'
    BY DEF WaitInv, Outcomes
  <2> QED
    BY <2>1, <2>2, <2>3, <2>4 DEF IInv
<1>2. CASE DescendantsEnd
  <2> USE <1>2 DEF DescendantsEnd
  <2>1. TypeOK'
    BY DEF TypeOK
  <2>2. LinesInv'
    BY LinesFrame DEF LinesInv, HeadIsOut
  <2>3. VectorInv'
    BY VectorFrame DEF VectorInv
  <2>4. WaitInv'
    BY DEF WaitInv, Outcomes
  <2> QED
    BY <2>1, <2>2, <2>3, <2>4 DEF IInv
<1>3. CASE VectorReads
  <2> USE <1>3 DEF VectorReads
  <2>1. TypeOK'
    BY DEF TypeOK
  <2>2. LinesInv'
    BY LinesFrame DEF LinesInv, HeadIsOut
  <2>3. VectorInv'
    BY VectorFrame DEF VectorInv
  <2>4. WaitInv'
    BY DEF WaitInv, Outcomes
  <2> QED
    BY <2>1, <2>2, <2>3, <2>4 DEF IInv
<1>4. CASE VectorEnds
  <2> USE <1>4 DEF VectorEnds
  <2>1. TypeOK'
    BY DEF TypeOK
  <2>2. LinesInv'
    BY LinesFrame DEF LinesInv, HeadIsOut
  <2>3. VectorInv'
    BY VectorFrame DEF VectorInv
  <2>4. WaitInv'
    BY DEF WaitInv, Outcomes
  <2> QED
    BY <2>1, <2>2, <2>3, <2>4 DEF IInv
<1>5. ASSUME NEW s \in Streams, Write(s) PROVE IInv'
  <2>1. TypeOK'
    <3>0. <<s, written[s] + 1>> \in Line
      BY DEF TypeOK, LinesInv, LinesOf, HeadIsOut, Recorded, Line
    <3>1. written' \in [Streams -> Nat]
      BY <1>a, <3>0, <1>5 DEF Write, TypeOK, Places
    <3>2. pipe' \in [Streams -> Seq(Line)]
      BY <1>a, <3>0, <1>5 DEF Write, TypeOK, Places
    <3> QED
      BY <1>5, <3>0, <3>1, <3>2 DEF Write, TypeOK, program, vectorVars, brokerVars, waitVars
  <2>2. /\ \A t \in Streams \ {s} : UNCHANGED <<streamed[t], scanned[t], pipe[t], written[t], cpc[t], shipped[t]>>
        /\ pipe'[s] = Append(pipe[s], <<s, written[s] + 1>>) /\ written'[s] = written[s] + 1
        /\ UNCHANGED <<streamed[s], scanned[s], cpc[s], shipped[s]>>
    BY <1>5 DEF Write, TypeOK, program, vectorVars, brokerVars, waitVars
  <2>3. LinesInv'
    <3>1. ASSUME NEW t \in Streams \ {s} PROVE LinesOf(t)'
      BY <2>2, LinesFrame DEF LinesInv, HeadIsOut
    <3>2. LinesOf(s)'
      <4>1. Recorded(s)' = Recorded(s) /\ (HeadIsOut(s)' <=> HeadIsOut(s))
        BY <2>2 DEF Recorded, HeadIsOut
      <4>2. /\ pipe[s] \in Seq(Line) /\ LinesOf(s) /\ Len(pipe[s]) \in Nat /\ Len(scanned[s]) \in Nat
            /\ Recorded(s) \in Int /\ written[s] \in Nat
            /\ Recorded(s) + Len(scanned[s]) + Len(pipe[s]) = written[s]
        BY DEF TypeOK, LinesInv, LinesOf, Recorded
      <4>3. /\ Len(pipe'[s]) = Len(pipe[s]) + 1
            /\ \A i \in 1..Len(pipe[s]) : pipe'[s][i] = pipe[s][i]
            /\ pipe'[s][Len(pipe[s]) + 1] = <<s, written[s] + 1>>
        BY <2>2, <4>2
      <4>4. ASSUME NEW i \in 1..Len(pipe'[s])
            PROVE  pipe'[s][i] = <<s, Recorded(s) + Len(scanned[s]) + i>>
        <5>1. CASE i = Len(pipe[s]) + 1
          <6>a. PICK r \in Int, m \in Nat, n \in Nat :
                    r = Recorded(s) /\ m = Len(scanned[s]) /\ n = Len(pipe[s])
            BY <4>2
          <6>b. r + m + n = written[s] /\ i = n + 1
            BY <4>2, <5>1, <6>a
          <6>c. written[s] + 1 = r + m + i
            BY <6>b
          <6>1. written[s] + 1 = Recorded(s) + Len(scanned[s]) + i
            BY <6>a, <6>c
          <6> QED
            BY <4>3, <5>1, <6>1
        <5>2. CASE i # Len(pipe[s]) + 1
          <6>1. i \in 1..Len(pipe[s])
            BY <4>2, <4>3, <5>2
          <6> QED
            BY <4>2, <4>3, <6>1 DEF LinesOf
        <5> QED
          BY <5>1, <5>2
      <4>5. Recorded(s)' + Len(scanned'[s]) + Len(pipe'[s]) = written'[s]
        <5>1. PICK r \in Int, m \in Nat, n \in Nat :
                  r = Recorded(s) /\ m = Len(scanned[s]) /\ n = Len(pipe[s])
          BY <4>2
        <5>2. r + m + n = written[s]
          BY <4>2, <5>1
        <5>3. Recorded(s)' = r /\ Len(scanned'[s]) = m /\ Len(pipe'[s]) = n + 1
          BY <2>2, <4>1, <4>3, <5>1
        <5>4. r + m + (n + 1) = written[s] + 1
          BY <4>2, <5>2
        <5> QED
          BY <2>2, <5>3, <5>4
      <4>6. /\ streamed'[s] = streamed[s] /\ scanned'[s] = scanned[s]
        BY <2>2
      <4> QED
        BY <4>1, <4>2, <4>4, <4>5, <4>6 DEF LinesOf
    <3> QED
      BY <3>1, <3>2 DEF LinesInv
  <2>4. VectorInv'
    <3>0. /\ vector' = vector /\ (lineWriteDead => lineWriteDead')
          /\ \A t \in Streams \ {s} : cpc[t] = "writing" => UNCHANGED <<lineWriterMu, lineWriteDead>>
      BY <1>a, <1>5 DEF Write, VectorInv, VectorOf, vectorVars
    <3>1. ASSUME NEW t \in Streams \ {s} PROVE VectorOf(t)'
      BY <2>2, <3>0, VectorFrame DEF VectorInv
    <3>2. VectorOf(s)'
      BY <2>2, <3>0, <1>5, VectorFrame DEF Write, VectorInv, vectorVars
    <3>3. /\ lineWriteDead' => vector' = "down"
          /\ notices'["vectorWriteFailed"] = (IF lineWriteDead' THEN 1 ELSE 0)
      BY <1>a, <1>5 DEF Write, VectorInv, VectorOf, TypeOK, Notify, vectorVars, brokerVars
    <3> QED
      BY <3>1, <3>2, <3>3 DEF VectorInv
  <2>5. WaitInv'
    BY <1>5 DEF Write, WaitInv, program, waitVars
  <2> QED
    BY <2>1, <2>3, <2>4, <2>5 DEF IInv
<1> QED
  BY <1>1, <1>2, <1>3, <1>4, <1>5 DEF Environment

\* IInv is an invariant.
THEOREM Invariance == Spec => []IInv
<1>1. IInv /\ [Next]_vars => IInv'
  <2> SUFFICES ASSUME IInv, [Next]_vars PROVE IInv'
    OBVIOUS
  <2>1. CASE Next
    BY <2>1, ConsumeOutputIInv, WaitForExitIInv, EnvironmentIInv DEF Next
  <2>2. CASE UNCHANGED vars
    BY <2>2, SMTT(30) DEF IInv, TypeOK, LinesInv, LinesOf, VectorInv, VectorOf, WaitInv, HeadIsOut, Recorded, vars
  <2> QED
    BY <2>1, <2>2
<1> QED
  BY <1>1, InitIInv, PTL DEF Spec

\* A sequence of lines in order is Lines.
LEMMA InOrder ==
    ASSUME NEW s \in Streams, NEW q \in Seq(Line),
           \A i \in 1..Len(q) : q[i] = <<s, i>>
    PROVE  q = Lines(s, 1, Len(q))
<1>1. Len(q) \in Nat /\ q = [i \in 1..Len(q) |-> q[i]]
  OBVIOUS
<1>2. [i \in 1..Len(q) |-> q[i]] = [i \in 1..Len(q) |-> <<s, i>>]
  OBVIOUS
<1>3. Lines(s, 1, Len(q)) = [i \in 1..Len(q) |-> <<s, i>>]
  BY <1>1 DEF Lines
<1> QED
  BY <1>1, <1>2, <1>3

\* A sequence in order stays in order with what comes next.
LEMMA InOrderTwo ==
    ASSUME NEW s \in Streams, NEW a \in Seq(Line), NEW b \in Seq(Line),
           \A i \in 1..Len(a) : a[i] = <<s, i>>,
           \A i \in 1..Len(b) : b[i] = <<s, Len(a) + i>>
    PROVE  /\ a \o b \in Seq(Line) /\ Len(a \o b) = Len(a) + Len(b)
           /\ \A i \in 1..Len(a \o b) : (a \o b)[i] = <<s, i>>
<1>1. a \o b \in Seq(Line) /\ Len(a \o b) = Len(a) + Len(b)
  OBVIOUS
<1>2. ASSUME NEW i \in 1..Len(a \o b)
      PROVE  (a \o b)[i] = <<s, i>>
  <2>1. CASE i \in 1..Len(a)
    <3>1. (a \o b)[i] = a[i]
      BY <2>1
    <3> QED
      BY <2>1, <3>1
  <2>2. CASE i \notin 1..Len(a)
    <3>1. PICK l \in Nat, j \in Int : l = Len(a) /\ j = i - l
      OBVIOUS
    <3>2. j \in 1..Len(b) /\ i = l + j
      BY <1>1, <2>2, <3>1
    <3>3. (a \o b)[i] = b[j]
      BY <1>1, <3>1, <3>2
    <3>4. b[j] = <<s, l + j>>
      BY <3>1, <3>2
    <3> QED
      BY <3>2, <3>3, <3>4
  <2> QED
    BY <2>1, <2>2
<1> QED
  BY <1>1, <1>2

\* So three such sequences, one after the other, are Lines.
LEMMA InOrderAcross ==
    ASSUME NEW s \in Streams, NEW a \in Seq(Line), NEW b \in Seq(Line), NEW c \in Seq(Line),
           \A i \in 1..Len(a) : a[i] = <<s, i>>,
           \A i \in 1..Len(b) : b[i] = <<s, Len(a) + i>>,
           \A i \in 1..Len(c) : c[i] = <<s, Len(a) + Len(b) + i>>
    PROVE  a \o b \o c = Lines(s, 1, Len(a) + Len(b) + Len(c))
<1>1. PICK ab \in Seq(Line) : /\ ab = a \o b /\ Len(ab) = Len(a) + Len(b)
                             /\ \A i \in 1..Len(ab) : ab[i] = <<s, i>>
  BY InOrderTwo
<1>2. \A i \in 1..Len(c) : c[i] = <<s, Len(ab) + i>>
  BY <1>1
<1>3. /\ ab \o c \in Seq(Line) /\ Len(ab \o c) = Len(ab) + Len(c)
      /\ \A i \in 1..Len(ab \o c) : (ab \o c)[i] = <<s, i>>
  BY <1>1, <1>2, InOrderTwo
<1>4. ab \o c = Lines(s, 1, Len(ab \o c))
  BY <1>3, InOrder
<1> QED
  BY <1>1, <1>3, <1>4

\* StreamIntact, for every number of lines and every capacity.
THEOREM StreamIntactHolds == Spec => []StreamIntact
<1>1. IInv => StreamIntact
  <2> SUFFICES ASSUME IInv, NEW s \in Streams
               PROVE  streamed[s] \o (IF HeadIsOut(s) THEN Tail(scanned[s]) ELSE scanned[s])
                          \o pipe[s] = Lines(s, 1, written[s])
    BY DEF StreamIntact
  <2> DEFINE rest == IF HeadIsOut(s) THEN Tail(scanned[s]) ELSE scanned[s]
  <2>1. /\ streamed[s] \in Seq(Line) /\ pipe[s] \in Seq(Line) /\ scanned[s] \in Seq(Line)
        /\ written[s] \in Nat
    BY DEF IInv, TypeOK
  <2>2. \A i \in 1..Len(streamed[s]) : streamed[s][i] = <<s, i>>
    BY DEF IInv, LinesInv, LinesOf
  <2>3. /\ rest \in Seq(Line)
        /\ Len(streamed[s]) + Len(rest) + Len(pipe[s]) = written[s]
        /\ \A i \in 1..Len(rest) : rest[i] = <<s, Len(streamed[s]) + i>>
        /\ \A i \in 1..Len(pipe[s]) : pipe[s][i] = <<s, Len(streamed[s]) + Len(rest) + i>>
    <3>1. PICK l \in Nat, m \in Nat, r \in Int :
              l = Len(streamed[s]) /\ m = Len(scanned[s]) /\ r = Recorded(s)
      BY <2>1, RecordedIs
    <3>2. /\ HeadIsOut(s) => r = l - 1 /\ m > 0
          /\ ~HeadIsOut(s) => r = l
          /\ \A i \in 1..m : scanned[s][i] = <<s, r + i>>
          /\ \A i \in 1..Len(pipe[s]) : pipe[s][i] = <<s, r + m + i>>
          /\ r + m + Len(pipe[s]) = written[s]
      BY <2>1, <3>1, RecordedIs DEF IInv, LinesInv, LinesOf
    <3>3. CASE HeadIsOut(s)
      <4>1. /\ rest = Tail(scanned[s]) /\ rest \in Seq(Line) /\ Len(rest) = m - 1
            /\ \A i \in 1..Len(rest) : rest[i] = scanned[s][i + 1]
        BY <2>1, <3>1, <3>2, <3>3
      <4> HIDE DEF rest
      <4>2. r + m = l + (m - 1)
        BY <3>2, <3>3
      <4>3. ASSUME NEW i \in 1..(m - 1)
            PROVE  rest[i] = <<s, l + i>>
        <5>1. i + 1 \in 1..m /\ r + (i + 1) = l + i
          BY <3>2, <3>3
        <5> QED
          BY <3>2, <4>1, <5>1
      <4>4. /\ l + (m - 1) + Len(pipe[s]) = written[s]
            /\ \A i \in 1..Len(pipe[s]) : pipe[s][i] = <<s, l + (m - 1) + i>>
        BY <3>2, <4>2
      <4> QED
        BY <3>1, <4>1, <4>3, <4>4
    <3>4. CASE ~HeadIsOut(s)
      <4>1. rest = scanned[s]
        BY <3>4
      <4> HIDE DEF rest
      <4> QED
        BY <2>1, <3>1, <3>2, <3>4, <4>1
    <3> QED
      BY <3>3, <3>4
  <2> HIDE DEF rest
  <2>4. streamed[s] \o rest \o pipe[s]
            = Lines(s, 1, Len(streamed[s]) + Len(rest) + Len(pipe[s]))
    BY <2>1, <2>2, <2>3, InOrderAcross
  <2> QED
    BY <2>3, <2>4 DEF rest
<1> QED
  BY <1>1, Invariance, PTL

\* VectorGapless, for every number of lines and every capacity.
THEOREM VectorGaplessHolds == Spec => []VectorGapless
<1>1. IInv => VectorGapless
  <2> SUFFICES ASSUME IInv PROVE VectorGapless
    OBVIOUS
  <2>1. ASSUME NEW s \in Streams
        PROVE  /\ shipped[s] = Lines(s, 1, Len(shipped[s]))
               /\ vector = "up" => Len(shipped[s]) >= Recorded(s)
    <3>1. shipped[s] = Lines(s, 1, Len(shipped[s]))
      BY InOrder DEF IInv, TypeOK, VectorInv, VectorOf
    <3>2. vector = "up" => Len(shipped[s]) >= Recorded(s)
      <4>1. Len(shipped[s]) \in Nat /\ Recorded(s) \in Int
        BY DEF IInv, TypeOK, Recorded
      <4> QED
        BY <4>1 DEF IInv, VectorInv, VectorOf
    <3> QED
      BY <3>1, <3>2
  <2> QED
    BY <2>1 DEF IInv, VectorInv, VectorGapless
<1> QED
  BY <1>1, Invariance, PTL

-----------------------------------------------------------------------------
(* The recent lines.                                                       *)

\* The lines that follow a line in a sequence can be counted.
LEMMA LaterIsFinite ==
    ASSUME NEW q \in Seq(Line), NEW i \in 1..Len(q)
    PROVE  IsFiniteSet(Later(q, i)) /\ Cardinality(Later(q, i)) \in Nat
<1>1. IsFiniteSet(1..Len(q)) /\ Later(q, i) \subseteq 1..Len(q)
  BY FS_Interval DEF Later
<1>2. IsFiniteSet(Later(q, i))
  BY <1>1, FS_Subset
<1> QED
  BY <1>2, FS_CardinalityType

\* An appended line follows those of its stream.
LEMMA LaterAfterAppend ==
    ASSUME NEW q \in Seq(Line), NEW l \in Line, NEW i \in 1..Len(q)
    PROVE  Cardinality(Later(Append(q, l), i))
               = Cardinality(Later(q, i)) + (IF l[1] = q[i][1] THEN 1 ELSE 0)
<1> DEFINE p == Append(q, l)
<1>1. /\ Len(q) \in Nat /\ Len(p) = Len(q) + 1 /\ p[Len(q) + 1] = l
      /\ \A j \in 1..Len(q) : p[j] = q[j]
  OBVIOUS
<1>2. IsFiniteSet(Later(q, i)) /\ Cardinality(Later(q, i)) \in Nat
  BY LaterIsFinite
<1>3. Len(q) + 1 \notin Later(q, i)
  BY <1>1 DEF Later
<1> HIDE DEF p
<1>4. CASE l[1] = q[i][1]
  <2>1. Later(p, i) = Later(q, i) \cup {Len(q) + 1}
    BY <1>1, <1>4 DEF Later
  <2>2. Cardinality(Later(q, i) \cup {Len(q) + 1}) = Cardinality(Later(q, i)) + 1
    BY <1>2, <1>3, FS_AddElement
  <2> QED
    BY <1>4, <2>1, <2>2 DEF p
<1>5. CASE l[1] # q[i][1]
  <2>1. Later(p, i) = Later(q, i)
    BY <1>1, <1>5 DEF Later
  <2> QED
    BY <1>2, <1>5, <2>1 DEF p
<1> QED
  BY <1>4, <1>5

\* What follows a line does not change when the first k lines go.
LEMMA LaterInSuffix ==
    ASSUME NEW q \in Seq(Line), NEW k \in 0..Len(q), NEW p \in Seq(Line),
           Len(p) = Len(q) - k, \A j \in 1..Len(p) : p[j] = q[j + k],
           NEW i \in 1..Len(p)
    PROVE  Cardinality(Later(p, i)) = Cardinality(Later(q, i + k))
<1>1. Len(q) \in Nat /\ Len(p) \in Nat /\ k \in Nat /\ i + k \in 1..Len(q)
  OBVIOUS
<1>2. \A j : j \in Later(p, i) <=> j \in i + 1..Len(p) /\ q[j + k][1] = q[i + k][1]
  <2>1. \A j \in i + 1..Len(p) : j \in 1..Len(p)
    BY <1>1
  <2>2. p[i] = q[i + k] /\ \A j \in i + 1..Len(p) : p[j] = q[j + k]
    BY <2>1
  <2> QED
    BY <2>2 DEF Later
<1>3. \A j : j \in Later(q, i + k) <=> j \in i + k + 1..Len(q) /\ q[j][1] = q[i + k][1]
  BY DEF Later
<1> DEFINE f == [j \in Later(p, i) |-> j + k]
<1>4. f \in [Later(p, i) -> Later(q, i + k)]
  BY <1>1, <1>2, <1>3
<1>5. \A a, b \in Later(p, i) : f[a] = f[b] => a = b
  BY <1>1, <1>2
<1>6. ASSUME NEW j \in Later(q, i + k)
      PROVE  \E a \in Later(p, i) : f[a] = j
  <2>1. /\ j - k \in i + 1..Len(p) /\ (j - k) + k = j
        /\ q[j][1] = q[i + k][1]
    BY <1>1, <1>3, <1>6
  <2>2. j - k \in Later(p, i)
    BY <1>2, <2>1
  <2> QED
    BY <2>1, <2>2
<1> HIDE DEF f
<1>7. f \in Bijection(Later(p, i), Later(q, i + k))
  BY <1>4, <1>5, <1>6, Fun_IsBij
<1>8. ExistsBijection(Later(p, i), Later(q, i + k))
  BY <1>7 DEF ExistsBijection
<1>9. IsFiniteSet(Later(p, i))
  BY LaterIsFinite
<1> QED
  BY <1>8, <1>9, FS_Bijection

\* LastN keeps the end of a sequence.
LEMMA LastNIs ==
    ASSUME NEW q \in Seq(Line), NEW n \in Nat
    PROVE  \E k \in 0..Len(q) :
               /\ LastN(q, n) \in Seq(Line)
               /\ Len(LastN(q, n)) = Len(q) - k
               /\ \A j \in 1..Len(LastN(q, n)) : LastN(q, n)[j] = q[j + k]
               /\ k = IF Len(q) > n THEN Len(q) - n ELSE 0
<1>1. CASE Len(q) > n
  <2> DEFINE k == Len(q) - n
  <2>1. k \in 0..Len(q) /\ Len(q) \in Nat /\ n = Len(q) - k
    BY <1>1
  <2>2. LastN(q, n) = SubSeq(q, Len(q) - n + 1, Len(q))
    BY <1>1 DEF LastN
  <2>3. /\ SubSeq(q, Len(q) - n + 1, Len(q)) \in Seq(Line)
        /\ Len(SubSeq(q, Len(q) - n + 1, Len(q))) = n
        /\ \A j \in 1..n : SubSeq(q, Len(q) - n + 1, Len(q))[j] = q[j + (Len(q) - n)]
    BY <1>1, <2>1
  <2>4. k = IF Len(q) > n THEN Len(q) - n ELSE 0
    BY <1>1
  <2>5. \A j \in 1..n : LastN(q, n)[j] = q[j + k]
    BY <2>2, <2>3
  <2> HIDE DEF k
  <2> WITNESS k \in 0..Len(q)
  <2> QED
    BY <2>1, <2>2, <2>3, <2>4, <2>5
<1>2. CASE ~(Len(q) > n)
  <2>1. LastN(q, n) = q /\ Len(q) \in Nat /\ 0 \in 0..Len(q)
    BY <1>2 DEF LastN
  <2> QED
    BY <1>2, <2>1
<1> QED
  BY <1>1, <1>2

\* The recent lines and how far each stream has been recorded.
RecentInv == recentLines \in Seq(Line) /\ RecentIsWindow

\* What a step does to recentLines: nothing, when it records no line.
LEMMA RecentFrame ==
    ASSUME RecentInv, UNCHANGED recentLines,
           \A t \in Streams : Recorded(t)' = Recorded(t)
    PROVE  RecentInv'
<1>1. \A i \in 1..Len(recentLines) : recentLines[i][1] \in Streams
  BY DEF RecentInv, Line
<1>2. Recorded("stdout")' = Recorded("stdout") /\ Recorded("stderr")' = Recorded("stderr")
  BY DEF Streams
<1> QED
  BY <1>1, <1>2 DEF RecentInv, RecentIsWindow, Later

\* A consumer records its line.
LEMMA RecordRecentLineInv ==
    ASSUME IInv, RecentInv, NEW s \in Streams, RecordRecentLine(s)
    PROVE  RecentInv'
<1> DEFINE l == Head(scanned[s])
           q == Append(recentLines, l)
<1>1. /\ \A t \in Streams : Recorded(t) \in Nat
      /\ Recorded(s)' = Recorded(s) + 1
      /\ \A t \in Streams \ {s} : Recorded(t)' = Recorded(t)
  <2>1. \A t \in Streams : /\ Len(streamed[t]) \in Nat /\ Recorded(t) \in Int
                           /\ HeadIsOut(t) => Recorded(t) = Len(streamed[t]) - 1
                           /\ ~HeadIsOut(t) => Recorded(t) = Len(streamed[t])
                           /\ HeadIsOut(t) => Len(streamed[t]) > 0
    <3>1. \A t \in Streams : streamed[t] \in Seq(Line) /\ LinesOf(t)
      BY DEF IInv, TypeOK, LinesInv
    <3> QED
      BY <3>1, RecordedIs DEF LinesOf
  <2>2. /\ cpc[s] = "record" /\ cpc'[s] = "scan" /\ streamed' = streamed
        /\ \A t \in Streams \ {s} : cpc'[t] = cpc[t]
    BY DEF RecordRecentLine, IInv, TypeOK, brokerVars
  <2>3. Recorded(s)' = Len(streamed[s]) /\ HeadIsOut(s)
    BY <2>2 DEF Recorded, HeadIsOut
  <2>4. \A t \in Streams \ {s} : Recorded(t)' = Recorded(t)
    BY <2>2 DEF Recorded, HeadIsOut
  <2> QED
    BY <2>1, <2>3, <2>4
<1>2. l = <<s, Recorded(s) + 1>> /\ l \in Line
  <2>1. scanned[s] \in Seq(Line) /\ LinesOf(s) /\ HeadIsOut(s)
    BY DEF IInv, TypeOK, LinesInv, RecordRecentLine, HeadIsOut
  <2>2. Len(scanned[s]) > 0 /\ Head(scanned[s]) = scanned[s][1] /\ 1 \in 1..Len(scanned[s])
    BY <2>1 DEF LinesOf
  <2>3. Head(scanned[s]) = <<s, Recorded(s) + 1>>
    BY <2>1, <2>2 DEF LinesOf
  <2>4. Recorded(s) + 1 \in Nat
    BY <1>1
  <2>5. <<s, Recorded(s) + 1>> \in Line
    BY <2>4 DEF Line
  <2> QED
    BY <2>3, <2>5
<1>3. recentLines \in Seq(Line) /\ Len(recentLines) \in Nat /\ MaxRecent \in Nat \ {0}
  BY BoundsAssumption DEF RecentInv
<1>4. /\ q \in Seq(Line) /\ Len(q) = Len(recentLines) + 1 /\ q[Len(recentLines) + 1] = l
      /\ \A j \in 1..Len(recentLines) : q[j] = recentLines[j]
  BY <1>2, <1>3
<1>5. recentLines' = LastN(q, MaxRecent)
  BY DEF RecordRecentLine
<1> HIDE DEF q, l
<1>a. PICK r \in [Streams -> Nat] : \A t \in Streams : r[t] = Recorded(t)'
  <2> DEFINE f == [t \in Streams |-> Recorded(t) + (IF t = s THEN 1 ELSE 0)]
  <2>1. f \in [Streams -> Nat] /\ \A t \in Streams : f[t] = Recorded(t)'
    BY <1>1
  <2> QED
    BY <2>1
<1>6. ASSUME NEW i \in 1..Len(q)
      PROVE  q[i] = <<q[i][1], r[q[i][1]] - Cardinality(Later(q, i))>> /\ q[i][1] \in Streams
  <2>1. CASE i = Len(recentLines) + 1
    <3>1. q[i] = <<s, r[s]>> /\ Later(q, i) = {}
      BY <1>1, <1>2, <1>3, <1>4, <1>a, <2>1 DEF Later
    <3>2. r[s] - 0 = r[s] /\ Cardinality({}) = 0
      BY FS_EmptySet
    <3> QED
      BY <3>1, <3>2
  <2>2. CASE i # Len(recentLines) + 1
    <3>1. i \in 1..Len(recentLines) /\ q[i] = recentLines[i]
      BY <1>3, <1>4, <2>2
    <3>2. PICK t \in Streams : t = recentLines[i][1]
      BY <1>3, <3>1 DEF Line
    <3>3. PICK c \in Nat : c = Cardinality(Later(recentLines, i))
      BY <1>3, <3>1, LaterIsFinite
    <3>4. recentLines[i] = <<t, Recorded(t) - c>>
      BY <3>1, <3>2, <3>3 DEF RecentInv, RecentIsWindow
    <3>5. Cardinality(Later(q, i)) = c + (IF s = t THEN 1 ELSE 0)
      <4>1. l[1] = s
        BY <1>2
      <4> QED
        BY <1>2, <1>3, <3>1, <3>2, <3>3, <4>1, LaterAfterAppend DEF q
    <3>6. r[t] - Cardinality(Later(q, i)) = Recorded(t) - c
      BY <1>1, <1>a, <3>5
    <3> QED
      BY <3>1, <3>2, <3>4, <3>6
  <2> QED
    BY <2>1, <2>2
<1>7. PICK k \in 0..Len(q) :
          /\ recentLines' \in Seq(Line)
          /\ Len(recentLines') = Len(q) - k
          /\ \A j \in 1..Len(recentLines') : recentLines'[j] = q[j + k]
          /\ k = IF Len(q) > MaxRecent THEN Len(q) - MaxRecent ELSE 0
  BY <1>3, <1>4, <1>5, LastNIs
<1>8. ASSUME NEW i \in 1..Len(recentLines')
      PROVE  recentLines'[i]
                 = <<recentLines'[i][1],
                     r[recentLines'[i][1]] - Cardinality(Later(recentLines', i))>>
             /\ recentLines'[i][1] \in Streams
  <2>1. i + k \in 1..Len(q) /\ recentLines'[i] = q[i + k]
    BY <1>4, <1>7
  <2>2. Cardinality(Later(recentLines', i)) = Cardinality(Later(q, i + k))
    BY <1>4, <1>7, LaterInSuffix
  <2> QED
    BY <1>6, <2>1, <2>2
<1>9. LET all == Recorded("stdout")' + Recorded("stderr")'
      IN  Len(recentLines') = IF all > MaxRecent THEN MaxRecent ELSE all
  <2> DEFINE all == Recorded("stdout") + Recorded("stderr")
             allNow == Recorded("stdout")' + Recorded("stderr")'
  <2>1. all \in Nat /\ allNow = all + 1
    BY <1>1 DEF Streams
  <2>2. Len(recentLines) = IF all > MaxRecent THEN MaxRecent ELSE all
    BY DEF RecentInv, RecentIsWindow
  <2> HIDE DEF all, allNow
  <2>3. Len(recentLines') = IF allNow > MaxRecent THEN MaxRecent ELSE allNow
    BY <1>3, <1>4, <1>7, <2>1, <2>2
  <2> QED
    BY <2>3 DEF allNow
<1>b. \A i \in 1..Len(recentLines') :
          LET t == recentLines'[i][1]
          IN recentLines'[i] = <<t, r[t] - Cardinality(Later(recentLines', i))>>
  BY <1>8
<1>c. (\A i \in 1..Len(recentLines) :
          LET t == recentLines[i][1]
          IN recentLines[i] = <<t, Recorded(t) - Cardinality(Later(recentLines, i))>>)'
  BY <1>a, <1>8, <1>b
<1> QED
  BY <1>7, <1>9, <1>c DEF RecentInv, RecentIsWindow

\* The steps of a consumer preserve it.
LEMMA ConsumeOutputRecent ==
    ASSUME IInv, RecentInv, NEW s \in Streams, ConsumeOutput(s)
    PROVE  RecentInv'
<1>1. CASE RecordRecentLine(s)
  BY <1>1, RecordRecentLineInv
<1>2. CASE BroadcastLine(s)
  <2>1. /\ streamed[s] \in Seq(Line) /\ cpc[s] = "scan" /\ cpc'[s] = "vector"
        /\ Len(streamed'[s]) = Len(streamed[s]) + 1
        /\ \A t \in Streams \ {s} : streamed'[t] = streamed[t] /\ cpc'[t] = cpc[t]
        /\ recentLines' = recentLines
    <3>1. scanned[s] # <<>> /\ scanned[s] \in Seq(Line) /\ streamed[s] \in Seq(Line)
      BY <1>2 DEF BroadcastLine, IInv, TypeOK
    <3>2. Head(scanned[s]) \in Line
      BY <3>1
    <3>3. streamed'[s] = Append(streamed[s], Head(scanned[s]))
      BY <1>2 DEF BroadcastLine, IInv, TypeOK
    <3>4. Len(streamed'[s]) = Len(streamed[s]) + 1
      BY <3>1, <3>2, <3>3
    <3> QED
      BY <1>2, <3>1, <3>4 DEF BroadcastLine, IInv, TypeOK
  <2>2. ASSUME NEW t \in Streams PROVE Recorded(t)' = Recorded(t)
    <3>1. CASE t = s
      <4>1. Recorded(s) = Len(streamed[s]) /\ Recorded(s)' = Len(streamed'[s]) - 1
        BY <2>1, Len(streamed[s]) \in Nat DEF Recorded, HeadIsOut
      <4> QED
        BY <2>1, <3>1, <4>1
    <3>2. CASE t # s
      BY <2>1, <3>2 DEF Recorded, HeadIsOut
    <3> QED
      BY <3>1, <3>2
  <2> QED
    BY <2>1, <2>2, RecentFrame
<1>3. CASE \/ Read(s) \/ SkipVector(s) \/ StartVectorWrite(s) \/ EndVectorWrite(s)
           \/ EndOfFile(s) \/ ScanError(s) \/ AbandonStream(s)
  <2>1. /\ streamed' = streamed /\ recentLines' = recentLines
        /\ \A t \in Streams \ {s} : cpc'[t] = cpc[t]
        /\ cpc[s] \in {"vector", "writing", "record"} <=> cpc'[s] \in {"vector", "writing", "record"}
    BY <1>3 DEF Read, SkipVector, StartVectorWrite, EndVectorWrite, EndOfFile, ScanError,
                AbandonStream, IInv, TypeOK, brokerVars
  <2>2. \A t \in Streams : Recorded(t)' = Recorded(t)
    BY <2>1 DEF Recorded, HeadIsOut
  <2> QED
    BY <2>1, <2>2, RecentFrame
<1> QED
  BY <1>1, <1>2, <1>3 DEF ConsumeOutput

\* RecentIsWindow, for every number of lines and every length of the list.
THEOREM RecentIsWindowHolds == Spec => []RecentIsWindow
<1>1. Init => RecentInv
  <2> SUFFICES ASSUME Init PROVE RecentInv
    OBVIOUS
  <2>1. recentLines = <<>> /\ Recorded("stdout") = 0 /\ Recorded("stderr") = 0
    BY DEF Init, Recorded, HeadIsOut, Streams
  <2> QED
    BY <2>1, BoundsAssumption DEF RecentInv, RecentIsWindow
<1>2. IInv /\ RecentInv /\ [Next]_vars => RecentInv'
  <2> SUFFICES ASSUME IInv, RecentInv, [Next]_vars PROVE RecentInv'
    OBVIOUS
  <2>1. CASE \E s \in Streams : ConsumeOutput(s)
    BY <2>1, ConsumeOutputRecent
  <2>2. CASE WaitForExit \/ Environment \/ UNCHANGED vars
    <3>1. recentLines' = recentLines /\ streamed' = streamed /\ cpc' = cpc
      BY <2>2 DEF WaitForExit, Wait, AnnounceExit, AddRecord, ReportDone, Environment, End,
                  DescendantsEnd, VectorReads, VectorEnds, Write, vars, brokerVars
    <3> QED
      BY <3>1, RecentFrame DEF Recorded, HeadIsOut
  <2> QED
    BY <2>1, <2>2 DEF Next
<1>3. RecentInv => RecentIsWindow
  BY DEF RecentInv
<1> QED
  BY <1>1, <1>2, <1>3, Invariance, PTL DEF Spec

\* The safety part of ImplementsTargetRun, for every instance: the run is recorded
\* before it is reported, once each and with the outcome of cmd.Wait.
THEOREM RunIsATargetRun == Spec => Run!Init /\ [][Run!Next]_(Run!vars)
<1>1. Init => Run!Init
  BY DEF Init, Run!Init, NoRecord
<1>2. IInv /\ [Next]_vars => [Run!Next]_(Run!vars)
  <2> SUFFICES ASSUME IInv, [Next]_vars PROVE Run!Next \/ UNCHANGED Run!vars
    OBVIOUS
  <2> USE DEF IInv, WaitInv, Run!Next, Run!End, Run!Record, Run!Report, Run!vars
  <2>1. CASE \E s \in Streams : ConsumeOutput(s)
    BY <2>1 DEF ConsumeOutput, Read, BroadcastLine, SkipVector, StartVectorWrite, EndVectorWrite,
                RecordRecentLine, EndOfFile, ScanError, AbandonStream, program, waitVars
  <2>2. CASE WaitForExit
    BY <2>2 DEF WaitForExit, Wait, AnnounceExit, AddRecord, ReportDone, program
  <2>3. CASE Environment
    BY <2>3 DEF Environment, End, DescendantsEnd, VectorReads, VectorEnds, Write, program, waitVars
  <2>4. CASE UNCHANGED vars
    BY <2>4 DEF vars
  <2> QED
    BY <2>1, <2>2, <2>3, <2>4 DEF Next
<1> QED
  BY <1>1, <1>2, Invariance, PTL DEF Spec
=============================================================================
