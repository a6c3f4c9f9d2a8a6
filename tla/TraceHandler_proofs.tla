------------------------- MODULE TraceHandler_proofs -------------------------
(***************************************************************************)
(* The safety properties of TraceHandler hold for every set of requests    *)
(* and every clock.  The invariant says, for each place in handleTrace,    *)
(* which processes of dotnet-trace a request can have there, and what the  *)
(* file of its name then holds.                                            *)
(***************************************************************************)
EXTENDS TraceHandler, TLAPS

TypeOK ==
    /\ clock \in 0..MaxTime
    /\ pc \in [Requests -> {"idle", "start", "write", "select", "reap", "decide", "add", "done"}]
    /\ id \in [Requests -> 0..MaxTime]
    /\ profile \in [Requests -> Profiles]
    /\ tracer \in [Requests -> [Profiles -> {"none", "running", "killed", "ok", "failed"}]]
    /\ complained \in [Requests -> SUBSET Profiles]
    /\ gone \subseteq Requests
    /\ wErr \subseteq Requests
    /\ answer \in [Requests -> {"none", "failed", "canceled", "redirect"}]
    /\ traces \in Seq(0..MaxTime)
    /\ file \in [0..MaxTime -> {"none", "partial", "whole"}]

\* What a request has when it is at a place of handleTrace.
PlaceInv ==
    \A r \in Requests :
        /\ pc[r] = "idle" => \A i \in Profiles : tracer[r][i] = "none"
        /\ pc[r] = "start" => tracer[r][profile[r]] = "none"
        /\ pc[r] = "add" => tracer[r][profile[r]] = "ok"
        /\ answer[r] # "none" => pc[r] = "done"
        /\ \A i \in Profiles :
               Alive(tracer[r][i]) =>
                   r \in wErr \/ (i = profile[r] /\ pc[r] \in {"write", "select", "reap"})

\* The second profile comes after a complaint about the first, and a
\* dotnet-trace that complains does not succeed.
ProfileInv ==
    \A r \in Requests :
        /\ tracer[r][2] # "none" => profile[r] = 2
        /\ profile[r] = 2 => 1 \in complained[r]
        /\ \A i \in complained[r] : tracer[r][i] \notin {"none", "ok"}
        /\ answer[r] = "failed" /\ 1 \in complained[r] /\ r \notin wErr => profile[r] = 2

\* What succeeded is in its file, unless another request writes that too.
FileInv ==
    \A r \in Requests, i \in Profiles :
        tracer[r][i] = "ok" => /\ file[id[r]] # "none"
                               /\ file[id[r]] = "whole" \/ Shared(id[r])

\* What was registered.
TracesInv ==
    /\ \A i, j \in 1..Len(traces) : traces[i] = traces[j] => i = j
    /\ \A i \in 1..Len(traces) :
           \E r \in Requests, k \in Profiles : id[r] = traces[i] /\ tracer[r][k] = "ok"
    /\ \A r \in Requests : answer[r] = "redirect" => \E i \in 1..Len(traces) : traces[i] = id[r]

IInv == TypeOK /\ PlaceInv /\ ProfileInv /\ FileInv /\ TracesInv
-----------------------------------------------------------------------------
(* Proofs.                                                                 *)

\* What ToSet collects.
LEMMA ToSetIs ==
    ASSUME NEW S, NEW t \in Seq(S)
    PROVE  ToSet(t) = {t[i] : i \in 1..Len(t)}
<1>1. DOMAIN t = 1..Len(t)
  OBVIOUS
<1> QED
  BY <1>1 DEF ToSet

\* The initial states satisfy the invariant.
LEMMA InitIInv == Init => IInv
<1> SUFFICES ASSUME Init PROVE IInv
  OBVIOUS
<1> USE MaxTimeAssumption DEF Init, Profiles
<1>1. TypeOK
  BY DEF TypeOK
<1>2. PlaceInv
  BY DEF PlaceInv, Alive
<1>3. ProfileInv
  BY DEF ProfileInv
<1>4. FileInv
  BY DEF FileInv
<1>5. TracesInv
  BY DEF TracesInv
<1> QED
  BY <1>1, <1>2, <1>3, <1>4, <1>5 DEF IInv

\* What is appended to a sequence is of the type of its elements.
LEMMA AppendType ==
    ASSUME NEW S, NEW s \in Seq(S), NEW x \in S
    PROVE  Append(s, x) \in Seq(S)
  OBVIOUS

\* A trace stays listed when nothing is registered and no success is undone.
LEMMA StillListed ==
    ASSUME TracesInv, UNCHANGED traces,
           \A r \in Requests, k \in Profiles :
               tracer[r][k] = "ok" => id'[r] = id[r] /\ tracer'[r][k] = "ok",
           \A r \in Requests : answer'[r] = "redirect" => answer[r] = "redirect" /\ id'[r] = id[r]
    PROVE  TracesInv'
<1>1. ASSUME NEW i \in 1..Len(traces)
      PROVE  \E r \in Requests, k \in Profiles : id'[r] = traces[i] /\ tracer'[r][k] = "ok"
  <2>1. PICK r \in Requests, k \in Profiles : id[r] = traces[i] /\ tracer[r][k] = "ok"
    BY DEF TracesInv
  <2> QED
    BY <2>1
<1> QED
  BY <1>1 DEF TracesInv

\* A request that has begun keeps its name, so names once shared stay shared.
LEMMA StillShared ==
    ASSUME \A r \in Requests : pc[r] # "idle" => pc'[r] # "idle" /\ id'[r] = id[r]
    PROVE  \A t : Shared(t) => \E q, r \in Requests :
               /\ q # r /\ id'[q] = t /\ id'[r] = t
               /\ {pc'[q], pc'[r]} \cap {"idle"} = {}
<1> SUFFICES ASSUME NEW t, Shared(t)
             PROVE  \E q, r \in Requests : /\ q # r /\ id'[q] = t /\ id'[r] = t
                                           /\ {pc'[q], pc'[r]} \cap {"idle"} = {}
  OBVIOUS
<1>1. PICK q, r \in Requests : /\ q # r /\ id[q] = t /\ id[r] = t
                              /\ {pc[q], pc[r]} \cap {"idle"} = {}
  BY DEF Shared
<1>2. pc[q] # "idle" /\ pc[r] # "idle"
  BY <1>1
<1>3. id'[q] = t /\ id'[r] = t /\ {pc'[q], pc'[r]} \cap {"idle"} = {}
  BY <1>1, <1>2
<1> QED
  BY <1>1, <1>3

\* The steps of handleTrace and streamCountdown preserve it.
LEMMA HandleTraceIInv == IInv /\ (\E r \in Requests : HandleTrace(r)) => IInv'
<1> SUFFICES ASSUME IInv, NEW r \in Requests, HandleTrace(r) PROVE IInv'
  OBVIOUS
<1> USE MaxTimeAssumption DEF IInv, Profiles, Alive, Goto, Finish
<1>1. CASE Begin(r)
  <2> USE <1>1 DEF Begin
  <2>1. TypeOK'
    BY DEF TypeOK
  <2>2. PlaceInv'
    BY DEF TypeOK, PlaceInv, ProfileInv
  <2>3. ProfileInv'
    BY DEF TypeOK, PlaceInv, ProfileInv
  <2>4. FileInv'
    <3> SUFFICES ASSUME NEW q \in Requests, NEW k \in Profiles, tracer[q][k] = "ok"
                 PROVE  /\ file[id'[q]] # "none"
                        /\ \/ file[id'[q]] = "whole"
                           \/ \E a, b \in Requests :
                                  /\ a # b /\ id'[a] = id'[q] /\ id'[b] = id'[q]
                                  /\ {pc'[a], pc'[b]} \cap {"idle"} = {}
      BY DEF FileInv, Shared
    <3>1. pc[q] # "idle" /\ id'[q] = id[q]
      BY DEF TypeOK, PlaceInv
    <3>2. \A a \in Requests : pc[a] # "idle" => pc'[a] # "idle" /\ id'[a] = id[a]
      BY DEF TypeOK
    <3>3. file[id[q]] # "none" /\ (file[id[q]] = "whole" \/ Shared(id[q]))
      BY DEF FileInv
    <3> QED
      BY <3>1, <3>2, <3>3, StillShared
  <2>5. TracesInv'
    BY StillListed DEF TypeOK, PlaceInv
  <2> QED
    BY <2>1, <2>2, <2>3, <2>4, <2>5 DEF IInv
<1>2. CASE Start(r)
  <2> USE <1>2 DEF Start
  <2>0. /\ tracer[r][profile[r]] = "none"
        /\ \A q \in Requests, k \in Profiles :
              \/ tracer'[q][k] = tracer[q][k]
              \/ q = r /\ k = profile[r] /\ tracer'[q][k] = "running"
    <3>1. CASE UNCHANGED tracer
      BY <3>1 DEF TypeOK, PlaceInv
    <3>2. CASE tracer' = [tracer EXCEPT ![r][profile[r]] = "running"]
      BY <3>2 DEF TypeOK, PlaceInv
    <3> QED
      BY <3>1, <3>2
  <2>1. TypeOK'
    <3>1. pc' \in [Requests -> {"idle", "start", "write", "select", "reap", "decide", "add", "done"}]
      BY ZenonT(60) DEF TypeOK
    <3>2. answer' \in [Requests -> {"none", "failed", "canceled", "redirect"}]
      BY DEF TypeOK
    <3>3. tracer' \in [Requests -> [Profiles -> {"none", "running", "killed", "ok", "failed"}]]
      <4>1. CASE UNCHANGED tracer
        BY <4>1 DEF TypeOK
      <4>2. CASE tracer' = [tracer EXCEPT ![r][profile[r]] = "running"]
        <5>1. [tracer[r] EXCEPT ![profile[r]] = "running"]
                  \in [Profiles -> {"none", "running", "killed", "ok", "failed"}]
          BY DEF TypeOK
        <5>2. tracer' = [tracer EXCEPT ![r] = [tracer[r] EXCEPT ![profile[r]] = "running"]]
          BY <4>2 DEF TypeOK
        <5> QED
          BY <5>1, <5>2 DEF TypeOK
      <4> QED
        BY <4>1, <4>2
    <3> QED
      BY <3>1, <3>2, <3>3 DEF TypeOK
  <2>2. PlaceInv'
    BY SMTT(30) DEF TypeOK, PlaceInv, ProfileInv
  <2>3. ProfileInv'
    BY <2>0 DEF TypeOK, PlaceInv, ProfileInv
  <2>4. FileInv'
    <3>1. \A a \in Requests : pc[a] # "idle" => pc'[a] # "idle" /\ id'[a] = id[a]
      BY DEF TypeOK
    <3>2. ASSUME NEW q \in Requests, NEW k \in Profiles, tracer'[q][k] = "ok"
          PROVE  file[id[q]] # "none" /\ (file[id[q]] = "whole" \/ Shared(id[q]))
      BY <2>0, <3>2 DEF FileInv
    <3> QED
      BY <3>1, <3>2, StillShared DEF FileInv, Shared
  <2>5. TracesInv'
    <3>1. \A q \in Requests : answer'[q] = "redirect" => answer[q] = "redirect"
      BY DEF TypeOK
    <3>2. \A q \in Requests, k \in Profiles : tracer[q][k] = "ok" => tracer'[q][k] = "ok"
      BY <2>0
    <3> QED
      BY <3>1, <3>2, StillListed
  <2> QED
    BY <2>1, <2>2, <2>3, <2>4, <2>5 DEF IInv
<1>3. CASE Decide(r)
  <2> USE <1>3 DEF Decide
  <2>1. TypeOK'
    BY ZenonT(60) DEF TypeOK
  <2>2. PlaceInv'
    BY DEF TypeOK, PlaceInv, ProfileInv
  <2>3. ProfileInv'
    BY DEF TypeOK, PlaceInv, ProfileInv
  <2>4. FileInv'
    BY DEF TypeOK, PlaceInv, ProfileInv, FileInv, Shared
  <2>5. TracesInv'
    BY StillListed DEF TypeOK, PlaceInv
  <2> QED
    BY <2>1, <2>2, <2>3, <2>4, <2>5 DEF IInv
<1>4. CASE Add(r)
  <2> USE <1>4 DEF Add
  <2>1. TypeOK'
    <3>1. traces' \in Seq(0..MaxTime)
      <4>1. id[r] \in 0..MaxTime /\ traces \in Seq(0..MaxTime)
        BY DEF TypeOK
      <4>2. traces' = traces \/ traces' = Append(traces, id[r])
        OBVIOUS
      <4>3. CASE traces' = traces
        BY <4>1, <4>3
      <4>4. CASE traces' = Append(traces, id[r])
        BY <4>1, <4>4, AppendType
      <4> QED
        BY <4>2, <4>3, <4>4
    <3>2. /\ pc' \in [Requests -> {"idle", "start", "write", "select", "reap", "decide", "add", "done"}]
          /\ answer' \in [Requests -> {"none", "failed", "canceled", "redirect"}]
      BY DEF TypeOK
    <3> QED
      BY <3>1, <3>2 DEF TypeOK
  <2>2. PlaceInv'
    BY DEF TypeOK, PlaceInv, ProfileInv
  <2>3. ProfileInv'
    BY DEF TypeOK, PlaceInv, ProfileInv
  <2>4. FileInv'
    BY DEF TypeOK, PlaceInv, ProfileInv, FileInv, Shared
  <2>5. TracesInv'
    <3>1. tracer[r][profile[r]] = "ok" /\ profile[r] \in Profiles /\ id[r] \in 0..MaxTime
      BY DEF PlaceInv, TypeOK
    <3>2. ToSet(traces) = {traces[i] : i \in 1..Len(traces)}
      BY ToSetIs DEF TypeOK
    <3>3. \A q \in Requests : answer'[q] = "redirect" => q = r \/ answer[q] = "redirect"
      BY DEF TypeOK
    <3>4. CASE id[r] \in ToSet(traces)
      BY <3>2, <3>3, <3>4 DEF TracesInv
    <3>5. CASE id[r] \notin ToSet(traces)
      <4>1. /\ traces \in Seq(0..MaxTime) /\ Len(traces) \in Nat
            /\ traces' = Append(traces, id[r])
        BY <3>5 DEF TypeOK
      <4>2. /\ Len(traces') = Len(traces) + 1
            /\ \A i \in 1..Len(traces) : traces'[i] = traces[i] /\ traces[i] # id[r]
            /\ traces'[Len(traces) + 1] = id[r]
        BY <3>1, <3>2, <3>5, <4>1
      <4>3. \A i, j \in 1..Len(traces') : traces'[i] = traces'[j] => i = j
        BY <4>1, <4>2 DEF TracesInv
      <4>4. ASSUME NEW i \in 1..Len(traces')
            PROVE  \E q \in Requests, k \in Profiles : id[q] = traces'[i] /\ tracer[q][k] = "ok"
        <5>1. i \in 1..Len(traces) \/ i = Len(traces) + 1
          BY <4>1, <4>2
        <5>2. CASE i \in 1..Len(traces)
          BY <4>2, <5>2 DEF TracesInv
        <5>3. CASE i = Len(traces) + 1
          BY <3>1, <4>2, <5>3
        <5> QED
          BY <5>1, <5>2, <5>3
      <4>5. ASSUME NEW q \in Requests, answer'[q] = "redirect"
            PROVE  \E i \in 1..Len(traces') : traces'[i] = id[q]
        <5>1. CASE q = r
          BY <4>1, <4>2, <5>1
        <5>2. CASE q # r
          <6>1. PICK i \in 1..Len(traces) : traces[i] = id[q]
            BY <3>3, <4>5, <5>2 DEF TracesInv
          <6> QED
            BY <4>1, <4>2, <6>1
        <5> QED
          BY <5>1, <5>2
      <4> QED
        BY <4>3, <4>4, <4>5 DEF TracesInv
    <3> QED
      BY <3>4, <3>5
  <2> QED
    BY <2>1, <2>2, <2>3, <2>4, <2>5 DEF IInv
<1>5. CASE WriteCountdown(r)
  <2> USE <1>5 DEF WriteCountdown
  <2>1. TypeOK'
    BY DEF TypeOK
  <2>2. PlaceInv'
    BY DEF TypeOK, PlaceInv, ProfileInv
  <2>3. ProfileInv'
    BY DEF TypeOK, PlaceInv, ProfileInv
  <2>4. FileInv'
    BY DEF TypeOK, PlaceInv, ProfileInv, FileInv, Shared
  <2>5. TracesInv'
    BY StillListed DEF TypeOK, PlaceInv
  <2> QED
    BY <2>1, <2>2, <2>3, <2>4, <2>5 DEF IInv
<1>6. CASE NextSecond(r)
  <2> USE <1>6 DEF NextSecond
  <2>1. TypeOK'
    BY DEF TypeOK
  <2>2. PlaceInv'
    BY DEF TypeOK, PlaceInv, ProfileInv
  <2>3. ProfileInv'
    BY DEF TypeOK, PlaceInv, ProfileInv
  <2>4. FileInv'
    BY DEF TypeOK, PlaceInv, ProfileInv, FileInv, Shared
  <2>5. TracesInv'
    BY StillListed DEF TypeOK, PlaceInv
  <2> QED
    BY <2>1, <2>2, <2>3, <2>4, <2>5 DEF IInv
<1>7. CASE TracerDone(r)
  <2> USE <1>7 DEF TracerDone
  <2>1. TypeOK'
    BY DEF TypeOK
  <2>2. PlaceInv'
    BY DEF TypeOK, PlaceInv, ProfileInv
  <2>3. ProfileInv'
    BY DEF TypeOK, PlaceInv, ProfileInv
  <2>4. FileInv'
    BY DEF TypeOK, PlaceInv, ProfileInv, FileInv, Shared
  <2>5. TracesInv'
    BY StillListed DEF TypeOK, PlaceInv
  <2> QED
    BY <2>1, <2>2, <2>3, <2>4, <2>5 DEF IInv
<1>8. CASE ContextDone(r)
  <2> USE <1>8 DEF ContextDone
  <2>1. TypeOK'
    BY DEF TypeOK
  <2>2. PlaceInv'
    BY DEF TypeOK, PlaceInv, ProfileInv
  <2>3. ProfileInv'
    BY DEF TypeOK, PlaceInv, ProfileInv
  <2>4. FileInv'
    BY DEF TypeOK, PlaceInv, ProfileInv, FileInv, Shared
  <2>5. TracesInv'
    BY StillListed DEF TypeOK, PlaceInv
  <2> QED
    BY <2>1, <2>2, <2>3, <2>4, <2>5 DEF IInv
<1>9. CASE Reap(r)
  <2> USE <1>9 DEF Reap
  <2>1. TypeOK'
    BY DEF TypeOK
  <2>2. PlaceInv'
    BY DEF TypeOK, PlaceInv, ProfileInv
  <2>3. ProfileInv'
    BY DEF TypeOK, PlaceInv, ProfileInv
  <2>4. FileInv'
    BY DEF TypeOK, PlaceInv, ProfileInv, FileInv, Shared
  <2>5. TracesInv'
    BY StillListed DEF TypeOK, PlaceInv
  <2> QED
    BY <2>1, <2>2, <2>3, <2>4, <2>5 DEF IInv
<1> QED
  BY <1>1, <1>2, <1>3, <1>4, <1>5, <1>6, <1>7, <1>8, <1>9 DEF HandleTrace

\* So do those of the clients, of dotnet-trace and of the clock.
LEMMA EnvironmentIInv == IInv /\ Environment => IInv'
<1> SUFFICES ASSUME IInv, Environment PROVE IInv'
  OBVIOUS
<1> USE MaxTimeAssumption DEF IInv, Profiles, Alive
<1>1. ASSUME NEW r \in Requests, Disconnect(r) PROVE IInv'
  <2> USE <1>1 DEF Disconnect
  <2>1. TypeOK'
    BY DEF TypeOK
  <2>2. PlaceInv'
    BY DEF TypeOK, PlaceInv, ProfileInv
  <2>3. ProfileInv'
    BY DEF TypeOK, PlaceInv, ProfileInv
  <2>4. FileInv'
    BY DEF TypeOK, PlaceInv, ProfileInv, FileInv, Shared
  <2>5. TracesInv'
    BY StillListed DEF TypeOK, PlaceInv
  <2> QED
    BY <2>1, <2>2, <2>3, <2>4, <2>5 DEF IInv
<1>2. ASSUME NEW r \in Requests, NEW i \in Profiles, Complain(r, i) PROVE IInv'
  <2> USE <1>2 DEF Complain
  <2>0. \A q \in Requests : complained'[q] = IF q = r THEN complained[q] \cup {i} ELSE complained[q]
    BY DEF TypeOK
  <2>1. TypeOK'
    BY DEF TypeOK
  <2>2. PlaceInv'
    BY DEF TypeOK, PlaceInv, ProfileInv
  <2>3. ProfileInv'
    <3>1. \A k \in complained'[r] : tracer[r][k] \notin {"none", "ok"}
      BY <2>0 DEF ProfileInv
    <3>2. answer[r] = "failed" /\ i = 1 /\ r \notin wErr => profile[r] = 2
      BY DEF PlaceInv
    <3> QED
      BY <2>0, <3>1, <3>2 DEF ProfileInv
  <2>4. FileInv'
    BY DEF TypeOK, PlaceInv, ProfileInv, FileInv, Shared
  <2>5. TracesInv'
    BY StillListed DEF TypeOK, PlaceInv
  <2> QED
    BY <2>1, <2>2, <2>3, <2>4, <2>5 DEF IInv
<1>3. ASSUME NEW r \in Requests, NEW i \in Profiles, TracerWrites(r, i) PROVE IInv'
  <2> USE <1>3 DEF TracerWrites
  <2>1. TypeOK'
    BY DEF TypeOK
  <2>2. PlaceInv'
    BY DEF TypeOK, PlaceInv, ProfileInv
  <2>3. ProfileInv'
    BY DEF TypeOK, PlaceInv, ProfileInv
  <2>4. FileInv'
    BY DEF TypeOK, PlaceInv, ProfileInv, FileInv, Shared
  <2>5. TracesInv'
    BY StillListed DEF TypeOK, PlaceInv
  <2> QED
    BY <2>1, <2>2, <2>3, <2>4, <2>5 DEF IInv
<1>4. ASSUME NEW r \in Requests, NEW i \in Profiles, TracerEnds(r, i) PROVE IInv'
  <2> USE <1>4 DEF TracerEnds
  <2>1. TypeOK'
    BY DEF TypeOK
  <2>2. PlaceInv'
    BY DEF TypeOK, PlaceInv, ProfileInv
  <2>3. ProfileInv'
    BY DEF TypeOK, PlaceInv, ProfileInv
  <2>4. FileInv'
    BY DEF TypeOK, PlaceInv, ProfileInv, FileInv, Shared
  <2>5. TracesInv'
    BY StillListed DEF TypeOK, PlaceInv
  <2> QED
    BY <2>1, <2>2, <2>3, <2>4, <2>5 DEF IInv
<1>5. CASE Tick
  <2> USE <1>5 DEF Tick
  <2>1. TypeOK'
    BY DEF TypeOK
  <2>2. PlaceInv'
    BY DEF TypeOK, PlaceInv, ProfileInv
  <2>3. ProfileInv'
    BY DEF TypeOK, PlaceInv, ProfileInv
  <2>4. FileInv'
    BY DEF TypeOK, PlaceInv, ProfileInv, FileInv, Shared
  <2>5. TracesInv'
    BY StillListed DEF TypeOK, PlaceInv
  <2> QED
    BY <2>1, <2>2, <2>3, <2>4, <2>5 DEF IInv
<1> QED
  BY <1>1, <1>2, <1>3, <1>4, <1>5 DEF Environment

\* IInv is an invariant.
THEOREM Invariance == Spec => []IInv
<1>1. IInv /\ [Next]_vars => IInv'
  <2> SUFFICES ASSUME IInv, [Next]_vars PROVE IInv'
    OBVIOUS
  <2>1. CASE Next
    BY <2>1, HandleTraceIInv, EnvironmentIInv DEF Next
  <2>2. CASE UNCHANGED vars
    <3> USE <2>2 DEF IInv, vars
    <3>1. TypeOK'
      BY DEF TypeOK
    <3>2. PlaceInv'
      BY DEF PlaceInv
    <3>3. ProfileInv'
      BY DEF ProfileInv
    <3>4. FileInv'
      BY DEF FileInv, Shared
    <3>5. TracesInv'
      BY DEF TracesInv
    <3> QED
      BY <3>1, <3>2, <3>3, <3>4, <3>5
  <2> QED
    BY <2>1, <2>2
<1> QED
  BY <1>1, InitIInv, PTL DEF Spec

\* TracersAreReaped, for every set of requests.
THEOREM TracersAreReapedHolds == Spec => []TracersAreReaped
<1>1. IInv => TracersAreReaped
  BY DEF IInv, PlaceInv, TracersAreReaped
<1> QED
  BY <1>1, Invariance, PTL

\* UnsupportedIsRetried, for every set of requests.
THEOREM UnsupportedIsRetriedHolds == Spec => []UnsupportedIsRetried
<1>1. IInv => UnsupportedIsRetried
  BY DEF IInv, ProfileInv, UnsupportedIsRetried
<1> QED
  BY <1>1, Invariance, PTL

\* ListedIsComplete, for every set of requests: the links are the registered
\* traces in reverse.
THEOREM ListedIsCompleteHolds == Spec => []ListedIsComplete
<1>1. IInv => ListedIsComplete
  <2> SUFFICES ASSUME IInv PROVE ListedIsComplete
    OBVIOUS
  <2> USE DEF IInv
  <2>1. /\ traces \in Seq(0..MaxTime) /\ Len(traces) \in Nat
        /\ Len(ProfileList) = Len(traces) /\ DOMAIN ProfileList = 1..Len(traces)
        /\ \A i \in 1..Len(traces) : ProfileList[i] = traces[Len(traces) - i + 1]
    BY DEF TypeOK, ProfileList, Reverse
  <2>2. \A i, j \in DOMAIN ProfileList : ProfileList[i] = ProfileList[j] => i = j
    <3> SUFFICES ASSUME NEW i \in 1..Len(traces), NEW j \in 1..Len(traces),
                        traces[Len(traces) - i + 1] = traces[Len(traces) - j + 1]
                 PROVE  i = j
      BY <2>1
    <3>1. Len(traces) - i + 1 \in 1..Len(traces) /\ Len(traces) - j + 1 \in 1..Len(traces)
      BY <2>1
    <3>2. Len(traces) - i + 1 = Len(traces) - j + 1
      BY <3>1 DEF TracesInv
    <3> QED
      BY <2>1, <3>2
  <2>3. ToSet(traces) = ToSet(ProfileList)
    <3>1. ToSet(traces) = {traces[i] : i \in 1..Len(traces)}
      BY <2>1 DEF ToSet
    <3>2. ToSet(ProfileList) = {ProfileList[i] : i \in 1..Len(traces)}
      BY <2>1 DEF ToSet
    <3>3. \A i \in 1..Len(traces) : /\ Len(traces) - i + 1 \in 1..Len(traces)
                                    /\ traces[i] = ProfileList[Len(traces) - i + 1]
      BY <2>1
    <3> QED
      BY <2>1, <3>1, <3>2, <3>3
  <2>4. ASSUME NEW t \in ToSet(traces)
        PROVE  /\ Profile(t) # "not found"
               /\ Profile(t) = "whole" \/ Shared(t)
               /\ \E r \in Requests, k \in Profiles : id[r] = t /\ tracer[r][k] = "ok"
    <3>1. PICK i \in 1..Len(traces) : t = traces[i]
      BY <2>1 DEF ToSet
    <3>2. PICK r \in Requests, k \in Profiles : id[r] = t /\ tracer[r][k] = "ok"
      BY <3>1 DEF TracesInv
    <3>3. file[t] \in {"partial", "whole"} /\ (file[t] = "whole" \/ Shared(t))
      BY <3>2 DEF FileInv, TypeOK
    <3>4. Profile(t) = file[t]
      BY <3>3 DEF Profile
    <3> QED
      BY <3>2, <3>3, <3>4
  <2>5. \A r \in Requests : answer[r] = "redirect" => id[r] \in ToSet(traces)
    BY <2>1 DEF TracesInv, ToSet
  <2>6. /\ \A t \in ToSet(ProfileList) :
               /\ Profile(t) # "not found"
               /\ Profile(t) = "whole" \/ Shared(t)
               /\ \E r \in Requests, k \in Profiles : id[r] = t /\ tracer[r][k] = "ok"
        /\ \A r \in Requests : answer[r] = "redirect" => id[r] \in ToSet(ProfileList)
    BY <2>3, <2>4, <2>5, ZenonT(30)
  <2> QED
    BY <2>2, <2>6 DEF ListedIsComplete
<1> QED
  BY <1>1, Invariance, PTL
=============================================================================
