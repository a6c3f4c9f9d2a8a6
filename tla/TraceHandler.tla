---------------------------- MODULE TraceHandler ----------------------------
(***************************************************************************)
(* The /trace handler of internal/debugadmin/http_server.go with           *)
(* trace_store.go: a request runs dotnet-trace on the target, shows a      *)
(* countdown while it collects, tries the next profile when dotnet-trace   *)
(* does not know the first, and registers the result.                      *)
(*                                                                         *)
(* Requests run concurrently.  A trace is named after the millisecond of   *)
(* its request (the clock), and the handler, the client that may go away   *)
(* and dotnet-trace, which may hang, proceed independently.                *)
(***************************************************************************)
EXTENDS Integers, Sequences, SequencesExt

CONSTANTS Requests,    \* the requests for /trace
          MaxTime      \* bound: the clock

ASSUME MaxTimeAssumption == MaxTime \in Nat

\* TraceProfileCandidates: the profiles that are tried, in this order.
Profiles == 1..2

VARIABLES
    clock,
    pc,          \* where request r is in handleTrace or streamCountdown
    id,          \* traceID
    profile,     \* the profile of the current attempt
    tracer,      \* tracer[r][i]: the dotnet-trace r started for profile i:
                 \* "none", "running", "killed", "ok" or "failed"
    complained,  \* complained[r]: the profiles dotnet-trace has called unknown
    gone,        \* the requests whose client has gone away
    wErr,        \* the requests whose countdown could not be written
    answer,      \* how the response ended
    traces,      \* TraceStore.order; items has the same elements
    file         \* file[t]: t.speedscope.json: "none", "partial" or "whole"

vars == <<clock, pc, id, profile, tracer, complained, gone, wErr, answer, traces, file>>

Alive(t) == t \in {"running", "killed"}

Init ==
    /\ clock = 0
    /\ pc = [r \in Requests |-> "idle"]
    /\ id = [r \in Requests |-> 0]
    /\ profile = [r \in Requests |-> 1]
    /\ tracer = [r \in Requests |-> [i \in Profiles |-> "none"]]
    /\ complained = [r \in Requests |-> {}]
    /\ gone = {} /\ wErr = {}
    /\ answer = [r \in Requests |-> "none"]
    /\ traces = <<>>
    /\ file = [t \in 0..MaxTime |-> "none"]

-----------------------------------------------------------------------------
(* handleTrace.                                                            *)

Goto(r, l) == pc' = [pc EXCEPT ![r] = l]
Finish(r, a) == Goto(r, "done") /\ answer' = [answer EXCEPT ![r] = a]

\* GET /trace with a valid number of seconds.
Begin(r) ==
    /\ pc[r] = "idle"
    /\ id' = [id EXCEPT ![r] = clock]
    /\ Goto(r, "start")
    /\ UNCHANGED <<clock, profile, tracer, complained, gone, wErr, answer, traces, file>>

\* cmd.Start()
Start(r) ==
    /\ pc[r] = "start"
    /\ \/ /\ tracer' = [tracer EXCEPT ![r][profile[r]] = "running"]
          /\ Goto(r, "write")
          /\ UNCHANGED answer
       \/ /\ Finish(r, "failed")
          /\ UNCHANGED tracer
    /\ UNCHANGED <<clock, id, profile, complained, gone, wErr, traces, file>>

\* Mutant of Decide: the last profile is left out.
DecideOffByOne(r) ==
    /\ pc[r] = "decide"
    /\ IF profile[r] \in complained[r] /\ profile[r] + 2 \in Profiles
       THEN /\ profile' = [profile EXCEPT ![r] = @ + 1]
            /\ Goto(r, "start")
            /\ UNCHANGED answer
       ELSE /\ Finish(r, "failed")
            /\ UNCHANGED profile
    /\ UNCHANGED <<clock, id, tracer, complained, gone, wErr, traces, file>>

\* An error other than context.Canceled: another profile, or the end.
Decide(r) ==
    /\ pc[r] = "decide"
    /\ IF profile[r] \in complained[r] /\ profile[r] + 1 \in Profiles
       THEN /\ profile' = [profile EXCEPT ![r] = @ + 1]
            /\ Goto(r, "start")
            /\ UNCHANGED answer
       ELSE /\ Finish(r, "failed")
            /\ UNCHANGED profile
    /\ UNCHANGED <<clock, id, tracer, complained, gone, wErr, traces, file>>

\* TraceStore.Add, and the page that redirects to the profile.
Add(r) ==
    /\ pc[r] = "add"
    /\ traces' = IF id[r] \in ToSet(traces) THEN traces ELSE Append(traces, id[r])
    /\ Finish(r, "redirect")
    /\ UNCHANGED <<clock, id, profile, tracer, complained, gone, wErr, file>>

-----------------------------------------------------------------------------
(* streamCountdown.                                                        *)

\* A line of the countdown; it may fail once the client has gone.
WriteCountdown(r) ==
    /\ pc[r] = "write"
    /\ \/ Goto(r, "select") /\ UNCHANGED wErr
       \/ r \in gone /\ Goto(r, "decide") /\ wErr' = wErr \cup {r}
    /\ UNCHANGED <<clock, id, profile, tracer, complained, gone, answer, traces, file>>

\* case <-ticker.C
NextSecond(r) ==
    /\ pc[r] = "select"
    /\ Goto(r, "write")
    /\ UNCHANGED <<clock, id, profile, tracer, complained, gone, wErr, answer, traces, file>>

\* Mutant of TracerDone: the exit status is not looked at.
TracerDoneAnyhow(r) ==
    /\ pc[r] = "select"
    /\ tracer[r][profile[r]] \in {"ok", "failed"}
    /\ Goto(r, "add")
    /\ UNCHANGED <<clock, id, profile, tracer, complained, gone, wErr, answer, traces, file>>

\* case err := <-done: dotnet-trace has ended.
TracerDone(r) ==
    /\ pc[r] = "select"
    /\ tracer[r][profile[r]] \in {"ok", "failed"}
    /\ Goto(r, IF tracer[r][profile[r]] = "ok" THEN "add" ELSE "decide")
    /\ UNCHANGED <<clock, id, profile, tracer, complained, gone, wErr, answer, traces, file>>

\* Mutant of ContextDone: dotnet-trace is waited for and not killed.
ContextDoneNoKill(r) ==
    /\ pc[r] = "select"
    /\ r \in gone
    /\ Goto(r, "reap")
    /\ UNCHANGED <<clock, id, profile, tracer, complained, gone, wErr, answer, traces, file>>

\* case <-ctx.Done(): dotnet-trace is killed, ...
ContextDone(r) ==
    /\ pc[r] = "select"
    /\ r \in gone
    /\ tracer' = [tracer EXCEPT ![r][profile[r]] = IF @ = "running" THEN "killed" ELSE @]
    /\ Goto(r, "reap")
    /\ UNCHANGED <<clock, id, profile, complained, gone, wErr, answer, traces, file>>

\* Mutant of Reap: <-done is left out.
ReapAtOnce(r) ==
    /\ pc[r] = "reap"
    /\ Finish(r, "canceled")
    /\ UNCHANGED <<clock, id, profile, tracer, complained, gone, wErr, traces, file>>

\* ... and waited for; handleTrace returns without another word.
Reap(r) ==
    /\ pc[r] = "reap"
    /\ ~Alive(tracer[r][profile[r]])
    /\ Finish(r, "canceled")
    /\ UNCHANGED <<clock, id, profile, tracer, complained, gone, wErr, traces, file>>

HandleTrace(r) ==
    \/ Begin(r) \/ Start(r) \/ Decide(r) \/ Add(r)
    \/ WriteCountdown(r) \/ NextSecond(r) \/ TracerDone(r) \/ ContextDone(r) \/ Reap(r)

-----------------------------------------------------------------------------
(* The pages of the profiles, which change nothing: what they answer now.  *)

\* handleProfileList: the links, the newest trace first.
ProfileList == Reverse(traces)

\* handleProfile with parseProfilePath and TraceStore.Exists.
Profile(t) == IF t \notin ToSet(traces) \/ file[t] = "none" THEN "not found" ELSE file[t]

-----------------------------------------------------------------------------
(* The clients, dotnet-trace and the clock.                                *)

Disconnect(r) ==
    /\ pc[r] \notin {"idle", "done"}
    /\ gone' = gone \cup {r}
    /\ UNCHANGED <<clock, pc, id, profile, tracer, complained, wErr, answer, traces, file>>

\* dotnet-trace writes to its standard error that it does not know the profile.
Complain(r, i) ==
    /\ tracer[r][i] = "running"
    /\ complained' = [complained EXCEPT ![r] = @ \cup {i}]
    /\ UNCHANGED <<clock, pc, id, profile, tracer, gone, wErr, answer, traces, file>>

\* It writes /tmp/ID.speedscope.json, which takes it some time.
TracerWrites(r, i) ==
    /\ tracer[r][i] = "running" /\ i \notin complained[r]
    /\ file' = [file EXCEPT ![id[r]] = "partial"]
    /\ UNCHANGED <<clock, pc, id, profile, tracer, complained, gone, wErr, answer, traces>>

\* It ends: with the profile written, unless it complained, or with an error.
TracerEnds(r, i) ==
    /\ Alive(tracer[r][i])
    /\ \E end \in {"ok", "failed"} :
           /\ end = "ok" => i \notin complained[r]
           /\ tracer' = [tracer EXCEPT ![r][i] = end]
           /\ file' = IF end = "ok" THEN [file EXCEPT ![id[r]] = "whole"] ELSE file
    /\ UNCHANGED <<clock, pc, id, profile, complained, gone, wErr, answer, traces>>

Tick ==
    /\ clock < MaxTime
    /\ clock' = clock + 1
    /\ UNCHANGED <<pc, id, profile, tracer, complained, gone, wErr, answer, traces, file>>

Environment ==
    \/ \E r \in Requests : \/ Disconnect(r)
                           \/ \E i \in Profiles : Complain(r, i) \/ TracerWrites(r, i) \/ TracerEnds(r, i)
    \/ Tick

Next == Environment \/ \E r \in Requests : HandleTrace(r)

Spec == Init /\ [][Next]_vars

\* A handler runs; a select that finds its context done again and again takes
\* that case in the end, for it chooses at random; a process that was killed
\* ends.  dotnet-trace itself may hang, and a client may stay for ever.
Fairness ==
    /\ \A r \in Requests : /\ WF_vars(pc[r] # "idle" /\ HandleTrace(r))
                           /\ SF_vars(ContextDone(r))
    /\ \A r \in Requests, i \in Profiles : WF_vars(tracer[r][i] = "killed" /\ TracerEnds(r, i))

FairSpec == Spec /\ Fairness
-----------------------------------------------------------------------------
(* Properties.                                                             *)

\* Two requests in one millisecond have one name, and one file.
Shared(t) == \E q, r \in Requests : q # r /\ id[q] = t /\ id[r] = t /\ {pc[q], pc[r]} \cap {"idle"} = {}

\* What /profile_list links to, each trace once, was made by a dotnet-trace that
\* succeeded, and /profile serves it written to its end; so is the one a page
\* redirects to.  Only a request that shares the name can take that away again,
\* when its dotnet-trace writes the same file.
ListedIsComplete ==
    LET links == ProfileList
    IN /\ \A i, j \in DOMAIN links : links[i] = links[j] => i = j
       /\ \A t \in ToSet(links) :
              /\ Profile(t) # "not found"
              /\ Profile(t) = "whole" \/ Shared(t)
              /\ \E r \in Requests, k \in Profiles : id[r] = t /\ tracer[r][k] = "ok"
       /\ \A r \in Requests : answer[r] = "redirect" => id[r] \in ToSet(links)

\* A request has one dotnet-trace at a time on the target and leaves none
\* behind, except when the countdown could not be written, where
\* streamCountdown returns without waiting for it.
TracersAreReaped ==
    \A r \in Requests, i \in Profiles :
        Alive(tracer[r][i]) => \/ r \in wErr
                               \/ i = profile[r] /\ pc[r] \notin {"idle", "decide", "done"}

\* The second profile is tried just when dotnet-trace called the first unknown:
\* no request fails for its profile before all of them were tried.
UnsupportedIsRetried ==
    \A r \in Requests :
        /\ profile[r] = 2 => 1 \in complained[r]
        /\ answer[r] = "failed" /\ 1 \in complained[r] /\ r \notin wErr => profile[r] = 2

\* A request whose client has gone ends, even if dotnet-trace hangs.
GoneRequestReturns == \A r \in Requests : r \in gone ~> pc[r] = "done"

=============================================================================
