----------------------------- MODULE AdminPages -----------------------------
(***************************************************************************)
(* One request for a page about the processes of the container:            *)
(* handleStack, handleShowThreads or handleRoot of internal/debugadmin/    *)
(* http_server.go.  The page of the stacks resolves the pid of the target  *)
(* (ProcTree), collects the output of netcoredbg attached to it            *)
(* (StackCollector) and divides it among the threads (StackBlocks).        *)
(*                                                                         *)
(* The client, and for the debuggers a limit of 20 s, may end the context. *)
(* What happens to the processes once they have been read is of no more    *)
(* interest here and not recorded.                                         *)
(***************************************************************************)
EXTENDS StackCollector, StackBlocks, ProcTree

CONSTANTS Texts,    \* bound: the kinds of the pieces that netcoredbg writes
          MaxLines  \* bound: the lines gdb writes

ASSUME TextsAssumption ==
    /\ Texts \subseteq [1..MaxPieces -> LineKinds]
    /\ MaxLines \in Nat

VARIABLES request,  \* which page
          handler,  \* where its handler is
          page      \* the threads and the misc lines of the page, and its text

pageVars == <<request, handler, page>>
allVars == <<vars, treeVars, pageVars>>

NoPage == [threads |-> <<>>, misc |-> <<>>]
Text(lines, kind) == [lines |-> lines, kind |-> kind]
NoText == Text(<<>>, <<>>)

\* What gdb may write until it ends, or is killed as the limit is reached.
ThreadDumps ==
    UNION {{Text([i \in 1..n |-> i], kind) : kind \in [1..n -> LineKinds]} : n \in 0..MaxLines}

\* The two walks of handleRoot are independent: that for a wrapper is looked at
\* in handleStack, and the tree is of no interest to the list.
PagesInit ==
    /\ Init
    /\ TreeInit
    /\ request \in {"root", "stack", "threads"}
    /\ handler = "start"
    /\ \E dump \in IF request = "threads" THEN ThreadDumps ELSE {NoText} :
           page = [text |-> dump, shown |-> NoPage]
    /\ request \in {"root", "threads"} => ~wrapped
    /\ request = "threads" \/ (request = "stack" /\ ~wrapped) => proc = Nobody
    /\ request = "root" => \A p \in Pids : proc[p].parent = Outside

\* handleRoot and handleStack first call resolveTargetPID.
ResolvePID ==
    /\ handler = "start" /\ request \in {"root", "stack"}
    /\ Resolve
    /\ UNCHANGED <<vars, pageVars>>

ProcessesChange ==
    /\ ProcessEvent
    /\ UNCHANGED <<vars, pageVars>>

\* handleRoot then lists the processes.
ListAll ==
    /\ handler = "start" /\ request = "root"
    /\ List
    /\ handler' = IF walk' = "listed" THEN "done" ELSE handler
    /\ UNCHANGED <<vars, request, page>>

\* handleStack calls collectStackOutput with the pid; the context may be done as
\* the collector starts.
CallCollector ==
    /\ handler = "start" /\ request = "stack" /\ walk = "resolved"
    /\ handler' = "collect"
    /\ ForgetTree
    /\ UNCHANGED <<vars, request, page>>

\* The goroutines may go on when the collector has returned.
Collect ==
    /\ request = "stack" /\ handler # "start"
    /\ Next
    /\ UNCHANGED <<treeVars, pageVars>>

Show(text) == page' = [text |-> text, shown |-> parseStackBlocks(text.lines, text.kind)]

\* renderStackHTML
RenderStack ==
    /\ handler = "collect" /\ pc = "returned"
    /\ \E kind \in Texts : Show(Text(result.stack, kind))
    /\ handler' = "done"
    /\ UNCHANGED <<vars, treeVars, request>>

\* handleShowThreads takes a pid from the request and runs gdb to its end.
ShowThreads ==
    /\ handler = "start" /\ request = "threads"
    /\ Show(page.text)
    /\ handler' = "done"
    /\ UNCHANGED <<vars, treeVars, request>>

InvalidPID ==
    /\ handler = "start" /\ request = "threads"
    /\ handler' = "done"
    /\ Show(NoText)
    /\ UNCHANGED <<vars, treeVars, request>>

PagesNext ==
    \/ ResolvePID \/ ProcessesChange \/ ListAll
    \/ CallCollector \/ Collect \/ RenderStack
    \/ ShowThreads \/ InvalidPID

PagesSpec == PagesInit /\ [][PagesNext]_allVars

\* The handler and its goroutines run, the limit is reached in the end, and a
\* process that is killed ends.  The debugger may hang, and neither the idle
\* timer nor what processes do is a promise.
Step(A) == request = "stack" /\ handler # "start" /\ A /\ UNCHANGED <<treeVars, pageVars>>

PagesFairness ==
    /\ WF_allVars(ResolvePID \/ ListAll \/ CallCollector \/ RenderStack \/ ShowThreads)
    /\ WF_allVars(Step(CollectStackOutput))
    /\ WF_allVars(Step(ReadPipeChunks))
    /\ WF_allVars(Step(ReadStderr))
    /\ WF_allVars(Step(ContextDone))
    /\ WF_allVars(Step(ContextKills))
    /\ WF_allVars(Step(debugger = "killed" /\ DebuggerEnds))

FairPagesSpec == PagesSpec /\ PagesFairness
-----------------------------------------------------------------------------
(* Properties.                                                             *)

\* Every line of the backtraces is on the page, once: under the thread whose
\* header was the last before it, in order, or apart when there was none before;
\* the workers of the thread pool come first and no thread loses its place else.
PageShowsTheOutput ==
    handler = "done" => ShowsAll(page.shown, page.text.lines, page.text.kind)

\* A request for a page ends, whatever the debugger does and the processes do,
\* and leaves no goroutine behind that reads from the debugger.
PageIsAnswered ==
    <>(/\ handler = "done"
       /\ debugger # "none" => reader = "ended" /\ errReader = "sent")

=============================================================================
