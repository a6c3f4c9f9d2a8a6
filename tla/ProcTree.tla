------------------------------ MODULE ProcTree ------------------------------
(***************************************************************************)
(* The readers of /proc in internal/debugadmin/proc_list.go, and           *)
(* resolveTargetPID of http_server.go: under gdb or dotnet-coverage the    *)
(* process that was started is a wrapper, and the target is looked for     *)
(* among its descendants.                                                  *)
(*                                                                         *)
(* /proc is read entry by entry while processes fork, execute other        *)
(* programs, end and are reaped, so a walk never sees one moment of the    *)
(* tree.  The kernel gives pids out in turn: within one walk no pid is     *)
(* used again; before it, the pid of a wrapper that has ended may have     *)
(* gone to any process.                                                    *)
(***************************************************************************)
EXTENDS Integers, Sequences, SequencesExt

CONSTANTS Pids,         \* the pids in use or free to be used
          Root,         \* TargetProcess.PID()
          DirOrder,     \* the pids as os.ReadDir lists them, sorted as strings
          Cmdlines,     \* what a process may execute
          StartupParam, \* GlobalOptions.StartupParams[0]
          IsDll,        \* it ends in .dll
          MaxEvents     \* bound: what happens to processes during a walk

ASSUME PidsAssumption ==
    /\ Pids \subseteq Nat \ {0} /\ Root \in Pids
    /\ DirOrder \in Seq(Pids) /\ IsInjective(DirOrder) /\ Range(DirOrder) = Pids
    /\ IsDll \in BOOLEAN /\ MaxEvents \in Nat

VARIABLES
    proc,       \* the processes
    events,     \* what has happened to them during the walk
    walk,       \* where the reader of /proc is
    wrapped,    \* WithGDB or WithCoverage
    entries,    \* the entries that are still to be read
    childrenOf,
    queue,
    resolved,   \* what resolveTargetPID returns
    processes,  \* what listContainerProcesses returns
    listed,     \* history: the processes when /proc was listed
    steady      \* history: those that nothing has happened to since

locals == <<entries, childrenOf, queue>>
history == <<listed, steady>>
treeVars == <<proc, events, walk, wrapped, locals, resolved, processes, history>>

-----------------------------------------------------------------------------
(* The tree of processes.                                                  *)

Outside == 0      \* the admin process, init: all that is not in Pids
Free == [state |-> "free", parent |-> Outside, cmd |-> <<>>]
Process(parent, cmd) == [state |-> "running", parent |-> parent, cmd |-> cmd]

\* A zombie still has an entry in /proc and a parent, but no command line.
Exists(t, p) == t[p].state \in {"running", "zombie"}
Runs(t, p) == t[p].state = "running"

\* The k-th ancestor of p.
Ancestor(t, p, k) ==
    LET up[i \in 0..k] == IF i = 0 THEN p
                          ELSE IF up[i - 1] = Outside THEN Outside ELSE t[up[i - 1]].parent
    IN up[k]

Depths == 1..Cardinality(Pids)
Descends(t, p) == \E k \in Depths : Ancestor(t, p, k) = Root
Depth(t, p) == CHOOSE k \in Depths : Ancestor(t, p, k) = Root

\* isTargetProcess; an argument that is equal stands for one that contains.
isTargetProcess(cmd) ==
    /\ cmd # <<>>
    /\ IF IsDll THEN cmd[1] = "dotnet" /\ Len(cmd) > 1 /\ cmd[2] = StartupParam
                ELSE cmd[1] = StartupParam

\* The pid of the wrapper, whose command line is not read, is in use or is not.
Roots == {Free, Process(Outside, <<"wrapper">>)}

\* Every forest of processes.
Tables ==
    {t \in [Pids -> Roots \cup {Process(q, c) : q \in Pids \cup {Outside}, c \in Cmdlines}] :
        /\ \A p \in Pids : /\ t[p].parent # Outside => Runs(t, t[p].parent)
                           /\ Ancestor(t, p, Cardinality(Pids)) = Outside
        /\ \A p \in Pids : IF p = Root THEN t[p] \in Roots ELSE t[p].cmd # <<"wrapper">>}

\* What happens to processes.
Fork(p, q) ==
    /\ Runs(proc, p) /\ proc[q].state = "free"
    /\ proc' = [proc EXCEPT ![q] = Process(p, proc[p].cmd)]

Execute(p) ==
    /\ Runs(proc, p)
    /\ \E c \in Cmdlines \ {proc[p].cmd} : proc' = [proc EXCEPT ![p].cmd = c]

\* Its children go to init.
Exit(p) ==
    /\ Runs(proc, p)
    /\ proc' = [q \in Pids |->
                   IF q = p THEN [proc[p] EXCEPT !.state = "zombie", !.cmd = <<>>]
                   ELSE IF proc[q].parent = p THEN [proc[q] EXCEPT !.parent = Outside]
                   ELSE proc[q]]

Reap(p) ==
    /\ proc[p].state = "zombie"
    /\ proc' = [proc EXCEPT ![p] = [Free EXCEPT !.state = "used"]]

Reading == walk \in {"ppid", "visit", "stat", "row"}

ProcessEvent ==
    /\ Reading /\ events < MaxEvents
    /\ events' = events + 1
    /\ \E p \in Pids : Execute(p) \/ Exit(p) \/ Reap(p) \/ \E q \in Pids : Fork(p, q)
    /\ steady' = {p \in steady : proc'[p] = proc[p]}
    /\ UNCHANGED <<walk, wrapped, locals, resolved, processes, listed>>

-----------------------------------------------------------------------------
(* resolveTargetPID and findTargetDescendantPID.                           *)

NoChildren == [p \in Pids |-> <<>>]

\* The processes that are there, in the order of the directory.
Existing ==
    LET upTo[i \in 0..Len(DirOrder)] ==
            IF i = 0 THEN <<>>
            ELSE IF Exists(proc, DirOrder[i]) THEN Append(upTo[i - 1], DirOrder[i])
            ELSE upTo[i - 1]
    IN upTo[Len(DirOrder)]

\* os.ReadDir("/proc"), whose entries fit the buffer of one system call.
ReadDir ==
    /\ entries' = Existing
    /\ listed' = proc
    /\ steady' = Pids

\* Without a wrapper the pid is taken as it is.  /proc can be read.
ResolveTargetPID ==
    /\ walk = "idle"
    /\ \/ wrapped /\ walk' = "ppid" /\ ReadDir /\ UNCHANGED resolved
       \/ ~wrapped /\ walk' = "resolved" /\ resolved' = Root /\ UNCHANGED <<entries, history>>
    /\ UNCHANGED <<proc, events, wrapped, childrenOf, queue, processes>>

\* readProcessPPID, which fails when the process is gone.
ReadPPID ==
    /\ walk = "ppid" /\ entries # <<>>
    /\ LET p == Head(entries)
           ppid == proc[p].parent
       IN childrenOf' = IF Exists(proc, p) /\ ppid # Outside
                        THEN [childrenOf EXCEPT ![ppid] = Append(@, p)]
                        ELSE childrenOf
    /\ entries' = Tail(entries)
    /\ UNCHANGED <<proc, events, walk, wrapped, queue, resolved, processes, history>>

\* Mutant of StartSearch: all processes are searched.
StartSearchOfAll ==
    /\ walk = "ppid" /\ entries = <<>>
    /\ queue' = Existing
    /\ walk' = "visit"
    /\ UNCHANGED <<proc, events, wrapped, entries, childrenOf, resolved, processes, history>>

StartSearch ==
    /\ walk = "ppid" /\ entries = <<>>
    /\ queue' = <<Root>>
    /\ walk' = "visit"
    /\ UNCHANGED <<proc, events, wrapped, entries, childrenOf, resolved, processes, history>>

\* Mutant of Visit: the last one in the queue goes first.
VisitLast ==
    /\ walk = "visit" /\ queue # <<>>
    /\ LET p == Last(queue)
       IN IF p # Root /\ isTargetProcess(proc[p].cmd)
          THEN walk' = "resolved" /\ resolved' = p /\ UNCHANGED queue
          ELSE queue' = Front(queue) \o childrenOf[p] /\ UNCHANGED <<walk, resolved>>
    /\ UNCHANGED <<proc, events, wrapped, entries, childrenOf, processes, history>>

\* The nearest descendant whose command line, as it is now, is the target's.
Visit ==
    /\ walk = "visit" /\ queue # <<>>
    /\ LET p == Head(queue)
       IN IF p # Root /\ isTargetProcess(proc[p].cmd)
          THEN walk' = "resolved" /\ resolved' = p /\ UNCHANGED queue
          ELSE queue' = Tail(queue) \o childrenOf[p] /\ UNCHANGED <<walk, resolved>>
    /\ UNCHANGED <<proc, events, wrapped, entries, childrenOf, processes, history>>

\* There is none: the wrapper's pid is used.
NotFound ==
    /\ walk = "visit" /\ queue = <<>>
    /\ walk' = "resolved" /\ resolved' = Root
    /\ UNCHANGED <<proc, events, wrapped, locals, processes, history>>

Resolve == ResolveTargetPID \/ ReadPPID \/ StartSearch \/ Visit \/ NotFound

-----------------------------------------------------------------------------
(* listContainerProcesses.                                                 *)

ListProcesses ==
    /\ walk = "resolved"
    /\ walk' = "stat"
    /\ ReadDir
    /\ childrenOf' = NoChildren /\ queue' = <<>>
    /\ UNCHANGED <<proc, events, wrapped, resolved, processes>>

\* readProcessStartTime: a process that is gone gets no row.
ReadStat ==
    /\ walk = "stat" /\ entries # <<>>
    /\ IF Exists(proc, Head(entries))
       THEN walk' = "row" /\ UNCHANGED entries
       ELSE entries' = Tail(entries) /\ UNCHANGED walk
    /\ UNCHANGED <<proc, events, wrapped, childrenOf, queue, resolved, processes, history>>

\* readProcessCmdline, which is empty when it has gone since.
ReadCmdline ==
    /\ walk = "row"
    /\ LET p == Head(entries)
       IN processes' = Append(processes, [pid |-> p, target |-> isTargetProcess(proc[p].cmd)])
    /\ entries' = Tail(entries)
    /\ walk' = "stat"
    /\ UNCHANGED <<proc, events, wrapped, childrenOf, queue, resolved, history>>

\* Mutant of SortByPID: the order of the directory is kept.
SortNothing ==
    /\ walk = "stat" /\ entries = <<>>
    /\ walk' = "listed"
    /\ UNCHANGED <<proc, events, wrapped, locals, resolved, processes, history>>

\* sort.Slice: the same rows in another order.
SortByPID ==
    /\ walk = "stat" /\ entries = <<>>
    /\ \E f \in Bijection(1..Len(processes), 1..Len(processes)) :
           /\ processes' = [i \in 1..Len(processes) |-> processes[f[i]]]
           /\ \A i, j \in 1..Len(processes) : i < j => processes'[i].pid <= processes'[j].pid
    /\ walk' = "listed"
    /\ UNCHANGED <<proc, events, wrapped, locals, resolved, history>>

List == ListProcesses \/ ReadStat \/ ReadCmdline \/ SortByPID

-----------------------------------------------------------------------------
Nobody == [p \in Pids |-> Free]

TreeInit ==
    /\ proc \in Tables
    /\ walk = "idle"
    /\ wrapped \in BOOLEAN
    /\ entries = <<>> /\ childrenOf = NoChildren /\ queue = <<>>
    /\ resolved = Outside
    /\ processes = <<>>
    /\ listed = Nobody /\ steady = {}
    /\ events = 0

\* What was read of /proc is of no more interest.
ForgetTree ==
    /\ proc' = Nobody
    /\ walk' = "idle" /\ wrapped' = FALSE
    /\ entries' = <<>> /\ childrenOf' = NoChildren /\ queue' = <<>>
    /\ resolved' = Outside
    /\ processes' = <<>>
    /\ listed' = Nobody /\ steady' = {}
    /\ events' = 0

-----------------------------------------------------------------------------
(* Properties.                                                             *)

Walked == walk = "resolved" /\ wrapped

\* The ancestors of p below the root, and p, have been left in peace.
Undisturbed(p) ==
    \A k \in 0..(Depth(listed, p) - 1) : Ancestor(listed, p, k) \in steady

\* What was found under the wrapper was below it when /proc was listed, however
\* many of its ancestors have ended, and left their children to init, since.  A
\* target that nothing happens to is found, or one that is as near to the wrapper:
\* the walk returns the wrapper only when there was none, or it or one of its
\* ancestors was forked, replaced or ended during the walk.
TargetIsResolved ==
    Walked =>
        /\ resolved # Root => Descends(listed, resolved)
        /\ \A p \in Pids \ {Root} :
            Descends(listed, p) /\ isTargetProcess(listed[p].cmd) /\ Undisturbed(p) =>
                /\ resolved # Root
                /\ Depth(listed, resolved) <= Depth(listed, p)

\* The page has one row for every process that was there all the time, marked
\* if it is the target's, in the order of the pids, and none for a process that
\* was not there.
ListIsOfTheProcesses ==
    walk = "listed" =>
        /\ \A i, j \in 1..Len(processes) : i < j => processes[i].pid < processes[j].pid
        /\ \A row \in Range(processes) : Exists(listed, row.pid)
        /\ \A p \in steady : Exists(listed, p) =>
               [pid |-> p, target |-> isTargetProcess(listed[p].cmd)] \in Range(processes)
=============================================================================
