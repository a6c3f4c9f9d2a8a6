------------------------ MODULE CodeCoverage_proofs ------------------------
(***************************************************************************)
(* For every number of requests, every list of pdb files and every bound   *)
(* on the history: what CodeCoverage answers, lists and takes its sources  *)
(* from is right, through failures, time limits and crashes.               *)
(***************************************************************************)
EXTENDS CodeCoverage, TLAPS

Places == {"idle", "start", "wait", "clean", "cleaning", "record", "reply", "done"}
Steps == {"idle", "next", "rows", "write", "mark"}
ProcStates == {"none", "running", "ok", "failed", "killed"}
Reports == {"none", "part", "whole"}
Answers == {"none", "failed", "conflict", "redirect"}
Files == {"absent", "torn", "whole"}

RunType ==
    /\ pc \in [Requests -> Places]
    /\ tool \in [Requests -> {Snapshot, MergeTool, ReportGenerator}]
    /\ proc \in [Requests -> ProcStates]
    /\ report \in [Requests -> Reports]
    /\ answer \in [Requests -> Answers]
    /\ holder \in Requests \cup {Free}
    /\ history \in Seq(Requests)
    /\ taken \subseteq Requests

CacheType ==
    /\ marked \subseteq Pdbs
    /\ file = [p \in Pdbs |-> file[p]]
    /\ \A p \in Pdbs : file[p] \in [Rows(p) -> Files]
    /\ step \in [Requests -> Steps]
    /\ todo \in [Requests -> Seq(Pdbs)]
    /\ row \in [Requests -> Nat]
    /\ indexed \in [Requests -> SUBSET Pdbs]

\* Row i of p is dealt with.
RowDone(p, i) ==
    /\ Documents[p][i] \notin {"corrupt", "negative"}
    /\ Documents[p][i] = "source" => file[p][i] = "whole"

\* A caller that builds an index or has one: no pdb comes to it twice, and of the
\* one it extracts, which nobody has marked, the rows before its row are done.
Building(c) ==
    /\ \A p \in indexed[c] : Whole(p)
    /\ \A i, j \in 1..Len(todo[c]) : todo[c][i] = todo[c][j] => i = j
    /\ \A i \in 1..Len(todo[c]) : todo[c][i] \notin indexed[c]
    /\ step[c] \in {"rows", "write", "mark"} =>
           /\ todo[c] # <<>> /\ Pdb(c) \notin marked
           /\ row[c] > 0
           /\ \A i \in Rows(Pdb(c)) : i < row[c] => RowDone(Pdb(c), i)
    /\ step[c] = "write" => row[c] \in Rows(Pdb(c)) /\ Documents[Pdb(c)][row[c]] = "source"
    /\ step[c] = "mark" => row[c] \notin Rows(Pdb(c))

\* Only the holder of coverageRunMu is inside the cache.
CacheInv ==
    /\ \A p \in marked : Whole(p)
    /\ \A c \in Requests : IF step[c] = "idle" THEN indexed[c] = {} /\ todo[c] = <<>>
                                               ELSE holder = c /\ Building(c)

\* What a request has when it is at a place of handleCodeCoverage.
RunOf(r) ==
    /\ Collecting(r) => holder = r
    /\ pc[r] # "wait" => proc[r] = "none"
    /\ pc[r] = "idle" => report[r] = "none"
    /\ answer[r] # "none" => pc[r] = "done"
    /\ answer[r] = "redirect" => report[r] = "whole"
    /\ answer[r] = "conflict" => report[r] = "none"
    /\ pc[r] \in {"record", "reply"} => report[r] = "whole"
    /\ tool[r] = ReportGenerator /\ proc[r] = "ok" => report[r] = "whole"

RunInv == \A r \in Requests : RunOf(r)

\* Requests come in their order.
ArrivalInv == \A q, r \in Requests : pc[q] = "idle" /\ r > q => pc[r] = "idle"

\* Who is in the history: in the order of the requests, and pushed out from its
\* front only.
Listed(r) == \E i \in 1..Len(history) : history[i] = r
PushedOut(r) ==
    Len(history) = maxCoverageHistory /\ \A i \in 1..Len(history) : history[i] > r

HistoryInv ==
    /\ Len(history) <= maxCoverageHistory
    /\ \A i, j \in 1..Len(history) : i < j => history[i] < history[j]
    /\ \A i \in 1..Len(history) :
           /\ history[i] \in taken \ unreadable
           /\ pc[history[i]] = "reply" \/ answer[history[i]] = "redirect"
    /\ \A r \in Requests :
           /\ Collecting(r) => r \in taken /\ \A i \in 1..Len(history) : history[i] <= r
           /\ pc[r] \notin {"reply", "done"} => r \notin unreadable
    /\ \A r \in taken \ unreadable :
           pc[r] = "reply" \/ answer[r] = "redirect" => Listed(r) \/ PushedOut(r)

IInv == RunType /\ CacheType /\ RunInv /\ ArrivalInv /\ CacheInv /\ HistoryInv
-----------------------------------------------------------------------------
(* Proofs.                                                                 *)

\* The initial states satisfy the invariant.
LEMMA InitIInv == Init => IInv
<1> SUFFICES ASSUME Init PROVE IInv
  OBVIOUS
<1> USE CoverageAssumption, DocumentsAssumption DEF Init, CacheInit
<1>1. RunType
  BY DEF RunType, Places, ProcStates, Reports, Answers, Free
<1>2. CacheType
  BY DEF CacheType, Steps, Files
<1>3. RunInv /\ ArrivalInv
  BY DEF RunInv, RunOf, ArrivalInv, Collecting
<1>4. CacheInv
  BY DEF CacheInv
<1>5. HistoryInv
  BY DEF HistoryInv, Collecting
<1> QED
  BY <1>1, <1>2, <1>3, <1>4, <1>5 DEF IInv

-----------------------------------------------------------------------------
(* The cache.                                                              *)

\* Nothing happens in the cache, and whoever is inside holds the lock.
LEMMA CacheLeftAlone ==
    ASSUME CacheType, CacheInv, UNCHANGED cacheVars,
           \A c \in Requests : step[c] # "idle" => holder' = c
    PROVE  CacheType' /\ CacheInv'
<1>1. CacheType'
  BY DEF CacheType, cacheVars
<1>2. ASSUME NEW c \in Requests
      PROVE  IF step'[c] = "idle" THEN indexed'[c] = {} /\ todo'[c] = <<>>
                                  ELSE holder' = c /\ Building(c)'
  <2>1. CASE step[c] = "idle"
    BY <2>1 DEF CacheInv, cacheVars
  <2>2. CASE step[c] # "idle"
    BY <2>2 DEF CacheInv, cacheVars, Building, Pdb, RowDone, Whole
  <2> QED
    BY <2>1, <2>2
<1>3. \A p \in marked' : Whole(p)'
  BY DEF CacheInv, cacheVars, Whole
<1> QED
  BY <1>1, <1>2, <1>3 DEF CacheInv

\* The holder of the lock leaves it.
LEMMA CacheDropped ==
    ASSUME CacheType, CacheInv, NEW r \in Requests, holder = r, DropIndex(r)
    PROVE  CacheType' /\ CacheInv'
<1> USE CoverageAssumption DEF DropIndex, StepTo, disk
<1>1. CacheType'
  BY DEF CacheType, Steps
<1>2. ASSUME NEW c \in Requests
      PROVE  step'[c] = "idle" /\ indexed'[c] = {} /\ todo'[c] = <<>>
  BY DEF CacheInv, CacheType
<1>3. \A p \in marked' : Whole(p)'
  BY DEF CacheInv, Whole
<1> QED
  BY <1>1, <1>2, <1>3 DEF CacheInv

\* The admin process ends.
LEMMA CacheLost ==
    ASSUME CacheType, CacheInv, LoseCallers
    PROVE  CacheType' /\ CacheInv'
<1> USE CoverageAssumption DEF LoseCallers, disk
<1>1. CacheType'
  BY DEF CacheType, Steps
<1>2. ASSUME NEW c \in Requests
      PROVE  step'[c] = "idle" /\ indexed'[c] = {} /\ todo'[c] = <<>>
  OBVIOUS
<1>3. \A p \in marked' : Whole(p)'
  BY DEF CacheInv, Whole
<1> QED
  BY <1>1, <1>2, <1>3 DEF CacheInv

\* The holder of the lock enters it with a list of pdb files.
LEMMA CacheEntered ==
    ASSUME CacheType, CacheInv, NEW r \in Requests, holder = r, holder' = r,
           NEW pdbFiles \in PdbLists, BuildIndex(r, pdbFiles)
    PROVE  CacheType' /\ CacheInv'
<1> USE CoverageAssumption DEF BuildIndex, StepTo, disk
<1>0. /\ pdbFiles \in Seq(Pdbs) /\ DOMAIN pdbFiles = 1..Len(pdbFiles)
      /\ \A i, j \in 1..Len(pdbFiles) : pdbFiles[i] = pdbFiles[j] => i = j
  BY DEF IsInjective
<1>1. CacheType'
  BY <1>0 DEF CacheType, Steps
<1>2. ASSUME NEW c \in Requests
      PROVE  IF step'[c] = "idle" THEN indexed'[c] = {} /\ todo'[c] = <<>>
                                  ELSE holder' = c /\ Building(c)'
  <2>1. CASE c = r
    <3>1. step'[r] = "next" /\ todo'[r] = pdbFiles /\ indexed'[r] = {}
      BY DEF CacheType
    <3> QED
      BY <1>0, <2>1, <3>1 DEF Building
  <2>2. CASE c # r
    <3>1. step'[c] = step[c] /\ todo'[c] = todo[c] /\ indexed'[c] = indexed[c]
      BY <2>2 DEF CacheType
    <3> QED
      BY <2>2, <3>1 DEF CacheInv
  <2> QED
    BY <2>1, <2>2
<1>3. \A p \in marked' : Whole(p)'
  BY DEF CacheInv, Whole
<1> QED
  BY <1>1, <1>2, <1>3 DEF CacheInv

\* The list of pdb files without its first one.
LEMMA TailOf ==
    ASSUME NEW t \in Seq(Pdbs), t # <<>>,
           \A i, j \in 1..Len(t) : t[i] = t[j] => i = j
    PROVE  /\ Head(t) \in Pdbs /\ Head(t) = t[1] /\ 1 \in 1..Len(t)
           /\ Tail(t) \in Seq(Pdbs)
           /\ \A i \in 1..Len(Tail(t)) : Tail(t)[i] # Head(t) /\ \E k \in 1..Len(t) : Tail(t)[i] = t[k]
           /\ \A i, j \in 1..Len(Tail(t)) : Tail(t)[i] = Tail(t)[j] => i = j
<1>1. Head(t) \in Pdbs /\ Head(t) = t[1] /\ 1 \in 1..Len(t)
  OBVIOUS
<1>2. /\ Tail(t) \in Seq(Pdbs) /\ Len(Tail(t)) = Len(t) - 1
      /\ \A i \in 1..Len(Tail(t)) : i + 1 \in 1..Len(t) /\ Tail(t)[i] = t[i + 1]
  OBVIOUS
<1> QED
  BY <1>1, <1>2

\* A source of a pdb is opened or written.
LEMMA FileChanges ==
    ASSUME CacheType, NEW p \in Pdbs, NEW i \in Rows(p), NEW x \in Files,
           file' = [file EXCEPT ![p][i] = x]
    PROVE  /\ file' = [q \in Pdbs |-> file'[q]]
           /\ \A q \in Pdbs : file'[q] \in [Rows(q) -> Files]
           /\ \A q \in Pdbs \ {p} : file'[q] = file[q]
           /\ \A k \in Rows(p) : file'[p][k] = IF k = i THEN x ELSE file[p][k]
<1>1. file' = [file EXCEPT ![p] = [file[p] EXCEPT ![i] = x]]
  BY DEF CacheType
<1>2. [file[p] EXCEPT ![i] = x] \in [Rows(p) -> Files]
  BY DEF CacheType
<1>3. file = [q \in Pdbs |-> file[q]]
  BY DEF CacheType
<1>4. \A q \in Pdbs : file'[q] = IF q = p THEN [file[p] EXCEPT ![i] = x] ELSE file[q]
  BY <1>1, <1>3
<1>5. file' = [q \in Pdbs |-> file'[q]]
  BY <1>1, <1>3
<1>6. \A k \in Rows(p) : file'[p][k] = IF k = i THEN x ELSE file[p][k]
  BY <1>4 DEF CacheType
<1>7. \A q \in Pdbs : file'[q] \in [Rows(q) -> Files]
  BY <1>2, <1>4 DEF CacheType
<1> QED
  BY <1>4, <1>5, <1>6, <1>7

\* One step of buildCSFileIndexFromPDBs, by the only caller there is.
LEMMA CacheStep ==
    ASSUME CacheType, CacheInv, NEW r \in Requests, BuildStep(r), holder' = holder
    PROVE  CacheType' /\ CacheInv'
<1> USE CoverageAssumption, DocumentsAssumption
<1>a. step[r] \in {"next", "rows", "write", "mark"}
  BY DEF BuildStep, UseMarked, StartExtract, SkipRow, CorruptRow, OpenFile, WriteFile, Mark
<1>b. /\ holder = r /\ Building(r)
      /\ \A c \in Requests \ {r} : step[c] = "idle" /\ indexed[c] = {} /\ todo[c] = <<>>
  BY <1>a DEF CacheInv
<1>c. /\ todo[r] \in Seq(Pdbs) /\ row[r] \in Nat /\ indexed[r] \subseteq Pdbs
      /\ \A i, j \in 1..Len(todo[r]) : todo[r][i] = todo[r][j] => i = j
      /\ \A i \in 1..Len(todo[r]) : todo[r][i] \notin indexed[r]
      /\ \A p \in indexed[r] : Whole(p)
  BY <1>b DEF CacheType, Building
<1>d. todo[r] # <<>>
  BY <1>a, <1>b DEF Building, BuildStep, UseMarked, StartExtract, SkipRow, CorruptRow, OpenFile,
                    WriteFile, Mark
<1>e. /\ Pdb(r) \in Pdbs /\ Pdb(r) \notin indexed[r] /\ Tail(todo[r]) \in Seq(Pdbs)
      /\ \A i \in 1..Len(Tail(todo[r])) :
             Tail(todo[r])[i] # Pdb(r) /\ Tail(todo[r])[i] \notin indexed[r]
      /\ \A i, j \in 1..Len(Tail(todo[r])) : Tail(todo[r])[i] = Tail(todo[r])[j] => i = j
  BY <1>c, <1>d, TailOf DEF Pdb
<1>f. Documents[Pdb(r)] \in Seq(Kinds) /\ Len(Documents[Pdb(r)]) \in Nat
      /\ Rows(Pdb(r)) = 1..Len(Documents[Pdb(r)])
  BY <1>e DEF Rows
<1>g. \A c \in Requests \ {r} : step'[c] = step[c] /\ indexed'[c] = indexed[c] /\ todo'[c] = todo[c]
  BY DEF CacheType, BuildStep, UseMarked, StartExtract, SkipRow, CorruptRow, OpenFile, WriteFile,
         Mark, GiveUp, IndexFiles, StepTo
<1>h. SUFFICES CacheType' /\ step'[r] # "idle" /\ Building(r)' /\ \A p \in marked' : Whole(p)'
  BY <1>b, <1>g DEF CacheInv
\* The pdb is left out.
<1>i. ASSUME GiveUp(r), UNCHANGED marked,
             file' = [q \in Pdbs |-> file'[q]], \A q \in Pdbs : file'[q] \in [Rows(q) -> Files],
             \A q \in Pdbs \ {Pdb(r)} : file'[q] = file[q],
             Pdb(r) \notin marked
      PROVE  CacheType' /\ step'[r] # "idle" /\ Building(r)' /\ \A p \in marked' : Whole(p)'
  <2>1. /\ step'[r] = "next" /\ todo'[r] = Tail(todo[r]) /\ indexed'[r] = indexed[r]
        /\ step' \in [Requests -> Steps] /\ todo' \in [Requests -> Seq(Pdbs)]
        /\ UNCHANGED <<row, indexed>>
    BY <1>e, <1>i DEF GiveUp, StepTo, CacheType, Steps
  <2>2. CacheType'
    BY <1>i, <2>1 DEF CacheType
  <2>3. \A p \in indexed[r] \cup marked : Whole(p)'
    BY <1>c, <1>e, <1>i DEF CacheInv, CacheType, Whole
  <2>4. Building(r)'
    BY <1>e, <2>1, <2>3 DEF Building
  <2> QED
    BY <1>i, <2>1, <2>2, <2>3, <2>4
\* Its files are indexed.
<1>j. ASSUME IndexFiles(r), UNCHANGED file, marked' \in {marked, marked \cup {Pdb(r)}}, Whole(Pdb(r))
      PROVE  CacheType' /\ step'[r] # "idle" /\ Building(r)' /\ \A p \in marked' : Whole(p)'
  <2>1. /\ step'[r] = "next" /\ todo'[r] = Tail(todo[r]) /\ indexed'[r] = indexed[r] \cup {Pdb(r)}
        /\ step' \in [Requests -> Steps] /\ todo' \in [Requests -> Seq(Pdbs)]
        /\ indexed' \in [Requests -> SUBSET Pdbs]
        /\ UNCHANGED row
    BY <1>c, <1>e, <1>j DEF IndexFiles, StepTo, CacheType, Steps
  <2>2. CacheType'
    BY <1>e, <1>j, <2>1 DEF CacheType
  <2>3. \A p \in indexed[r] \cup marked \cup {Pdb(r)} : Whole(p)'
    BY <1>c, <1>e, <1>j DEF CacheInv, CacheType, Whole
  <2>4. Building(r)'
    BY <1>e, <2>1, <2>3 DEF Building
  <2> QED
    BY <1>j, <2>1, <2>2, <2>3, <2>4
\* The row changes, or the place in Extract.
<1>k. ASSUME step[r] \in {"rows", "write", "mark"}
      PROVE  /\ Pdb(r) \notin marked /\ row[r] > 0
             /\ \A i \in Rows(Pdb(r)) : i < row[r] => RowDone(Pdb(r), i)
  BY <1>b, <1>k DEF Building
<1>l. ASSUME step'[r] \in {"rows", "write", "mark"}, step' = [step EXCEPT ![r] = step'[r]],
             UNCHANGED <<marked, todo, indexed>>, Pdb(r) \notin marked,
             row' \in [Requests -> Nat], row'[r] > 0,
             file' = [q \in Pdbs |-> file'[q]], \A q \in Pdbs : file'[q] \in [Rows(q) -> Files],
             \A q \in Pdbs \ {Pdb(r)} : file'[q] = file[q],
             \A i \in Rows(Pdb(r)) : i < row'[r] => RowDone(Pdb(r), i)',
             step'[r] = "write" => row'[r] \in Rows(Pdb(r)) /\ Documents[Pdb(r)][row'[r]] = "source",
             step'[r] = "mark" => row'[r] \notin Rows(Pdb(r))
      PROVE  CacheType' /\ step'[r] # "idle" /\ Building(r)' /\ \A p \in marked' : Whole(p)'
  <2>1. step' \in [Requests -> Steps]
    BY <1>l DEF CacheType, Steps
  <2>2. CacheType'
    BY <1>l, <2>1 DEF CacheType
  <2>3. \A p \in indexed[r] \cup marked : Whole(p)'
    BY <1>c, <1>e, <1>l DEF CacheInv, CacheType, Whole
  <2>4. Building(r)'
    BY <1>c, <1>d, <1>l, <2>3 DEF Building, Pdb
  <2> QED
    BY <1>l, <2>2, <2>3, <2>4
<1>m. /\ file = [q \in Pdbs |-> file[q]]
      /\ \A q \in Pdbs : file[q] \in [Rows(q) -> Files]
  BY DEF CacheType
<1>1. CASE UseMarked(r)
  BY <1>1, <1>j DEF UseMarked, CacheInv, disk
<1>2. CASE StartExtract(r)
  <2>1. CASE GiveUp(r)
    BY <1>2, <1>i, <1>m, <2>1 DEF StartExtract, disk
  <2>2. CASE StepTo(r, "rows") /\ row' = [row EXCEPT ![r] = 1] /\ UNCHANGED <<todo, indexed>>
    <3>1. step'[r] = "rows" /\ step' = [step EXCEPT ![r] = "rows"] /\ row'[r] = 1
          /\ row' \in [Requests -> Nat]
      BY <2>2 DEF StepTo, CacheType
    <3>2. \A i \in Rows(Pdb(r)) : ~(i < row'[r])
      BY <1>f, <3>1
    <3> QED
      BY <1>2, <1>l, <1>m, <2>2, <3>1, <3>2 DEF StartExtract, disk
  <2> QED
    BY <1>2, <2>1, <2>2 DEF StartExtract
<1>3. CASE SkipRow(r)
  <2>1. CASE row[r] \in Rows(Pdb(r))
    <3>1. /\ step'[r] = "rows" /\ step' = [step EXCEPT ![r] = "rows"]
          /\ row'[r] = row[r] + 1 /\ row' \in [Requests -> Nat]
      <4>1. step[r] = "rows" /\ step' = step /\ row' = [row EXCEPT ![r] = @ + 1]
        BY <1>3, <2>1 DEF SkipRow
      <4>2. step = [step EXCEPT ![r] = "rows"]
        BY <4>1 DEF CacheType
      <4>3. row'[r] = row[r] + 1 /\ row' \in [Requests -> Nat]
        BY <1>c, <4>1 DEF CacheType
      <4> QED
        BY <4>1, <4>2, <4>3
    <3>2. RowDone(Pdb(r), row[r])
      BY <1>3, <2>1 DEF SkipRow, RowDone
    <3>3. \A i \in Rows(Pdb(r)) : i < row'[r] => RowDone(Pdb(r), i)
      BY <1>3, <1>c, <1>f, <1>k, <3>1, <3>2 DEF SkipRow
    <3>4. \A i \in Rows(Pdb(r)) : i < row'[r] => RowDone(Pdb(r), i)'
      BY <1>3, <3>3 DEF SkipRow, disk, RowDone, Pdb
    <3> QED
      BY <1>3, <1>c, <1>k, <1>l, <1>m, <3>1, <3>4 DEF SkipRow, disk
  <2>2. CASE row[r] \notin Rows(Pdb(r))
    <3>1. /\ step'[r] = "mark" /\ step' = [step EXCEPT ![r] = "mark"]
          /\ row'[r] = row[r] /\ row' \in [Requests -> Nat]
      BY <1>3, <2>2 DEF SkipRow, StepTo, CacheType
    <3>2. \A i \in Rows(Pdb(r)) : i < row'[r] => RowDone(Pdb(r), i)'
      BY <1>3, <1>k, <3>1 DEF SkipRow, disk, RowDone, Pdb
    <3> QED
      BY <1>3, <1>k, <1>l, <1>m, <2>2, <3>1, <3>2 DEF SkipRow, disk
  <2> QED
    BY <2>1, <2>2
<1>4. CASE CorruptRow(r)
  BY <1>4, <1>i, <1>k, <1>m DEF CorruptRow, disk
<1>5. CASE OpenFile(r)
  <2>0. "torn" \in Files
    BY DEF Files
  <2>1. CASE GiveUp(r) /\ UNCHANGED file
    BY <1>5, <1>i, <1>k, <1>m, <2>1 DEF OpenFile
  <2>2. CASE /\ file' = [file EXCEPT ![Pdb(r)][row[r]] = "torn"]
             /\ StepTo(r, "write") /\ UNCHANGED <<todo, row, indexed>>
    <3>1. row[r] \in Rows(Pdb(r)) /\ Documents[Pdb(r)][row[r]] = "source" /\ UNCHANGED marked
          /\ step[r] = "rows"
      BY <1>5 DEF OpenFile
    <3>2. /\ file' = [q \in Pdbs |-> file'[q]] /\ \A q \in Pdbs : file'[q] \in [Rows(q) -> Files]
          /\ \A q \in Pdbs \ {Pdb(r)} : file'[q] = file[q]
          /\ \A k \in Rows(Pdb(r)) :
                 file'[Pdb(r)][k] = IF k = row[r] THEN "torn" ELSE file[Pdb(r)][k]
      BY <1>e, <2>0, <2>2, <3>1, FileChanges
    <3>3. step'[r] = "write" /\ step' = [step EXCEPT ![r] = "write"] /\ row' \in [Requests -> Nat]
      BY <2>2 DEF StepTo, CacheType
    <3>4. \A i \in Rows(Pdb(r)) : i < row[r] => i # row[r]
      BY <1>c, <1>f
    <3>5. \A i \in Rows(Pdb(r)) : i < row'[r] => RowDone(Pdb(r), i)'
      BY <1>k, <2>2, <3>1, <3>2, <3>4 DEF RowDone, Pdb
    <3> QED
      BY <1>k, <1>l, <2>2, <3>1, <3>2, <3>3, <3>5
  <2> QED
    BY <1>5, <2>1, <2>2 DEF OpenFile
<1>6. CASE WriteFile(r)
  <2>0. "whole" \in Files
    BY DEF Files
  <2>a. row[r] \in Rows(Pdb(r)) /\ Documents[Pdb(r)][row[r]] = "source" /\ step[r] = "write"
    BY <1>6, <1>b DEF WriteFile, Building
  <2>1. CASE GiveUp(r) /\ UNCHANGED file
    BY <1>6, <1>i, <1>k, <1>m, <2>1 DEF WriteFile
  <2>2. CASE /\ file' = [file EXCEPT ![Pdb(r)][row[r]] = "whole"]
             /\ StepTo(r, "rows") /\ row' = [row EXCEPT ![r] = @ + 1]
             /\ UNCHANGED <<todo, indexed>>
    <3>2. /\ file' = [q \in Pdbs |-> file'[q]] /\ \A q \in Pdbs : file'[q] \in [Rows(q) -> Files]
          /\ \A q \in Pdbs \ {Pdb(r)} : file'[q] = file[q]
          /\ \A k \in Rows(Pdb(r)) :
                 file'[Pdb(r)][k] = IF k = row[r] THEN "whole" ELSE file[Pdb(r)][k]
      BY <1>e, <2>0, <2>2, <2>a, FileChanges
    <3>3. /\ step'[r] = "rows" /\ step' = [step EXCEPT ![r] = "rows"]
          /\ row'[r] = row[r] + 1 /\ row' \in [Requests -> Nat]
      BY <1>c, <2>2 DEF StepTo, CacheType
    <3>4. \A i \in Rows(Pdb(r)) : i < row'[r] => i < row[r] \/ i = row[r]
      BY <1>c, <1>f, <3>3
    <3>5. \A i \in Rows(Pdb(r)) : i < row'[r] => RowDone(Pdb(r), i)'
      BY <1>k, <2>2, <2>a, <3>2, <3>4 DEF RowDone, Pdb
    <3> QED
      BY <1>6, <1>c, <1>k, <1>l, <2>2, <2>a, <3>2, <3>3, <3>5 DEF WriteFile
  <2> QED
    BY <1>6, <2>1, <2>2 DEF WriteFile
<1>7. CASE Mark(r)
  <2>1. row[r] \notin Rows(Pdb(r)) /\ row[r] > 0 /\ step[r] = "mark"
    BY <1>7, <1>b, <1>k DEF Mark, Building
  <2>2. \A i \in Rows(Pdb(r)) : i < row[r]
    BY <1>c, <1>f, <2>1
  <2>3. Whole(Pdb(r))
    BY <1>k, <2>1, <2>2 DEF Whole, RowDone
  <2> QED
    BY <1>7, <1>j, <2>3 DEF Mark
<1> QED
  BY <1>1, <1>2, <1>3, <1>4, <1>5, <1>6, <1>7 DEF BuildStep

-----------------------------------------------------------------------------
(* The requests.                                                           *)

\* What a request does is no business of the others, as it has the lock or
\* leaves it where it was.
LEMMA OthersRun ==
    ASSUME RunInv, NEW r \in Requests, RunOf(r)',
           \A q \in Requests \ {r} : UNCHANGED <<pc[q], tool[q], proc[q], report[q], answer[q]>>,
           holder \in {r, Free} \/ holder' = holder
    PROVE  RunInv'
<1>1. ASSUME NEW q \in Requests \ {r} PROVE RunOf(q)'
  <2>1. Collecting(q) => holder' = q
    <3>1. q # r /\ q # Free
      BY CoverageAssumption DEF Requests, Free
    <3> QED
      BY <3>1 DEF RunInv, RunOf
  <2> QED
    BY <2>1 DEF RunInv, RunOf, Collecting
<1> QED
  BY <1>1 DEF RunInv

\* The history is of no interest to a request that is before its record.
LEMMA HistoryKept ==
    ASSUME HistoryInv, history \in Seq(Requests), NEW r \in Requests,
           \A q \in Requests \ {r} : UNCHANGED <<pc[q], answer[q]>>,
           pc[r] \notin {"reply", "done"}, pc'[r] # "reply",
           answer[r] # "redirect", answer'[r] # "redirect",
           Collecting(r)' =>
               Collecting(r) \/ (r \in taken' /\ \A i \in 1..Len(history) : history[i] <= r),
           UNCHANGED <<history, unreadable>>, taken \subseteq taken', taken' \subseteq taken \cup {r},
           taken' \subseteq Requests
    PROVE  HistoryInv'
<1>1. ASSUME NEW i \in 1..Len(history)
      PROVE  /\ history[i] \in taken \ unreadable
             /\ pc[history[i]] = "reply" \/ answer[history[i]] = "redirect"
  BY DEF HistoryInv
<1>2. \A i \in 1..Len(history') :
          /\ history'[i] \in taken' \ unreadable'
          /\ pc'[history'[i]] = "reply" \/ answer'[history'[i]] = "redirect"
  <2> SUFFICES ASSUME NEW i \in 1..Len(history)
               PROVE  /\ history[i] \in taken' \ unreadable
                      /\ pc'[history[i]] = "reply" \/ answer'[history[i]] = "redirect"
    OBVIOUS
  <2>1. /\ history[i] \in taken \ unreadable
        /\ pc[history[i]] = "reply" \/ answer[history[i]] = "redirect"
    BY <1>1
  <2>3. history[i] \in Requests
    BY <2>1
  <2>2. history[i] # r
    BY <2>1
  <2> QED
    BY <2>1, <2>2, <2>3
<1>3. ASSUME NEW q \in taken' \ unreadable', pc'[q] = "reply" \/ answer'[q] = "redirect"
      PROVE  Listed(q)' \/ PushedOut(q)'
  <2>1. q # r /\ q \in taken \ unreadable /\ (pc[q] = "reply" \/ answer[q] = "redirect")
    BY <1>3
  <2> QED
    BY <2>1 DEF HistoryInv, Listed, PushedOut
<1>4. ASSUME NEW q \in Requests, Collecting(q)'
      PROVE  q \in taken' /\ \A i \in 1..Len(history') : history'[i] <= q
  BY <1>4 DEF HistoryInv, Collecting
<1>5. \A q \in Requests : pc'[q] \notin {"reply", "done"} => q \notin unreadable'
  BY DEF HistoryInv
<1> QED
  BY <1>2, <1>3, <1>4, <1>5 DEF HistoryInv

\* No request of the history has come after one that has not come yet.
LEMMA HistoryHasCome ==
    ASSUME IInv, NEW r \in Requests, pc[r] = "idle"
    PROVE  \A i \in 1..Len(history) : history[i] <= r
<1> SUFFICES ASSUME NEW i \in 1..Len(history) PROVE history[i] <= r
  OBVIOUS
<1>1. /\ history[i] \in Requests
      /\ pc[history[i]] = "reply" \/ answer[history[i]] = "redirect"
  BY DEF IInv, RunType, HistoryInv
<1>2. pc[history[i]] # "idle"
  BY <1>1 DEF IInv, RunInv, RunOf
<1>3. ~(history[i] > r)
  BY <1>1, <1>2 DEF IInv, ArrivalInv
<1> QED
  BY <1>1, <1>3, CoverageAssumption DEF Requests

\* A request ends with an answer that it failed, or with none.
LEMMA EndStep ==
    ASSUME IInv, NEW r \in Requests, pc[r] \in {"start", "wait", "clean", "cleaning"},
           NEW a \in {"failed", "none"}, Return(r, a), DropIndex(r),
           proc' \in [Requests -> ProcStates], proc'[r] = "none",
           \A q \in Requests \ {r} : proc'[q] = proc[q],
           UNCHANGED <<report, unchangedExceptRun>>
    PROVE  IInv'
<1> USE DEF Return, Goto, unchangedExceptRun
<1>a. /\ holder = r /\ holder' = Free /\ pc'[r] = "done" /\ answer'[r] = a
      /\ answer[r] = "none"
      /\ \A q \in Requests \ {r} : UNCHANGED <<pc[q], tool[q], answer[q]>>
  BY DEF IInv, RunType, RunInv, RunOf, Collecting
<1>1. RunType'
  <2>1. pc' \in [Requests -> Places]
    BY DEF IInv, RunType, Places
  <2>2. tool' \in [Requests -> {Snapshot, MergeTool, ReportGenerator}]
    BY DEF IInv, RunType
  <2>3. answer' \in [Requests -> Answers]
    BY DEF IInv, RunType, Answers
  <2> QED
    BY <2>1, <2>2, <2>3 DEF IInv, RunType
<1>2. RunInv'
  <2>1. RunOf(r)'
    BY <1>a DEF RunOf, Collecting
  <2> QED
    BY <1>a, <2>1, OthersRun DEF IInv
<1>3. ArrivalInv'
  BY <1>a DEF IInv, ArrivalInv
<1>4. CacheType' /\ CacheInv'
  BY <1>a, CacheDropped DEF IInv
<1>5. HistoryInv'
  BY <1>a, HistoryKept DEF IInv, RunType, Collecting
<1> QED
  BY <1>1, <1>2, <1>3, <1>4, <1>5 DEF IInv

\* A request fails.
LEMMA FailStep ==
    ASSUME IInv, NEW r \in Requests, pc[r] \in {"start", "wait", "clean", "cleaning"}, Fail(r),
           proc' \in [Requests -> ProcStates], proc'[r] = "none",
           \A q \in Requests \ {r} : proc'[q] = proc[q],
           UNCHANGED <<report, unchangedExceptRun>>
    PROVE  IInv'
  BY EndStep DEF Fail

\* The last n elements of a sequence with one more at its end.
LEMMA LastNOf ==
    ASSUME NEW S, NEW h \in Seq(S), NEW x \in S, NEW n \in Nat \ {0}, Len(h) <= n
    PROVE  LET l == LastN(Append(h, x), n)
           IN /\ l \in Seq(S)
              /\ \/ /\ Len(h) < n /\ Len(l) = Len(h) + 1
                    /\ \A i \in 1..Len(h) : l[i] = h[i]
                 \/ /\ Len(h) = n /\ Len(l) = n
                    /\ \A i \in 1..(n - 1) : l[i] = h[i + 1]
              /\ l[Len(l)] = x
<1> DEFINE a == Append(h, x)
           l == LastN(a, n)
<1>0. PICK k \in Nat : k = Len(h)
  OBVIOUS
<1>1. /\ a \in Seq(S) /\ Len(a) = k + 1
      /\ \A i \in 1..k : a[i] = h[i]
      /\ a[k + 1] = x
  BY <1>0
<1> HIDE DEF a
<1>2. l = IF k + 1 > n THEN SubSeq(a, k + 1 - n + 1, k + 1) ELSE a
  BY <1>1 DEF LastN
<1>5. k < n \/ k = n
  BY <1>0
<1> HIDE DEF l
<1>3. CASE k < n
  <2>1. l = a
    BY <1>2, <1>3
  <2> QED
    BY <1>0, <1>1, <1>3, <2>1 DEF a, l
<1>4. CASE k = n
  <2>1. l = SubSeq(a, 2, n + 1) /\ Len(a) = n + 1
    BY <1>1, <1>2, <1>4
  <2>2. l \in Seq(S) /\ Len(l) = n /\ \A i \in 1..n : l[i] = a[i + 1]
    BY <1>1, <2>1
  <2>3. l[n] = x /\ \A i \in 1..(n - 1) : l[i] = h[i + 1]
    BY <1>1, <1>4, <2>2
  <2> QED
    BY <1>0, <1>4, <2>2, <2>3 DEF a, l
<1> QED
  BY <1>3, <1>4, <1>5

\* A request is entered in the history, or its file cannot be read.
LEMMA RecordStep ==
    ASSUME IInv, NEW r \in Requests, Record(r)
    PROVE  IInv'
<1> USE DEF IInv, Goto, Record
<1>a. /\ pc[r] = "record" /\ pc'[r] = "reply" /\ holder = r /\ answer[r] # "redirect"
      /\ \A q \in Requests \ {r} : pc'[q] = pc[q]
      /\ \A q \in Requests \ {r} : ~Collecting(q) /\ pc[q] # "reply"
  <2>1. /\ pc[r] = "record" /\ pc'[r] = "reply" /\ answer[r] # "redirect"
        /\ \A q \in Requests \ {r} : pc'[q] = pc[q]
    BY DEF RunType, RunInv, RunOf
  <2>2. \A q \in Requests : Collecting(q) => holder = q
    BY DEF RunInv, RunOf
  <2> QED
    BY <2>1, <2>2 DEF Collecting
<1>b. history \in Seq(Requests) /\ maxCoverageHistory \in Nat \ {0} /\ Len(history) \in Nat
  BY CoverageAssumption DEF RunType
<1>c. \A i \in 1..Len(history) : /\ history[i] \in Requests /\ history[i] < r
                                /\ history[i] \in taken \ unreadable
                                /\ answer[history[i]] = "redirect"
  <2> SUFFICES ASSUME NEW i \in 1..Len(history)
               PROVE  /\ history[i] \in Requests /\ history[i] < r
                      /\ history[i] \in taken \ unreadable
                      /\ answer[history[i]] = "redirect"
    OBVIOUS
  <2>1. /\ history[i] \in Requests /\ history[i] <= r /\ history[i] \in taken \ unreadable
        /\ pc[history[i]] = "reply" \/ answer[history[i]] = "redirect"
    BY <1>a, <1>b DEF HistoryInv, Collecting
  <2>2. history[i] # r /\ answer[history[i]] = "redirect"
    BY <1>a, <2>1
  <2> QED
    BY <2>1, <2>2, CoverageAssumption DEF Requests
<1>1. CacheType' /\ CacheInv'
  BY CacheLeftAlone DEF CacheInv
<1>2. RunInv'
  <2>1. RunOf(r)'
    BY <1>a DEF RunInv, RunOf, Collecting
  <2> QED
    BY <1>a, <2>1, OthersRun
<1>3. ArrivalInv'
  BY <1>a DEF ArrivalInv
<1>4. pc' \in [Requests -> Places]
  BY DEF RunType, Places
<1>5. CASE unreadable' = unreadable \cup {r} /\ UNCHANGED history
  <2>1. RunType'
    BY <1>4, <1>5 DEF RunType
  <2>2. \A i \in 1..Len(history') :
            /\ history'[i] \in taken' \ unreadable'
            /\ pc'[history'[i]] = "reply" \/ answer'[history'[i]] = "redirect"
    BY <1>5, <1>c, CoverageAssumption DEF Requests
  <2>3. \A q \in Requests :
            /\ Collecting(q)' => q \in taken' /\ \A i \in 1..Len(history') : history'[i] <= q
            /\ pc'[q] \notin {"reply", "done"} => q \notin unreadable'
    BY <1>5, <1>a DEF HistoryInv, Collecting
  <2>4. \A q \in taken' \ unreadable' :
            pc'[q] = "reply" \/ answer'[q] = "redirect" => Listed(q)' \/ PushedOut(q)'
    BY <1>5, <1>a DEF HistoryInv, Listed, PushedOut, RunType
  <2>5. HistoryInv'
    BY <1>5, <2>2, <2>3, <2>4 DEF HistoryInv
  <2> QED
    BY <1>1, <1>2, <1>3, <2>1, <2>5
<1>6. CASE history' = LastN(Append(history, r), maxCoverageHistory) /\ UNCHANGED unreadable
  <2>b. PICK m \in Nat \ {0} : m = maxCoverageHistory
    BY <1>b
  <2>k. PICK k \in Nat : k = Len(history)
    BY <1>b
  <2>0. k <= m
    BY <2>b, <2>k DEF HistoryInv
  <2>1. /\ history' \in Seq(Requests)
        /\ \/ /\ k < m /\ Len(history') = k + 1
              /\ \A i \in 1..k : history'[i] = history[i]
           \/ /\ k = m /\ Len(history') = m
              /\ \A i \in 1..(m - 1) : history'[i] = history[i + 1]
        /\ history'[Len(history')] = r
    <3>1. history' = LastN(Append(history, r), m)
      BY <1>6, <2>b
    <3>2. Len(history) <= m
      BY <2>0, <2>k
    <3>3. LET l == LastN(Append(history, r), m)
          IN /\ l \in Seq(Requests)
             /\ \/ /\ Len(history) < m /\ Len(l) = Len(history) + 1
                   /\ \A i \in 1..Len(history) : l[i] = history[i]
                \/ /\ Len(history) = m /\ Len(l) = m
                   /\ \A i \in 1..(m - 1) : l[i] = history[i + 1]
             /\ l[Len(l)] = r
      BY ONLY <1>b, <3>2, r \in Requests, m \in Nat \ {0}, LastNOf
    <3> QED
      BY ONLY <2>k, <3>1, <3>3
  <2>2. RunType'
    BY <1>4, <2>1 DEF RunType
  <2>3. Len(history') \in 1..m
    BY <2>0, <2>1
  \* d places are freed at the front.
  <2>4. PICK d \in {0, 1} : \A i \in 1..(Len(history') - 1) :
            history'[i] = history[i + d] /\ i + d \in 1..Len(history)
    <3>1. CASE k < m /\ Len(history') = k + 1 /\ \A i \in 1..k : history'[i] = history[i]
      <4>1. \A i \in 1..(Len(history') - 1) :
                history'[i] = history[i + 0] /\ i + 0 \in 1..Len(history)
        BY <2>k, <3>1
      <4> QED
        BY <4>1
    <3>2. CASE k = m /\ Len(history') = m /\ \A i \in 1..(m - 1) : history'[i] = history[i + 1]
      <4>1. \A i \in 1..(Len(history') - 1) :
                history'[i] = history[i + 1] /\ i + 1 \in 1..Len(history)
        BY <2>k, <3>2
      <4> QED
        BY <4>1
    <3> QED
      BY <2>1, <3>1, <3>2
  <2>5. \A i \in 1..(Len(history') - 1) :
            /\ history'[i] \in Requests /\ history'[i] < r
            /\ history'[i] \in taken \ unreadable
            /\ answer[history'[i]] = "redirect"
    BY <1>c, <2>4
  <2>6. r \in taken \ unreadable
    BY <1>a DEF HistoryInv, Collecting
  <2>7. \A i \in 1..Len(history') :
            /\ history'[i] \in taken' \ unreadable'
            /\ pc'[history'[i]] = "reply" \/ answer'[history'[i]] = "redirect"
    <3> SUFFICES ASSUME NEW i \in 1..Len(history')
                 PROVE  /\ history'[i] \in taken' \ unreadable'
                        /\ pc'[history'[i]] = "reply" \/ answer'[history'[i]] = "redirect"
      OBVIOUS
    <3>1. CASE i = Len(history')
      BY <1>6, <1>a, <2>1, <2>6, <3>1
    <3>2. CASE i # Len(history')
      <4>1. i \in 1..(Len(history') - 1)
        BY <2>3, <3>2
      <4> QED
        BY <1>6, <2>5, <4>1
    <3> QED
      BY <3>1, <3>2
  <2>8. ASSUME NEW i \in 1..Len(history'), NEW j \in 1..Len(history'), i < j
        PROVE  history'[i] < history'[j]
    <3>1. CASE j = Len(history')
      <4>1. i \in 1..(Len(history') - 1)
        BY <2>3, <2>8, <3>1
      <4> QED
        BY <2>1, <2>5, <3>1, <4>1
    <3>2. CASE j # Len(history')
      <4>1. i \in 1..(Len(history') - 1) /\ j \in 1..(Len(history') - 1)
        BY <2>3, <2>8, <3>2
      <4>2. /\ history'[i] = history[i + d] /\ history'[j] = history[j + d]
            /\ i + d \in 1..Len(history) /\ j + d \in 1..Len(history) /\ i + d < j + d
        BY <2>4, <2>8, <4>1
      <4> QED
        BY <4>2 DEF HistoryInv
    <3> QED
      BY <3>1, <3>2
  <2>9. \A q \in Requests :
            /\ Collecting(q)' => q \in taken' /\ \A i \in 1..Len(history') : history'[i] <= q
            /\ pc'[q] \notin {"reply", "done"} => q \notin unreadable'
    <3>1. \A q \in Requests : pc'[q] \notin {"reply", "done"} => q \notin unreadable'
      BY <1>6, <1>a DEF HistoryInv
    <3>2. \A q \in Requests : Collecting(q)' => q = r
      BY <1>a DEF Collecting
    <3>3. ASSUME NEW i \in 1..Len(history') PROVE history'[i] <= r
      <4>0. r \in Int
        BY CoverageAssumption DEF Requests
      <4>1. CASE i = Len(history')
        BY <2>1, <4>0, <4>1
      <4>2. CASE i # Len(history')
        <5>1. i \in 1..(Len(history') - 1)
          BY <2>3, <4>2
        <5>2. history'[i] \in Int /\ history'[i] < r
          BY <2>5, <5>1, CoverageAssumption DEF Requests
        <5> QED
          BY <4>0, <5>2
      <4> QED
        BY <4>1, <4>2
    <3> QED
      BY <2>6, <3>1, <3>2, <3>3
  <2>10. ASSUME NEW q \in taken \ unreadable, pc'[q] = "reply" \/ answer'[q] = "redirect"
         PROVE  Listed(q)' \/ PushedOut(q)'
    <3>1. CASE q = r
      BY <2>1, <2>3, <3>1 DEF Listed
    <3>2. CASE q # r
      <4>0. q \in Requests /\ q \in Int /\ r \in Int
        BY CoverageAssumption DEF RunType, Requests
      <4>1. Listed(q) \/ PushedOut(q)
        BY <1>a, <2>10, <3>2, <4>0 DEF HistoryInv
      <4>2. CASE k < m
        <5>1. PICK i \in 1..Len(history) : history[i] = q
          BY <2>b, <2>k, <4>1, <4>2 DEF Listed, PushedOut
        <5>2. i \in 1..Len(history') /\ history'[i] = q
          BY <2>k, <2>1, <4>2, <5>1
        <5> QED
          BY <5>2 DEF Listed
      <4>3. CASE k = m
        <5>0. /\ Len(history') = m /\ Len(history) = m /\ history'[m] = r
              /\ \A i \in 1..(m - 1) : history'[i] = history[i + 1] /\ i + 1 \in 1..Len(history)
          BY <2>k, <2>1, <4>3
        <5>a. \A i \in 1..m : history[i] \in Int /\ history[i] < r
          BY <1>c, <5>0, CoverageAssumption DEF Requests
        <5>1. CASE \A i \in 2..m : history[i] > q
          <6>1. r > q
            <7>1. 1 \in 1..Len(history)
              BY <5>0
            <7>2. history[1] >= q
              <8>1. CASE PushedOut(q)
                BY <5>a, <4>0, <5>0, <7>1, <8>1 DEF PushedOut
              <8>2. CASE Listed(q)
                <9>1. PICK i \in 1..Len(history) : history[i] = q
                  BY <8>2 DEF Listed
                <9>2. i = 1
                  BY <1>b, <4>0, <5>0, <5>1, <9>1
                <9> QED
                  BY <4>0, <9>1, <9>2
              <8> QED
                BY <4>1, <8>1, <8>2
            <7> QED
              BY <4>0, <5>0, <5>a, <7>1, <7>2
          <6>2. ASSUME NEW i \in 1..m PROVE history'[i] > q
            <7>1. CASE i = m
              BY <5>0, <6>1, <7>1
            <7>2. CASE i # m
              <8>1. i \in 1..(m - 1) /\ i + 1 \in 2..m
                BY <1>b, <7>2
              <8> QED
                BY <5>0, <5>1, <8>1
            <7> QED
              BY <7>1, <7>2
          <6> QED
            BY <2>b, <5>0, <6>2 DEF PushedOut
        <5>2. CASE \E i \in 2..m : ~(history[i] > q)
          <6>1. PICK i \in 2..m : ~(history[i] > q)
            BY <5>2
          <6>2. i \in 1..Len(history) /\ ~PushedOut(q)
            BY <2>b, <5>0, <6>1 DEF PushedOut
          <6>3. PICK j \in 1..Len(history) : history[j] = q
            BY <4>1, <6>2 DEF Listed
          <6>4. ~(j < i)
            BY <6>1, <6>2, <6>3, <5>0, <4>0, <5>a DEF HistoryInv
          <6>5. j - 1 \in 1..(m - 1) /\ (j - 1) + 1 = j
            BY <1>b, <5>0, <6>1, <6>4
          <6>6. history'[j - 1] = q /\ j - 1 \in 1..Len(history')
            BY <1>b, <5>0, <6>3, <6>5
          <6> QED
            BY <6>6 DEF Listed
        <5> QED
          BY <5>1, <5>2
      <4> QED
        BY <2>0, <4>2, <4>3
    <3> QED
      BY <3>1, <3>2
  <2>11. HistoryInv'
    BY <1>6, <2>b, <2>3, <2>7, <2>8, <2>9, <2>10 DEF HistoryInv
  <2> QED
    BY <1>1, <1>2, <1>3, <2>2, <2>11
<1> QED
  BY <1>5, <1>6

\* The client is redirected, and the lock given back.
LEMMA ReplyStep ==
    ASSUME IInv, NEW r \in Requests, Reply(r)
    PROVE  IInv'
<1> USE DEF IInv, Goto, Reply, Return, unchangedExceptRun
<1>a. /\ pc[r] = "reply" /\ pc'[r] = "done" /\ holder = r /\ holder' = Free
      /\ answer'[r] = "redirect"
      /\ \A q \in Requests \ {r} : UNCHANGED <<pc[q], tool[q], answer[q]>>
  BY DEF RunType, RunInv, RunOf, Collecting
<1>1. RunType'
  <2>1. pc' \in [Requests -> Places]
    BY DEF RunType, Places
  <2>2. tool' \in [Requests -> {Snapshot, MergeTool, ReportGenerator}]
    BY DEF RunType
  <2>3. answer' \in [Requests -> Answers]
    BY DEF RunType, Answers
  <2> QED
    BY <2>1, <2>2, <2>3 DEF RunType
<1>2. RunInv'
  <2>1. RunOf(r)'
    BY <1>a DEF RunInv, RunOf, Collecting
  <2> QED
    BY <1>a, <2>1, OthersRun
<1>3. ArrivalInv'
  BY <1>a DEF ArrivalInv
<1>4. CacheType' /\ CacheInv'
  BY <1>a, CacheDropped
<1>5. HistoryInv'
  <2>1. \A q \in Requests : pc'[q] = "reply" \/ answer'[q] = "redirect"
                            <=> pc[q] = "reply" \/ answer[q] = "redirect"
    BY <1>a
  <2>2. \A i \in 1..Len(history) : history[i] \in Requests
    BY DEF RunType
  <2>3. \A q \in taken : q \in Requests
    BY DEF RunType
  <2>4. \A q \in Requests :
            /\ Collecting(q)' => q \in taken' /\ \A i \in 1..Len(history') : history'[i] <= q
            /\ pc'[q] \notin {"reply", "done"} => q \notin unreadable'
    BY <1>a DEF HistoryInv, Collecting
  <2> QED
    BY <2>1, <2>2, <2>3, <2>4 DEF HistoryInv, Listed, PushedOut
<1> QED
  BY <1>1, <1>2, <1>3, <1>4, <1>5

\* What a handler does keeps the invariant.
LEMMA HandlerIInv == IInv /\ (\E r \in Requests : HandleCodeCoverage(r)) => IInv'
<1> SUFFICES ASSUME IInv, NEW r \in Requests, HandleCodeCoverage(r) PROVE IInv'
  OBVIOUS
<1> USE DEF IInv, Goto, unchangedExceptRun
<1>a. /\ "done" \in Places /\ "start" \in Places /\ "wait" \in Places /\ "clean" \in Places
      /\ "cleaning" \in Places /\ "record" \in Places /\ "reply" \in Places
      /\ "none" \in ProcStates /\ "running" \in ProcStates
      /\ "conflict" \in Answers /\ "redirect" \in Answers
  BY DEF Places, ProcStates, Answers
<1>b. r # Free
  BY CoverageAssumption DEF Requests, Free
\* A step that leaves the answer, the lock, the cache and the history alone.
<1>c. ASSUME NEW x \in Places \ {"idle", "reply", "done"}, pc' = [pc EXCEPT ![r] = x],
             tool' \in [Requests -> {Snapshot, MergeTool, ReportGenerator}],
             proc' \in [Requests -> ProcStates],
             \A q \in Requests \ {r} : UNCHANGED <<tool[q], proc[q]>>,
             pc[r] \notin {"idle", "reply", "done"}, RunOf(r)',
             UNCHANGED <<report, answer, holder, history, taken, unreadable>>,
             CacheType' /\ CacheInv'
      PROVE  IInv'
  <2>1. RunType'
    BY <1>c DEF RunType
  <2>2. pc'[r] = x /\ \A q \in Requests \ {r} : pc'[q] = pc[q]
    BY <1>c DEF RunType
  <2>3. RunInv'
    BY <1>c, <2>2, OthersRun
  <2>4. ArrivalInv'
    BY <1>c, <2>2 DEF ArrivalInv
  <2>5. HistoryInv'
    <3>1. answer[r] # "redirect" /\ answer'[r] # "redirect"
      BY <1>c DEF RunInv, RunOf
    <3>2. Collecting(r)' =>
              Collecting(r) \/ (r \in taken' /\ \A i \in 1..Len(history) : history[i] <= r)
      BY <1>c DEF Collecting
    <3>3. taken' \subseteq Requests /\ taken \subseteq taken' /\ taken' \subseteq taken \cup {r}
      BY <1>c DEF RunType
    <3>4. \A q \in Requests \ {r} : UNCHANGED <<pc[q], answer[q]>>
      BY <1>c, <2>2
    <3>5. pc'[r] # "reply" /\ pc[r] \notin {"reply", "done"} /\ UNCHANGED <<history, unreadable>>
      BY <1>c, <2>2
    <3>6. history \in Seq(Requests)
      BY DEF RunType
    <3> QED
      BY <3>1, <3>2, <3>3, <3>4, <3>5, <3>6, HistoryKept
  <2> QED
    BY <1>c, <2>1, <2>3, <2>4, <2>5
\* The lock stays with whoever is in the cache.
<1>d. ASSUME UNCHANGED <<cacheVars, holder>> PROVE CacheType' /\ CacheInv'
  BY <1>d, CacheLeftAlone DEF CacheInv
<1>1. CASE Refuse(r)
  <2> USE <1>1 DEF Refuse, Arrives
  <2>1. /\ pc'[r] = "done" /\ answer'[r] = "conflict" /\ pc[r] = "idle"
        /\ \A q \in Requests \ {r} : UNCHANGED <<pc[q], answer[q]>>
    BY DEF RunType
  <2>2. RunType'
    BY <1>a DEF RunType
  <2>3. RunInv'
    <3>1. RunOf(r)'
      BY <2>1 DEF RunInv, RunOf, Collecting
    <3> QED
      BY <2>1, <3>1, OthersRun
  <2>4. ArrivalInv'
    <3>1. \A i \in 1..(r - 1) : pc[i] # "idle"
      OBVIOUS
    <3>2. \A q \in Requests : r > q => q \in 1..(r - 1)
      BY CoverageAssumption DEF Requests
    <3> QED
      BY <2>1, <3>1, <3>2 DEF ArrivalInv
  <2>5. HistoryInv'
    <3>0. history \in Seq(Requests)
      BY DEF RunType
    <3>1. answer[r] # "redirect"
      BY <2>1 DEF RunInv, RunOf
    <3>2. ~Collecting(r)'
      BY <2>1 DEF Collecting
    <3>3. taken' \subseteq Requests
      BY DEF RunType
    <3> QED
      BY <2>1, <3>0, <3>1, <3>2, <3>3, HistoryKept
  <2> QED
    BY <1>d, <2>2, <2>3, <2>4, <2>5
<1>2. CASE Begin(r)
  <2> USE <1>2 DEF Begin, Arrives
  <2>1. /\ pc'[r] = "start" /\ pc[r] = "idle" /\ holder = Free /\ holder' = r
        /\ \A q \in Requests \ {r} : pc'[q] = pc[q]
    BY DEF RunType
  <2>2. RunType'
    BY <1>a DEF RunType
  <2>3. RunInv'
    <3>1. RunOf(r)'
      BY <2>1 DEF RunInv, RunOf, Collecting
    <3> QED
      BY <2>1, <3>1, OthersRun
  <2>4. ArrivalInv'
    <3>1. \A i \in 1..(r - 1) : pc[i] # "idle"
      OBVIOUS
    <3>2. \A q \in Requests : r > q => q \in 1..(r - 1)
      BY CoverageAssumption DEF Requests
    <3> QED
      BY <2>1, <3>1, <3>2 DEF ArrivalInv
  <2>5. HistoryInv'
    <3>0. history \in Seq(Requests)
      BY DEF RunType
    <3>1. answer[r] # "redirect" /\ answer'[r] # "redirect"
      BY <2>1 DEF RunInv, RunOf
    <3>2. \A i \in 1..Len(history) : history[i] <= r
      BY <2>1, HistoryHasCome
    <3>3. taken' \subseteq Requests
      BY DEF RunType
    <3> QED
      BY <2>1, <3>0, <3>1, <3>2, <3>3, HistoryKept
  <2>6. CacheType' /\ CacheInv'
    <3>1. \A c \in Requests : step[c] = "idle"
      <4>1. \A c \in Requests : c # Free
        BY CoverageAssumption DEF Requests, Free
      <4> QED
        BY <2>1, <4>1 DEF CacheInv
    <3> QED
      BY <3>1, CacheLeftAlone
  <2> QED
    BY <2>2, <2>3, <2>4, <2>5, <2>6
<1>3. CASE StartTool(r)
  <2> USE <1>3 DEF StartTool
  <2>1. CASE Fail(r) /\ UNCHANGED proc
    <3>1. proc \in [Requests -> ProcStates] /\ proc[r] = "none"
      BY DEF RunType, RunInv, RunOf
    <3> QED
      BY <2>1, <3>1, FailStep
  <2>2. CASE /\ proc' = [proc EXCEPT ![r] = "running"] /\ Goto(r, "wait")
             /\ UNCHANGED <<cacheVars, tool, expired, holder, answer>>
    <3>1. /\ proc' \in [Requests -> ProcStates] /\ proc'[r] = "running" /\ pc'[r] = "wait"
          /\ \A q \in Requests \ {r} : proc'[q] = proc[q]
      BY <1>a, <2>2 DEF RunType
    <3>2. RunOf(r)'
      BY <2>2, <3>1 DEF RunInv, RunOf, Collecting
    <3>3. tool' \in [Requests -> {Snapshot, MergeTool, ReportGenerator}]
      BY <2>2 DEF RunType
    <3> QED
      BY <1>a, <1>c, <1>d, <2>2, <3>1, <3>2, <3>3
  <2> QED
    BY <2>1, <2>2
<1>4. CASE StepFails(r)
  <2> USE <1>4 DEF StepFails
  <2>1. /\ proc' \in [Requests -> ProcStates] /\ proc'[r] = "none"
        /\ \A q \in Requests \ {r} : proc'[q] = proc[q]
    BY <1>a DEF RunType
  <2> QED
    BY <2>1, FailStep
<1>5. CASE StepSucceeds(r)
  <2> USE <1>5 DEF StepSucceeds
  <2>1. /\ proc' \in [Requests -> ProcStates] /\ proc'[r] = "none"
        /\ \A q \in Requests \ {r} : proc'[q] = proc[q]
    BY <1>a DEF RunType
  <2>2. /\ tool' \in [Requests -> {Snapshot, MergeTool, ReportGenerator}]
        /\ \A q \in Requests \ {r} : tool'[q] = tool[q]
    BY DEF RunType
  <2>3. CASE tool[r] = ReportGenerator
    <3>1. pc' = [pc EXCEPT ![r] = "record"] /\ pc'[r] = "record"
      BY <2>3 DEF RunType, MergeTool, ReportGenerator
    <3>2. RunOf(r)'
      BY <2>1, <2>3, <3>1 DEF RunInv, RunOf, Collecting
    <3> QED
      BY <1>a, <1>c, <1>d, <2>1, <2>2, <3>1, <3>2
  <2>4. CASE tool[r] # ReportGenerator
    <3>1. PICK x \in {"clean", "start"} : pc' = [pc EXCEPT ![r] = x] /\ pc'[r] = x
      BY <2>4 DEF RunType
    <3>2. RunOf(r)'
      BY <2>1, <2>4, <3>1 DEF RunInv, RunOf, Collecting
    <3> QED
      BY <1>a, <1>c, <1>d, <2>1, <2>2, <3>1, <3>2
  <2> QED
    BY <2>3, <2>4
<1>6. CASE Clean(r)
  <2> USE <1>6 DEF Clean
  <2>0. proc \in [Requests -> ProcStates] /\ proc[r] = "none" /\ holder = r
    BY DEF RunType, RunInv, RunOf, Collecting
  <2>1. CASE Fail(r)
    BY <2>0, <2>1, FailStep
  <2>2. CASE /\ \E pdbFiles \in PdbLists : BuildIndex(r, pdbFiles)
             /\ Goto(r, "cleaning") /\ UNCHANGED <<tool, expired, holder, answer>>
    <3>1. CacheType' /\ CacheInv'
      BY <2>0, <2>2, CacheEntered
    <3>2. pc'[r] = "cleaning"
      BY <2>2 DEF RunType
    <3>3. RunOf(r)'
      BY <2>0, <2>2, <3>2 DEF RunInv, RunOf, Collecting
    <3>4. tool' \in [Requests -> {Snapshot, MergeTool, ReportGenerator}]
      BY <2>2 DEF RunType
    <3> QED
      BY <1>a, <1>c, <2>0, <2>2, <3>1, <3>3, <3>4
  <2> QED
    BY <2>1, <2>2
<1>7. CASE BuildIndexStep(r)
  <2> USE <1>7 DEF BuildIndexStep
  <2>1. CacheType' /\ CacheInv'
    BY CacheStep
  <2>2. RunType'
    BY DEF RunType
  <2>3. RunInv'
    BY DEF RunInv, RunOf, Collecting
  <2>4. ArrivalInv'
    BY DEF ArrivalInv
  <2>5. HistoryInv'
    BY DEF HistoryInv, Collecting, Listed, PushedOut
  <2> QED
    BY <2>1, <2>2, <2>3, <2>4, <2>5
<1>8. CASE WriteCleaned(r)
  <2> USE <1>8 DEF WriteCleaned
  <2>0. proc \in [Requests -> ProcStates] /\ proc[r] = "none"
    BY DEF RunType, RunInv, RunOf
  <2>1. CASE Fail(r)
    BY <2>0, <2>1, FailStep
  <2>2. CASE /\ Goto(r, "start") /\ tool' = [tool EXCEPT ![r] = ReportGenerator]
             /\ UNCHANGED <<cacheVars, expired, holder, answer>>
    <3>1. /\ tool' \in [Requests -> {Snapshot, MergeTool, ReportGenerator}]
          /\ \A q \in Requests \ {r} : tool'[q] = tool[q]
          /\ pc'[r] = "start"
      BY <2>2 DEF RunType
    <3>2. RunOf(r)'
      BY <2>0, <2>2, <3>1 DEF RunInv, RunOf, Collecting
    <3> QED
      BY <1>a, <1>c, <1>d, <2>0, <2>2, <3>1, <3>2
  <2> QED
    BY <2>1, <2>2
<1>9. CASE Record(r)
  BY <1>9, RecordStep
<1>10. CASE Reply(r)
  BY <1>10, ReplyStep
<1>11. CASE HandlerPanics(r)
  <2>1. /\ pc[r] = "cleaning" /\ Return(r, "none") /\ DropIndex(r)
        /\ UNCHANGED <<proc, report, unchangedExceptRun>>
    BY <1>11 DEF HandlerPanics, Panic
  <2>2. proc \in [Requests -> ProcStates] /\ proc[r] = "none"
    BY <2>1 DEF RunType, RunInv, RunOf
  <2> QED
    BY <2>1, <2>2, EndStep
<1> QED
  BY <1>1, <1>2, <1>3, <1>4, <1>5, <1>6, <1>7, <1>8, <1>9, <1>10, <1>11 DEF HandleCodeCoverage

\* The tools, the context and the end of the admin process keep it.
LEMMA EnvironmentIInv == IInv /\ Environment => IInv'
<1> SUFFICES ASSUME IInv, Environment PROVE IInv'
  OBVIOUS
<1> USE DEF IInv, unchangedExceptRun
\* A process ends or is killed while its request waits for it.
<1>a. ASSUME NEW r \in Requests, proc[r] = "running", NEW x \in {"ok", "failed", "killed"},
             NEW y \in {"part", "whole"}, x = "ok" => y = "whole",
             proc' = [proc EXCEPT ![r] = x], Reported(r, y),
             UNCHANGED <<cacheVars, pc, tool, holder, answer, history, taken, unreadable>>
      PROVE  IInv'
  <2>1. pc[r] = "wait" /\ answer[r] = "none"
    BY <1>a DEF RunType, RunInv, RunOf, Answers
  <2>2. proc' \in [Requests -> ProcStates] /\ report' \in [Requests -> Reports]
    BY <1>a DEF RunType, ProcStates, Reports, Reported
  <2>3. /\ proc'[r] = x /\ tool[r] = ReportGenerator => report'[r] = y
        /\ \A q \in Requests \ {r} : proc'[q] = proc[q] /\ report'[q] = report[q]
    BY <1>a DEF RunType, Reported
  <2>4. RunType'
    BY <1>a, <2>2 DEF RunType
  <2>5. RunInv'
    <3>1. RunOf(r)'
      BY <1>a, <2>1, <2>3 DEF RunInv, RunOf, Collecting
    <3> QED
      BY <1>a, <2>3, <3>1, OthersRun
  <2>6. ArrivalInv' /\ HistoryInv'
    BY <1>a DEF ArrivalInv, HistoryInv, Collecting, Listed, PushedOut
  <2>7. CacheType' /\ CacheInv'
    BY <1>a, CacheLeftAlone DEF CacheInv
  <2> QED
    BY <2>4, <2>5, <2>6, <2>7
<1>1. ASSUME NEW r \in Requests, ToolEnds(r) PROVE IInv'
  <2>1. CASE proc' = [proc EXCEPT ![r] = "ok"] /\ Reported(r, "whole")
    BY <1>a, <1>1, <2>1 DEF ToolEnds
  <2>2. CASE proc' = [proc EXCEPT ![r] = "failed"] /\ Reported(r, "part")
    BY <1>a, <1>1, <2>2 DEF ToolEnds
  <2> QED
    BY <1>1, <2>1, <2>2 DEF ToolEnds
<1>2. ASSUME NEW r \in Requests, ContextDone(r) PROVE IInv'
  <2> USE <1>2 DEF ContextDone
  <2>1. CacheType' /\ CacheInv'
    BY CacheLeftAlone DEF CacheInv
  <2>2. RunType' /\ RunInv'
    BY DEF RunType, RunInv, RunOf, Collecting
  <2>3. ArrivalInv' /\ HistoryInv'
    BY DEF ArrivalInv, HistoryInv, Collecting, Listed, PushedOut
  <2> QED
    BY <2>1, <2>2, <2>3
<1>3. ASSUME NEW r \in Requests, Kill(r) PROVE IInv'
  BY <1>a, <1>3 DEF Kill
<1>4. CASE Crash
  <2> USE <1>4 DEF Crash
  <2>1. CacheType' /\ CacheInv'
    BY CacheLost
  <2>2. RunType'
    BY DEF RunType, Places, ProcStates
  <2>3. RunInv'
    <3> SUFFICES ASSUME NEW q \in Requests PROVE RunOf(q)'
      BY DEF RunInv
    <3>1. RunOf(q)
      BY DEF RunInv
    <3>2. /\ pc'[q] = IF pc[q] = "idle" THEN "idle" ELSE "done"
          /\ proc'[q] = "none" /\ tool'[q] = Snapshot
          /\ answer'[q] = answer[q] /\ report'[q] = report[q]
      OBVIOUS
    <3> QED
      BY <3>1, <3>2 DEF RunOf, Collecting
  <2>4. ArrivalInv'
    BY DEF ArrivalInv
  <2>5. HistoryInv'
    <3>1. \A q \in Requests : ~Collecting(q)'
      BY DEF Collecting
    <3>2. \A q \in Requests : pc'[q] \notin {"reply", "done"} => q \notin unreadable'
      BY DEF HistoryInv
    <3>3. history' = <<>> /\ taken' = {} /\ Len(history') = 0 /\ 0 <= maxCoverageHistory
      BY CoverageAssumption
    <3> QED
      BY <3>1, <3>2, <3>3 DEF HistoryInv
  <2> QED
    BY <2>1, <2>2, <2>3, <2>4, <2>5
<1> QED
  BY <1>1, <1>2, <1>3, <1>4 DEF Environment

\* A step that changes nothing keeps it.
LEMMA StutterIInv == IInv /\ UNCHANGED vars => IInv'
<1> SUFFICES ASSUME IInv, UNCHANGED vars PROVE IInv'
  OBVIOUS
<1> USE DEF IInv, vars
<1>1. CacheType' /\ CacheInv'
  BY CacheLeftAlone DEF CacheInv
<1>2. RunType' /\ RunInv'
  BY DEF RunType, RunInv, RunOf, Collecting
<1>3. ArrivalInv' /\ HistoryInv'
  BY DEF ArrivalInv, HistoryInv, Collecting, Listed, PushedOut
<1> QED
  BY <1>1, <1>2, <1>3

-----------------------------------------------------------------------------
(* Theorems.                                                               *)

\* The invariant holds in every state: only the holder of coverageRunMu is in the
\* cache, and the history, the answers and the reports agree.
THEOREM Invariance == Spec => []IInv
<1>1. IInv /\ [Next]_vars => IInv'
  BY HandlerIInv, EnvironmentIInv, StutterIInv DEF Next
<1> QED
  BY InitIInv, <1>1, PTL DEF Spec

\* Whatever failed or crashed before, a directory with the marker is complete, and
\* so is all that a collection has in its index (buildCSFileIndexFromPDBs).
THEOREM IndexedIsWholeHolds == Spec => []IndexedIsWhole
<1>1. IInv => IndexedIsWhole
  <2> SUFFICES ASSUME IInv PROVE IndexedIsWhole
    OBVIOUS
  <2>1. ASSUME NEW r \in Requests PROVE \A p \in indexed[r] : Whole(p)
    BY DEF IInv, CacheInv, Building
  <2> QED
    BY <2>1 DEF IInv, CacheInv, IndexedIsWhole
<1> QED
  BY Invariance, <1>1, PTL

\* The client that is redirected finds a complete report, one that is told of a
\* failure or a conflict has left nothing in the history (handleCodeCoverage).
THEOREM AnsweredTruthfullyHolds == Spec => []AnsweredTruthfully
<1>1. IInv => AnsweredTruthfully
  <2> SUFFICES ASSUME IInv, NEW r \in Requests
               PROVE  /\ answer[r] = "redirect" => CodeCoverageReport(r) = "whole"
                      /\ answer[r] \in {"failed", "conflict"} => r \notin ToSet(history)
                      /\ answer[r] = "conflict" => report[r] = "none"
    BY DEF AnsweredTruthfully
  <2>1. RunOf(r)
    BY DEF IInv, RunInv
  <2>2. ASSUME answer[r] \in {"failed", "conflict"} PROVE r \notin ToSet(history)
    <3>1. \A i \in 1..Len(history) :
              pc[history[i]] = "reply" \/ answer[history[i]] = "redirect"
      BY DEF IInv, HistoryInv
    <3>2. pc[r] # "reply" /\ answer[r] # "redirect"
      BY <2>1, <2>2 DEF RunOf
    <3>3. DOMAIN history = 1..Len(history)
      BY DEF IInv, RunType
    <3> QED
      BY <3>1, <3>2, <3>3 DEF ToSet
  <2> QED
    BY <2>1, <2>2 DEF RunOf, CodeCoverageReport
<1> QED
  BY Invariance, <1>1, PTL

\* The list of the collections is that of the latest ones, the newest first, each
\* with its report complete (appendCoverageHistory, SnapshotCoverageHistory).
THEOREM HistoryIsTheLastHolds == Spec => []HistoryIsTheLast
<1>1. IInv => HistoryIsTheLast
  <2> SUFFICES ASSUME IInv PROVE HistoryIsTheLast
    OBVIOUS
  <2> USE DEF IInv
  <2>1. PICK n \in Nat : n = Len(history)
    BY DEF RunType
  <2>i. \A i \in 1..n : history[i] \in Int
    <3>1. \A i \in 1..n : history[i] \in Requests
      BY <2>1 DEF RunType
    <3>2. Requests \subseteq Int
      BY CoverageAssumption DEF Requests
    <3> QED
      BY <3>1, <3>2
  <2>2. /\ CodeCoverageList \in Seq(Requests) /\ Len(CodeCoverageList) = n
        /\ DOMAIN CodeCoverageList = 1..n
        /\ \A i \in 1..n : CodeCoverageList[i] = history[n - i + 1] /\ n - i + 1 \in 1..n
    <3>1. CodeCoverageList = [i \in 1..n |-> history[n - i + 1]]
      BY <2>1 DEF CodeCoverageList, Reverse, RunType
    <3>2. \A i \in 1..n : n - i + 1 \in 1..n
      BY <2>1
    <3>3. \A i \in 1..n : history[n - i + 1] \in Requests
      BY <2>1, <3>2 DEF RunType
    <3> QED
      BY <3>1, <3>2, <3>3
  <2>3. \A i \in 1..n : \E k \in 1..n : CodeCoverageList[k] = history[i]
    <3> SUFFICES ASSUME NEW i \in 1..n PROVE \E k \in 1..n : CodeCoverageList[k] = history[i]
      OBVIOUS
    <3>1. n - i + 1 \in 1..n /\ n - (n - i + 1) + 1 = i
      OBVIOUS
    <3> QED
      BY <2>2, <3>1
  <2>4. Len(CodeCoverageList) <= maxCoverageHistory
    BY <2>1, <2>2 DEF HistoryInv
  <2>5. \A i \in 1..n : history[i] \in taken \ unreadable /\ report[history[i]] = "whole"
    <3> SUFFICES ASSUME NEW i \in 1..n
                 PROVE  history[i] \in taken \ unreadable /\ report[history[i]] = "whole"
      OBVIOUS
    <3>1. /\ history[i] \in taken \ unreadable /\ history[i] \in Requests
          /\ pc[history[i]] = "reply" \/ answer[history[i]] = "redirect"
      BY <2>1 DEF HistoryInv, RunType
    <3> QED
      BY <3>1 DEF RunInv, RunOf
  <2>6. ASSUME NEW i \in 1..n, NEW j \in 1..(i - 1)
        PROVE  CodeCoverageList[j] > CodeCoverageList[i]
    <3>1. j \in 1..n /\ n - i + 1 < n - j + 1
      OBVIOUS
    <3>2. history[n - i + 1] < history[n - j + 1]
      BY <2>1, <2>2, <3>1 DEF HistoryInv
    <3>3. history[n - i + 1] \in Int /\ history[n - j + 1] \in Int
      BY <2>i, <2>2, <3>1
    <3> QED
      BY <2>2, <3>1, <3>2, <3>3
  <2>7. ASSUME NEW r \in (taken \ unreadable) \ ToSet(CodeCoverageList), answer[r] = "redirect"
        PROVE  /\ Len(CodeCoverageList) = maxCoverageHistory
               /\ \A i \in 1..n : CodeCoverageList[i] > r
    <3>1. ~Listed(r)
      BY <2>1, <2>2, <2>3, <2>7 DEF Listed, ToSet
    <3>2. PushedOut(r)
      BY <2>7, <3>1 DEF HistoryInv
    <3> QED
      BY <2>1, <2>2, <3>2 DEF PushedOut
  <2> QED
    BY <2>2, <2>4, <2>5, <2>6, <2>7 DEF HistoryIsTheLast, CodeCoverageReport
<1> QED
  BY Invariance, <1>1, PTL

=============================================================================
