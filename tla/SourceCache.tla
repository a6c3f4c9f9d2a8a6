---------------------------- MODULE SourceCache ----------------------------
(***************************************************************************)
(* The cache of the sources embedded in pdb files: the second half of      *)
(* internal/debugadmin/cobertura_merge.go (buildCSFileIndexFromPDBs) with  *)
(* Extract of internal/pdb/embedded_source.go.                             *)
(*                                                                         *)
(* Every pdb file has a directory of its own, which outlives the admin     *)
(* process, and a marker file in it says that the directory was extracted  *)
(* before.  A caller goes through a list of pdb files and indexes the      *)
(* directory of each it could use.  Callers are not excluded here: that is *)
(* the business of the module that composes them (CodeCoverage).           *)
(***************************************************************************)
EXTENDS Integers, Sequences, SequencesExt

CONSTANTS Callers,     \* whoever builds an index
          Pdbs,        \* the pdb files
          Documents    \* Documents[p]: the rows of p's Document table

\* What a row holds: a source file, nothing embedded, a file below obj/, a blob
\* that does not inflate, or one with a negative size.
Kinds == {"source", "none", "obj", "corrupt", "negative"}

ASSUME DocumentsAssumption == Documents \in [Pdbs -> Seq(Kinds)]

VARIABLES
    marked,      \* the pdbs whose directory has the marker .extracted
    file,        \* file[p][i]: the extracted file of row i of p
    step,        \* where the caller is in buildCSFileIndexFromPDBs
    todo,        \* the pdb files it has not dealt with, Head(todo) being worked on
    row,         \* Extract's row
    indexed      \* the pdbs whose files are in the caller's index

cacheVars == <<marked, file, step, todo, row, indexed>>
disk == <<marked, file>>

Rows(p) == 1..Len(Documents[p])

CacheInit ==
    /\ marked = {}
    /\ file = [p \in Pdbs |-> [i \in Rows(p) |-> "absent"]]
    /\ step = [c \in Callers |-> "idle"]
    /\ todo = [c \in Callers |-> <<>>]
    /\ row = [c \in Callers |-> 0]
    /\ indexed = [c \in Callers |-> {}]

-----------------------------------------------------------------------------
(* One caller.                                                             *)

Pdb(c) == Head(todo[c])
StepTo(c, s) == step' = [step EXCEPT ![c] = s]

\* The caller is done with its index.
DropIndex(c) ==
    /\ StepTo(c, "idle")
    /\ indexed' = [indexed EXCEPT ![c] = {}]
    /\ todo' = [todo EXCEPT ![c] = <<>>]
    /\ row' = [row EXCEPT ![c] = 0]
    /\ UNCHANGED disk

\* continue: the pdb is left out of the index.
GiveUp(c) ==
    /\ StepTo(c, "next")
    /\ todo' = [todo EXCEPT ![c] = Tail(@)]
    /\ UNCHANGED <<row, indexed>>

\* The walk over the directory of the pdb, which ends its turn.
IndexFiles(c) ==
    /\ StepTo(c, "next")
    /\ todo' = [todo EXCEPT ![c] = Tail(@)]
    /\ indexed' = [indexed EXCEPT ![c] = @ \cup {Pdb(c)}]
    /\ UNCHANGED row

\* buildCSFileIndexFromPDBs is called with the pdb files found.
BuildIndex(c, pdbFiles) ==
    /\ StepTo(c, "next")
    /\ todo' = [todo EXCEPT ![c] = pdbFiles]
    /\ indexed' = [indexed EXCEPT ![c] = {}]
    /\ UNCHANGED <<disk, row>>

\* The marker is there: the directory is used as it is.
UseMarked(c) ==
    /\ step[c] = "next" /\ todo[c] # <<>>
    /\ Pdb(c) \in marked
    /\ IndexFiles(c)
    /\ UNCHANGED disk

\* It is not: Extract reads the pdb file, unless the directory or the pdb fails.
StartExtract(c) ==
    /\ step[c] = "next" /\ todo[c] # <<>>
    /\ Pdb(c) \notin marked
    /\ \/ /\ StepTo(c, "rows")
          /\ row' = [row EXCEPT ![c] = 1]
          /\ UNCHANGED <<todo, indexed>>
       \/ GiveUp(c)
    /\ UNCHANGED disk

\* A row without a source, one below obj/ or, after the last row, the end.
SkipRow(c) ==
    /\ step[c] = "rows"
    /\ IF row[c] \in Rows(Pdb(c))
       THEN /\ Documents[Pdb(c)][row[c]] \in {"none", "obj"}
            /\ row' = [row EXCEPT ![c] = @ + 1]
            /\ UNCHANGED step
       ELSE StepTo(c, "mark") /\ UNCHANGED row
    /\ UNCHANGED <<disk, todo, indexed>>

\* A row that cannot be decoded ends Extract with an error.
CorruptRow(c) ==
    /\ step[c] = "rows"
    /\ row[c] \in Rows(Pdb(c)) /\ Documents[Pdb(c)][row[c]] = "corrupt"
    /\ GiveUp(c)
    /\ UNCHANGED disk

\* make panics on a negative size, and the caller does not get its index.
Panic(c) ==
    /\ step[c] = "rows"
    /\ row[c] \in Rows(Pdb(c)) /\ Documents[Pdb(c)][row[c]] = "negative"
    /\ DropIndex(c)

\* os.WriteFile of a source truncates the file first; making its directory may
\* fail before.
OpenFile(c) ==
    /\ step[c] = "rows"
    /\ row[c] \in Rows(Pdb(c)) /\ Documents[Pdb(c)][row[c]] = "source"
    /\ \/ /\ file' = [file EXCEPT ![Pdb(c)][row[c]] = "torn"]
          /\ StepTo(c, "write")
          /\ UNCHANGED <<todo, row, indexed>>
       \/ GiveUp(c) /\ UNCHANGED file
    /\ UNCHANGED marked

\* Mutant of WriteFile: an error of os.WriteFile is ignored.
WriteFileUnchecked(c) ==
    /\ step[c] = "write"
    /\ \E result \in {"whole", "torn"} :
           file' = [file EXCEPT ![Pdb(c)][row[c]] = result]
    /\ StepTo(c, "rows")
    /\ row' = [row EXCEPT ![c] = @ + 1]
    /\ UNCHANGED <<marked, todo, indexed>>

\* The contents are written, or an error ends Extract with the file cut off.
WriteFile(c) ==
    /\ step[c] = "write"
    /\ \/ /\ file' = [file EXCEPT ![Pdb(c)][row[c]] = "whole"]
          /\ StepTo(c, "rows")
          /\ row' = [row EXCEPT ![c] = @ + 1]
          /\ UNCHANGED <<todo, indexed>>
       \/ GiveUp(c) /\ UNCHANGED file
    /\ UNCHANGED marked

\* Extract has returned without an error.  The marker may fail to be written:
\* the files are used all the same.
Mark(c) ==
    /\ step[c] = "mark"
    /\ \/ marked' = marked \cup {Pdb(c)}
       \/ UNCHANGED marked
    /\ IndexFiles(c)
    /\ UNCHANGED file

BuildStep(c) ==
    \/ UseMarked(c) \/ StartExtract(c) \/ SkipRow(c) \/ CorruptRow(c)
    \/ OpenFile(c) \/ WriteFile(c) \/ Mark(c)

\* The index is complete.
IndexBuilt(c) == step[c] = "next" /\ todo[c] = <<>>

\* The admin process ends: only the disk is left.
LoseCallers ==
    /\ step' = [c \in Callers |-> "idle"]
    /\ todo' = [c \in Callers |-> <<>>]
    /\ row' = [c \in Callers |-> 0]
    /\ indexed' = [c \in Callers |-> {}]
    /\ UNCHANGED disk

-----------------------------------------------------------------------------
(* What a caller relies on.                                                *)

\* Every source of the pdb is on the disk, to its last byte.
Whole(p) ==
    \A i \in Rows(p) : /\ Documents[p][i] \notin {"corrupt", "negative"}
                       /\ Documents[p][i] = "source" => file[p][i] = "whole"

=============================================================================
