----------------------------- MODULE PdbLayout -----------------------------
(***************************************************************************)
(* How the PDB reader finds its two tables: computeDebugTableLayout of     *)
(* internal/pdb/debug_tables.go with the row counts that                   *)
(* tables_stream_header.go and pdb_stream.go read.                         *)
(*                                                                         *)
(* The tables lie one after the other without any marks between them, so   *)
(* the reader must compute how wide the rows of each are in order to find  *)
(* the next.  A column is an index into another table or a heap and has    *)
(* two or four bytes, depending on what it must be able to hold.  The      *)
(* writer of the file is stated independently, from the columns of each    *)
(* table, and the reader must agree with it.                               *)
(***************************************************************************)
EXTENDS Integers, Sequences, FiniteSetsExt

CONSTANT Files     \* the files that are read, see FileOK

\* Tables, by their index.  Field stands for the type-system tables below
\* Document that only a coded index refers to.
Field == 4
MethodDef == 6
Document == 48
MethodDebugInformation == 49
LocalScope == 50
LocalVariable == 51
LocalConstant == 52
ImportScope == 53
StateMachineMethod == 54
CustomDebugInformation == 55

TypeSystem == {Field, MethodDef}
DebugTables == Document..CustomDebugInformation
Tables == TypeSystem \cup DebugTables
Heaps == {"string", "guid", "blob"}

\* A file: the tables that are present in its stream and their row counts, those
\* of the type system in its #Pdb stream, the heaps with wide references and the
\* bytes by which its payload is cut off.
FileOK(f) ==
    /\ f.present \subseteq Tables
    /\ f.rows \in [Tables -> Nat]
    /\ \A t \in Tables \ f.present : f.rows[t] = 0
    /\ f.external \in [TypeSystem -> Nat]
    /\ f.wide \subseteq Heaps
    /\ f.cut \in Nat

ASSUME FilesAssumption == \A f \in Files : FileOK(f)

VARIABLES
    f,         \* the file
    length,    \* the length of its payload
    idx,       \* the table the walk is at
    offset,
    doc,       \* documentTableInfo
    cdi,       \* customDebugInfoTableInfo
    err        \* the walk ended with an error

vars == <<f, length, idx, offset, doc, cdi, err>>

-----------------------------------------------------------------------------
(* The writer.                                                             *)

Fixed(n) == [kind |-> "fixed", size |-> n]
Ref(heap) == [kind |-> "heap", heap |-> heap]
Index(table) == [kind |-> "index", table |-> table]
Coded == [kind |-> "coded"]

Columns ==
    [t \in DebugTables |->
       CASE t = Document               -> <<Ref("blob"), Ref("guid"), Ref("blob"), Ref("guid")>>
         [] t = MethodDebugInformation -> <<Index(Document), Ref("blob")>>
         [] t = LocalScope             -> <<Index(MethodDef), Index(ImportScope), Index(LocalVariable),
                                            Index(LocalConstant), Fixed(4), Fixed(4)>>
         [] t = LocalVariable          -> <<Fixed(2), Fixed(2), Ref("string")>>
         [] t = LocalConstant          -> <<Ref("string"), Ref("blob")>>
         [] t = ImportScope            -> <<Index(ImportScope), Ref("blob")>>
         [] t = StateMachineMethod     -> <<Index(MethodDef), Index(MethodDef)>>
         [] t = CustomDebugInformation -> <<Coded, Ref("guid"), Ref("blob")>>]

\* The rows of a table, wherever it is.
RowsOf(file, t) == IF t \in TypeSystem THEN file.external[t] ELSE file.rows[t]

\* The tables a coded index can refer to, whose tag takes five bits of it.
CodedTables == TypeSystem \cup {Document} \cup (LocalScope..ImportScope)
MaxTag == 26

\* The largest references a column has to hold.
Indexed(file, c) == {RowsOf(file, c.table)}
Encoded(file) == {RowsOf(file, t) * 32 + MaxTag : t \in CodedTables}

\* The width of a column is the least that holds them.
Narrowest(references) == IF \A n \in references : n < 2^16 THEN 2 ELSE 4

Width(file, c) ==
    CASE c.kind = "fixed" -> c.size
      [] c.kind = "heap"  -> IF c.heap \in file.wide THEN 4 ELSE 2
      [] c.kind = "index" -> Narrowest(Indexed(file, c))
      [] c.kind = "coded" -> Narrowest(Encoded(file))

\* The first n of some sizes together.
Total(sizes, n) ==
    LET sum[k \in 0..n] == IF k = 0 THEN 0 ELSE sum[k - 1] + sizes[k] IN sum[n]

\* Where the i-th column of a row ends.
ColumnEnd(file, t, i) == Total([k \in DOMAIN Columns[t] |-> Width(file, Columns[t][k])], i)
WrittenRowSize(file, t) == ColumnEnd(file, t, Len(Columns[t]))

\* The sizes of the tables, and where each starts; after the last ends the payload.
TableSizes(file) ==
    [k \in 1..Cardinality(DebugTables) |->
        WrittenRowSize(file, Document + k - 1) * file.rows[Document + k - 1]]
StartOf(file, t) == Total(TableSizes(file), t - Document)
WrittenLength(file) == StartOf(file, CustomDebugInformation + 1)

-----------------------------------------------------------------------------
(* The reader.                                                             *)

\* NewMetadataReader: type-system tables count as the #Pdb stream says, which
\* leaves them out of the file, the others as in the tables stream.
Combined(t) == IF t < Document THEN f.external[t] ELSE f.rows[t]

RefSize(heap) == IF heap \in f.wide THEN 4 ELSE 2

\* Mutant of SimpleIndexSize: the threshold is the largest narrow count.
SimpleIndexSizeOffByOne(n) == IF n < 2^16 - 1 THEN 2 ELSE 4

SimpleIndexSize(n) == IF n < 2^16 THEN 2 ELSE 4

\* hasCustomDebugInfoParentWidth over hasCustomDebugInfoTablesReferenced.
Referenced == {Field, MethodDef, Document, LocalScope, LocalVariable, LocalConstant, ImportScope}
ParentWidth == IF \E t \in Referenced : Combined(t) >= 2^(16 - 5) THEN 4 ELSE 2

RowSize(t) ==
    CASE t = Document -> 2 * RefSize("blob") + 2 * RefSize("guid")
      [] t = MethodDebugInformation -> SimpleIndexSize(Combined(Document)) + RefSize("blob")
      [] t = LocalScope -> SimpleIndexSize(Combined(MethodDef)) + SimpleIndexSize(Combined(ImportScope))
                           + SimpleIndexSize(Combined(LocalVariable))
                           + SimpleIndexSize(Combined(LocalConstant)) + 8
      [] t = LocalVariable -> 4 + RefSize("string")
      [] t = LocalConstant -> RefSize("string") + RefSize("blob")
      [] t = ImportScope -> SimpleIndexSize(Combined(ImportScope)) + RefSize("blob")
      [] t = StateMachineMethod -> 2 * SimpleIndexSize(Combined(MethodDef))
      [] t = CustomDebugInformation -> ParentWidth + RefSize("guid") + RefSize("blob")

NoTable == [start |-> 0, rows |-> 0, rowSize |-> 0]

Init ==
    /\ f \in Files
    /\ length = Max({0, WrittenLength(f) - f.cut})
    /\ idx = 0 /\ offset = 0
    /\ doc = NoTable /\ cdi = NoTable
    /\ err = FALSE

Walking == ~err /\ idx <= CustomDebugInformation

\* sliceAt
InRange(size) == offset + size <= length

Advance(size) ==
    /\ offset' = offset + size
    /\ idx' = idx + 1

\* Mutant of isTablePresent: every known table is taken to be there.
isTablePresentAlways(table) == table \in Tables

isTablePresent(table) == table \in f.present

AbsentTable ==
    /\ Walking
    /\ ~isTablePresent(idx)
    /\ Advance(0)
    /\ UNCHANGED <<f, length, doc, cdi, err>>

\* A table that is not read is stepped over, even beyond the end of the payload.
SkipTable ==
    /\ Walking
    /\ isTablePresent(idx) /\ idx \notin {Document, CustomDebugInformation}
    /\ IF idx \in TypeSystem THEN f.rows[idx] = 0 /\ Advance(0)
                            ELSE Advance(RowSize(idx) * f.rows[idx])
    /\ UNCHANGED <<f, length, doc, cdi, err>>

\* A type-system table with rows has a layout the reader does not know.
UnsupportedTable ==
    /\ Walking
    /\ isTablePresent(idx) /\ idx \in TypeSystem /\ f.rows[idx] # 0
    /\ err' = TRUE
    /\ UNCHANGED <<f, length, idx, offset, doc, cdi>>

ReadTable ==
    /\ Walking
    /\ isTablePresent(idx) /\ idx \in {Document, CustomDebugInformation}
    /\ LET size == RowSize(idx) * f.rows[idx]
           table == [start |-> offset, rows |-> f.rows[idx], rowSize |-> RowSize(idx)]
       IN  IF InRange(size)
           THEN /\ Advance(size)
                /\ doc' = IF idx = Document THEN table ELSE doc
                /\ cdi' = IF idx = Document THEN cdi ELSE table
                /\ UNCHANGED err
           ELSE /\ err' = TRUE
                /\ UNCHANGED <<idx, offset, doc, cdi>>
    /\ UNCHANGED <<f, length>>

Next == AbsentTable \/ SkipTable \/ UnsupportedTable \/ ReadTable

Spec == Init /\ [][Next]_vars

\* documentTable.nameOffset and the columns of customDebugInfoTable, where they
\* begin in the payload.
NameOffset(row) == doc.start + (row - 1) * doc.rowSize
ParentOffset(row) == cdi.start + (row - 1) * cdi.rowSize
KindOffset(row) == ParentOffset(row) + ParentWidth
ValueOffset(row) == KindOffset(row) + RefSize("guid")

-----------------------------------------------------------------------------
(* Properties.                                                             *)

Done == ~Walking /\ ~err

\* A table as the writer put it in the file, if it did.
WrittenTable(t) ==
    IF t \in f.present
    THEN [start |-> StartOf(f, t), rows |-> f.rows[t], rowSize |-> WrittenRowSize(f, t)]
    ELSE NoTable

\* The reader finds the two tables, and each column it reads, exactly where the
\* writer put them, whatever the row counts of the tables before and whichever of
\* them are there; and it gives up just on a file that has rows where it cannot
\* size them or that ends before the end of a table that is there and that it
\* reads.  A payload cut off elsewhere is no error.
LayoutIsTheWriters ==
    /\ Done =>
         /\ doc = WrittenTable(Document)
         /\ cdi = WrittenTable(CustomDebugInformation)
         /\ doc.rows > 0 => NameOffset(doc.rows) + WrittenRowSize(f, Document)
                                  <= StartOf(f, MethodDebugInformation)
         /\ cdi.rows > 0 => \A row \in {1, cdi.rows} :
              LET start == StartOf(f, CustomDebugInformation)
                             + (row - 1) * WrittenRowSize(f, CustomDebugInformation)
              IN  /\ ParentOffset(row) = start
                  /\ KindOffset(row) = start + ColumnEnd(f, CustomDebugInformation, 1)
                  /\ ValueOffset(row) = start + ColumnEnd(f, CustomDebugInformation, 2)
    /\ err <=>
         /\ ~Walking
         /\ \/ \E t \in TypeSystem : f.rows[t] # 0
            \/ \E t \in f.present \cap {Document, CustomDebugInformation} :
                 StartOf(f, t) + WrittenRowSize(f, t) * f.rows[t] > length
=============================================================================
