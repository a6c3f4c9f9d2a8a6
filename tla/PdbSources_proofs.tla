------------------------- MODULE PdbSources_proofs -------------------------
(***************************************************************************)
(* For every file, whatever its row counts and the widths of its heaps:    *)
(* the reader finds the two tables it reads where the writer put them, and *)
(* the sources it extracts are those that were put in the file.            *)
(*                                                                         *)
(* A heap that is read is the one that was written or the beginning of it, *)
(* so what is read at a place is what was written there (Holds, Begins) or *)
(* nothing.  From the bytes this goes on to compressed integers, blobs,    *)
(* references, names and sources, and then to the run.                     *)
(***************************************************************************)
EXTENDS PdbSources, SequenceTheorems, FiniteSetTheorems, TLAPS

\* Where the walk over the tables is when it comes to the i-th.
Begin(file, i) == IF i <= Document THEN 0 ELSE StartOf(file, i)

\* A table as the writer made it, if it did.
TableAt(file, t) ==
    IF t \in file.present
    THEN [start |-> StartOf(file, t), rows |-> file.rows[t], rowSize |-> WrittenRowSize(file, t)]
    ELSE NoTable

\* The reader gets past a table of a file with a payload of some bytes.
Fits(file, bytes, t) ==
    IF t \in TypeSystem THEN file.rows[t] = 0
    ELSE t \in file.present \cap {Document, CustomDebugInformation} =>
            StartOf(file, t) + WrittenRowSize(file, t) * file.rows[t] <= bytes

\* The walk is at the i-th table, and got past all before; an error says that it
\* does not get past this one.
WalkAt(file, bytes, i) ==
    /\ f = file /\ length = bytes
    /\ idx = i /\ offset = Begin(file, i)
    /\ doc = IF i <= Document THEN NoTable ELSE TableAt(file, Document)
    /\ cdi = IF i <= CustomDebugInformation THEN NoTable ELSE TableAt(file, CustomDebugInformation)
    /\ err \in BOOLEAN
    /\ \A t \in Tables : t < i => Fits(file, bytes, t)
    /\ err => i \in Tables /\ ~Fits(file, bytes, i)

LayoutInv ==
    \E file \in Files, bytes \in Nat, i \in 0..(CustomDebugInformation + 1) : WalkAt(file, bytes, i)

-----------------------------------------------------------------------------
(* Recursive functions on the natural numbers.                             *)

\* Every non-empty set of natural numbers has a least element: of the intervals
\* 0..m for m in the set one has no other as a proper subset.
LEMMA LeastElement ==
    ASSUME NEW N \in SUBSET Nat, N # {}
    PROVE  \E m \in N : \A k \in N : m <= k
<1> DEFINE F == {0..m : m \in N}
<1>1. ASSUME NEW m \in N PROVE 0..m \in FiniteSubsetsOf(Nat)
  <2>1. IsFiniteSet(0..m)
    BY FS_Interval
  <2> QED
    BY <2>1 DEF FiniteSubsetsOf
<1>2. F \subseteq FiniteSubsetsOf(Nat) /\ F # {}
  BY <1>1
<1>3. PICK x \in F : \A y \in F : ~(<<y, x>> \in StrictSubsetOrdering(Nat))
  BY <1>2, WFMin, FS_StrictSubsetOrderingWellFounded
<1>4. PICK m \in N : x = 0..m
  OBVIOUS
<1>5. ASSUME NEW k \in N, k < m PROVE FALSE
  <2>1. 0..k \subseteq 0..m /\ m \in 0..m /\ m \notin 0..k
    BY <1>5
  <2>2. <<0..k, x>> \in (SUBSET Nat) \X (SUBSET Nat) /\ 0..k # x
    BY <1>4, <2>1
  <2>3. <<0..k, x>> \in StrictSubsetOrdering(Nat)
    BY <1>4, <2>1, <2>2 DEF StrictSubsetOrdering
  <2> QED
    BY <1>3, <2>3
<1> QED
  BY <1>5

\* Induction up to n, for the numbers at which something holds.
LEMMA Induction ==
    ASSUME NEW n \in Nat, NEW N, 0 \in N, \A i \in 1..n : i - 1 \in N => i \in N
    PROVE  \A i \in 0..n : i \in N
<1> SUFFICES ASSUME NEW i \in 0..n, i \notin N PROVE FALSE
  OBVIOUS
<1> DEFINE B == {k \in 0..n : k \notin N}
<1>1. B \in SUBSET Nat /\ i \in B
  OBVIOUS
<1>2. PICK m \in B : \A k \in B : m <= k
  <2> HIDE DEF B
  <2> QED
    BY <1>1, LeastElement
<1>3. m \in 1..n /\ m - 1 \in 0..n /\ ~(m <= m - 1)
  OBVIOUS
<1> QED
  BY <1>2, <1>3

\* r begins with base and goes on as next says, up to n.
Follows(r, n, S, base, next) ==
    r \in [0..n -> S] /\ r[0] = base /\ \A i \in 1..n : r[i] = next[i][r[i - 1]]

\* There is such a function.
LEMMA Recursion ==
    ASSUME NEW n \in Nat, NEW S, NEW base \in S, NEW next,
           \A i \in 1..n : \A x \in S : next[i][x] \in S
    PROVE  \E r : Follows(r, n, S, base, next)
<1> DEFINE N == {m \in 0..n : \E r : Follows(r, m, S, base, next)}
<1>1. 0 \in N
  <2> DEFINE r == [i \in 0..0 |-> base]
  <2>1. r \in [0..0 -> S] /\ r[0] = base /\ 1..0 = {}
    OBVIOUS
  <2> HIDE DEF r
  <2>2. Follows(r, 0, S, base, next)
    BY <2>1 DEF Follows
  <2> QED
    BY <2>2
<1>2. ASSUME NEW m \in 1..n, m - 1 \in N PROVE m \in N
  <2>1. PICK r : Follows(r, m - 1, S, base, next)
    BY <1>2
  <2> DEFINE g == [i \in 0..m |-> IF i < m THEN r[i] ELSE next[m][r[m - 1]]]
  <2>2. r \in [0..(m - 1) -> S] /\ r[0] = base /\ \A i \in 1..(m - 1) : r[i] = next[i][r[i - 1]]
    BY <2>1 DEF Follows
  <2>3. g[m] = next[m][r[m - 1]] /\ next[m][r[m - 1]] \in S /\ \A i \in 0..(m - 1) : g[i] = r[i]
    BY <2>2
  <2>4. g \in [0..m -> S]
    BY <2>2, <2>3
  <2> HIDE DEF g
  <2>5. ASSUME NEW i \in 1..m PROVE g[i] = next[i][g[i - 1]]
    <3>1. i - 1 \in 0..(m - 1) /\ (i = m \/ i \in 1..(m - 1))
      OBVIOUS
    <3> QED
      BY <2>2, <2>3, <3>1
  <2>6. Follows(g, m, S, base, next)
    BY <2>2, <2>3, <2>4, <2>5 DEF Follows
  <2> QED
    BY <2>6
<1> HIDE DEF N
<1>3. \A i \in 0..n : i \in N
  BY <1>1, <1>2, Induction
<1> QED
  BY <1>3 DEF N

\* A function that follows the recursion wherever its last value is in S.
LEMMA Following ==
    ASSUME NEW n \in Nat, NEW S, NEW base \in S, NEW next,
           \A i \in 1..n : \A x \in S : next[i][x] \in S,
           NEW r, r = [i \in 0..n |-> r[i]], r[0] = base,
           \A i \in 1..n : r[i - 1] \in S => r[i] = next[i][r[i - 1]]
    PROVE  Follows(r, n, S, base, next)
<1> DEFINE N == {i \in 0..n : r[i] \in S}
<1>1. 0 \in N
  OBVIOUS
<1>2. ASSUME NEW i \in 1..n, i - 1 \in N PROVE i \in N
  <2>1. r[i - 1] \in S /\ i \in 0..n
    BY <1>2
  <2> QED
    BY <2>1
<1> HIDE DEF N
<1>3. \A i \in 0..n : i \in N
  BY <1>1, <1>2, Induction
<1>4. \A i \in 0..n : r[i] \in S
  BY <1>3 DEF N
<1>5. r \in [0..n -> S]
  BY <1>4
<1>6. \A i \in 1..n : i - 1 \in 0..n
  OBVIOUS
<1> QED
  BY <1>4, <1>5, <1>6 DEF Follows
-----------------------------------------------------------------------------
(* Sizes.                                                                  *)

\* The sum of the sizes up to the n-th.
LEMMA TotalIs ==
    ASSUME NEW n \in Nat, NEW sizes, \A k \in 1..n : sizes[k] \in Nat
    PROVE  /\ Total(sizes, n) \in Nat
           /\ n = 0 => Total(sizes, n) = 0
           /\ n > 0 => Total(sizes, n) = Total(sizes, n - 1) + sizes[n]
<1> DEFINE next == [i \in 1..n |-> [x \in Nat |-> x + sizes[i]]]
           Up(k, u) == [i \in 0..k |-> IF i = 0 THEN 0 ELSE u[i - 1] + sizes[i]]
<1>1. PICK r : Follows(r, n, Nat, 0, next)
  <2>1. \A i \in 1..n : \A x \in Nat : next[i][x] \in Nat
    OBVIOUS
  <2> HIDE DEF next
  <2> QED
    BY <2>1, Recursion
<1>2. r \in [0..n -> Nat] /\ r[0] = 0 /\ \A i \in 1..n : r[i] = r[i - 1] + sizes[i]
  <2>1. \A i \in 1..n : \A x \in Nat : next[i][x] = x + sizes[i]
    OBVIOUS
  <2>2. \A i \in 1..n : i - 1 \in 0..n
    OBVIOUS
  <2> HIDE DEF next
  <2> QED
    BY <1>1, <2>1, <2>2 DEF Follows
<1>3. ASSUME NEW k \in 0..n PROVE Total(sizes, k) = r[k]
  <2> DEFINE g == [i \in 0..k |-> r[i]]
             h == CHOOSE u : u = Up(k, u)
  <2>1. g = Up(k, g)
    <3> SUFFICES ASSUME NEW i \in 0..k
                 PROVE  g[i] = IF i = 0 THEN 0 ELSE g[i - 1] + sizes[i]
      OBVIOUS
    <3>1. CASE i = 0
      BY <1>2, <3>1
    <3>2. CASE i # 0
      <4>1. i \in 1..n /\ i - 1 \in 0..k
        BY <3>2
      <4> QED
        BY <1>2, <3>2, <4>1
    <3> QED
      BY <3>1, <3>2
  <2>2. h = Up(k, h)
    <3> HIDE DEF g, Up
    <3> QED
      BY <2>1
  <2>3. Total(sizes, k) = h[k]
    BY DEF Total
  <2> HIDE DEF h
  <2> DEFINE N == {i \in 0..k : h[i] = r[i]}
  <2>4. 0 \in N
    BY <1>2, <2>2
  <2>5. ASSUME NEW i \in 1..k, i - 1 \in N PROVE i \in N
    <3>1. i \in 0..k /\ i \in 1..n /\ i # 0 /\ h[i - 1] = r[i - 1]
      BY <2>5
    <3>2. h[i] = h[i - 1] + sizes[i]
      BY <2>2, <3>1
    <3> QED
      BY <1>2, <3>1, <3>2
  <2> HIDE DEF N
  <2>6. k \in Nat /\ \A i \in 0..k : i \in N
    BY <2>4, <2>5, Induction
  <2>7. k \in N
    BY <2>6
  <2> QED
    BY <2>3, <2>7 DEF N
<1>4. n \in 0..n /\ (n > 0 => n - 1 \in 0..n /\ n \in 1..n)
  OBVIOUS
<1> QED
  BY <1>2, <1>3, <1>4

\* The ends of a row of up to six columns.
LEMMA TotalsOfSix ==
    ASSUME NEW sizes, NEW n \in 0..6, \A k \in 1..n : sizes[k] \in Nat
    PROVE  /\ Total(sizes, 0) = 0
           /\ n >= 1 => Total(sizes, 1) = sizes[1]
           /\ n >= 2 => Total(sizes, 2) = sizes[1] + sizes[2]
           /\ n >= 3 => Total(sizes, 3) = sizes[1] + sizes[2] + sizes[3]
           /\ n >= 4 => Total(sizes, 4) = sizes[1] + sizes[2] + sizes[3] + sizes[4]
           /\ n >= 5 => Total(sizes, 5) = sizes[1] + sizes[2] + sizes[3] + sizes[4] + sizes[5]
           /\ n >= 6 => Total(sizes, 6) = sizes[1] + sizes[2] + sizes[3] + sizes[4] + sizes[5]
                                            + sizes[6]
<1>1. \A m \in 0..n : /\ Total(sizes, m) \in Nat /\ (m = 0 => Total(sizes, m) = 0)
                      /\ m > 0 => Total(sizes, m) = Total(sizes, m - 1) + sizes[m]
  BY TotalIs
<1>2. Total(sizes, 0) = 0
  BY <1>1
<1>3. n >= 1 => Total(sizes, 1) = sizes[1]
  BY <1>1, <1>2
<1>4. n >= 2 => Total(sizes, 2) = sizes[1] + sizes[2]
  BY <1>1, <1>3
<1>5. n >= 3 => Total(sizes, 3) = sizes[1] + sizes[2] + sizes[3]
  BY <1>1, <1>4
<1>6. n >= 4 => Total(sizes, 4) = sizes[1] + sizes[2] + sizes[3] + sizes[4]
  BY <1>1, <1>5
<1>7. n >= 5 => Total(sizes, 5) = sizes[1] + sizes[2] + sizes[3] + sizes[4] + sizes[5]
  BY <1>1, <1>6
<1>8. n >= 6 => Total(sizes, 6) = sizes[1] + sizes[2] + sizes[3] + sizes[4] + sizes[5] + sizes[6]
  BY <1>1, <1>7
<1> QED
  BY <1>2, <1>3, <1>4, <1>5, <1>6, <1>7, <1>8

-----------------------------------------------------------------------------
(* The widths of the columns.                                              *)

\* The writer's width of a column is the reader's; all of them are numbers.
LEMMA WidthsAgree ==
    ASSUME FileOK(f)
    PROVE  /\ \A n \in Nat : Width(f, Fixed(n)) = n
           /\ \A h \in Heaps : Width(f, Ref(h)) = RefSize(h) /\ RefSize(h) \in Nat
           /\ \A t \in Tables : /\ Width(f, Index(t)) = SimpleIndexSize(Combined(t))
                                /\ SimpleIndexSize(Combined(t)) \in Nat
           /\ Width(f, Coded) = ParentWidth /\ ParentWidth \in Nat
<1>1. \A n \in Nat : Width(f, Fixed(n)) = n
  BY SMT DEF Width, Fixed
<1>2. ASSUME NEW h \in Heaps PROVE Width(f, Ref(h)) = RefSize(h) /\ RefSize(h) \in Nat
  BY SMT DEF Width, Ref, RefSize
<1>3. ASSUME NEW t \in Tables PROVE RowsOf(f, t) = Combined(t) /\ Combined(t) \in Nat
  BY DEF FileOK, RowsOf, Combined, Tables, TypeSystem, DebugTables, Document,
         CustomDebugInformation, Field, MethodDef
<1>4. ASSUME NEW t \in Tables
      PROVE  /\ Width(f, Index(t)) = SimpleIndexSize(Combined(t))
             /\ SimpleIndexSize(Combined(t)) \in Nat
  <2>1. Width(f, Index(t)) = Narrowest({RowsOf(f, t)})
    BY SMT DEF Width, Index, Indexed
  <2> QED
    BY <1>3, <2>1 DEF Narrowest, SimpleIndexSize
<1>5. Width(f, Coded) = ParentWidth /\ ParentWidth \in Nat
  <2>1. Width(f, Coded) = Narrowest(Encoded(f))
    BY SMT DEF Width, Coded
  <2>2. CodedTables = Referenced /\ Referenced \subseteq Tables
    BY DEF CodedTables, Referenced, Tables, TypeSystem, DebugTables, Document, LocalScope,
           LocalVariable, LocalConstant, ImportScope, CustomDebugInformation, Field, MethodDef
  <2>3. \A t \in Referenced : RowsOf(f, t) = Combined(t) /\ Combined(t) \in Nat
    BY <1>3, <2>2
  <2>4. \A n \in Nat : n * 32 + MaxTag < 2^16 <=> ~(n >= 2^(16 - 5))
    BY DEF MaxTag
  <2>5. (\A n \in Encoded(f) : n < 2^16)
           <=> ~\E t \in Referenced : Combined(t) >= 2^(16 - 5)
    BY <2>2, <2>3, <2>4 DEF Encoded
  <2> QED
    BY <2>1, <2>5 DEF Narrowest, ParentWidth
<1> QED
  BY <1>1, <1>2, <1>4, <1>5

\* The sizes of the columns of a row.
SizesOf(t) == [k \in DOMAIN Columns[t] |-> Width(f, Columns[t][k])]

\* Where the columns of a row end, and the row, when there are n of these widths.
LEMMA RowOf ==
    ASSUME NEW t, NEW widths, NEW n \in 1..6, \A k \in 1..n : widths[k] \in Nat,
           Len(Columns[t]) = n, DOMAIN Columns[t] = 1..n,
           \A k \in 1..n : Width(f, Columns[t][k]) = widths[k]
    PROVE  /\ \A m \in 0..n : ColumnEnd(f, t, m) = Total(widths, m)
           /\ WrittenRowSize(f, t) = Total(widths, n)
<1>1. \A k \in 1..n : SizesOf(t)[k] = widths[k]
  BY DEF SizesOf
<1>2. \A m \in 0..n : ColumnEnd(f, t, m) = Total(SizesOf(t), m)
  BY DEF ColumnEnd, SizesOf
<1>3. \A m \in 0..n :
         /\ Total(SizesOf(t), m) \in Nat /\ (m = 0 => Total(SizesOf(t), m) = 0)
         /\ m > 0 => Total(SizesOf(t), m) = Total(SizesOf(t), m - 1) + widths[m]
         /\ Total(widths, m) \in Nat /\ (m = 0 => Total(widths, m) = 0)
         /\ m > 0 => Total(widths, m) = Total(widths, m - 1) + widths[m]
  <2> TAKE m \in 0..n
  <2>1. m \in Nat /\ (\A k \in 1..m : SizesOf(t)[k] \in Nat /\ widths[k] \in Nat)
    BY <1>1
  <2>2. m > 0 => SizesOf(t)[m] = widths[m]
    BY <1>1
  <2> QED
    BY <2>1, <2>2, TotalIs
<1> DEFINE N == {m \in 0..n : Total(SizesOf(t), m) = Total(widths, m)}
<1>4. 0 \in N /\ \A m \in 1..n : m - 1 \in N => m \in N
  BY <1>3
<1> HIDE DEF N
<1>5. \A m \in 0..n : m \in N
  BY <1>4, Induction, SMTT(30)
<1>6. \A m \in 0..n : ColumnEnd(f, t, m) = Total(widths, m)
  BY <1>2, <1>5 DEF N
<1>7. WrittenRowSize(f, t) = ColumnEnd(f, t, n) /\ n \in 0..n
  BY DEF WrittenRowSize
<1> QED
  BY <1>6, <1>7

\* The sizes of the rows, of all the tables, are as the reader computes them.
LEMMA RowSizesAgree ==
    ASSUME FileOK(f), NEW t \in DebugTables
    PROVE  /\ WrittenRowSize(f, t) = RowSize(t) /\ RowSize(t) \in Nat
           /\ t = CustomDebugInformation =>
                 /\ ColumnEnd(f, t, 1) = ParentWidth
                 /\ ColumnEnd(f, t, 2) = ParentWidth + RefSize("guid")
<1> DEFINE blob == RefSize("blob")
           guid == RefSize("guid")
           string == RefSize("string")
           index(table) == SimpleIndexSize(Combined(table))
<1>1. /\ blob \in Nat /\ Width(f, Ref("blob")) = blob
      /\ guid \in Nat /\ Width(f, Ref("guid")) = guid
      /\ string \in Nat /\ Width(f, Ref("string")) = string
  BY WidthsAgree DEF Heaps
<1>2. {Document, MethodDef, LocalVariable, LocalConstant, ImportScope} \subseteq Tables
  BY DEF Tables, TypeSystem, DebugTables, Document, LocalVariable, LocalConstant, ImportScope,
         CustomDebugInformation, MethodDef
<1>3. \A table \in {Document, MethodDef, LocalVariable, LocalConstant, ImportScope} :
          index(table) \in Nat /\ Width(f, Index(table)) = index(table)
  BY <1>2, WidthsAgree
<1>4. /\ Width(f, Fixed(2)) = 2 /\ Width(f, Fixed(4)) = 4
      /\ Width(f, Coded) = ParentWidth /\ ParentWidth \in Nat
  BY WidthsAgree
<1> HIDE DEF blob, guid, string, index
<1>5. /\ Document = 48 /\ MethodDebugInformation = 49 /\ LocalScope = 50 /\ LocalVariable = 51
      /\ LocalConstant = 52 /\ ImportScope = 53 /\ StateMachineMethod = 54
      /\ CustomDebugInformation = 55
  BY DEF Document, MethodDebugInformation, LocalScope, LocalVariable, LocalConstant,
         ImportScope, StateMachineMethod, CustomDebugInformation
<1>6. CASE t = Document
  <2> DEFINE w == <<blob, guid, blob, guid>>
  <2>1. Columns[t] = <<Ref("blob"), Ref("guid"), Ref("blob"), Ref("guid")>>
    BY <1>5, <1>6 DEF Columns, DebugTables
  <2>2. Len(Columns[t]) = 4 /\ DOMAIN Columns[t] = 1..4
    BY <2>1
  <2>3. \A k \in 1..4 : w[k] \in Nat /\ Width(f, Columns[t][k]) = w[k]
    BY <1>1, <1>3, <1>4, <2>1
  <2>4. /\ WrittenRowSize(f, t) = Total(w, 4)
        /\ \A m \in 0..4 : ColumnEnd(f, t, m) = Total(w, m)
        /\ Total(w, 4) = w[1] + w[2] + w[3] + w[4]
    <3> HIDE DEF w
    <3> QED
      BY <2>2, <2>3, RowOf, TotalsOfSix
  <2>5. RowSize(t) = 2 * blob + 2 * guid
    BY <1>5, <1>6 DEF RowSize, blob, guid, string, index
  <2> QED
    BY <1>5, <1>1, <1>3, <1>4, <1>6, <2>4, <2>5
<1>7. CASE t = MethodDebugInformation
  <2> DEFINE w == <<index(Document), blob>>
  <2>1. Columns[t] = <<Index(Document), Ref("blob")>>
    BY <1>5, <1>7 DEF Columns, DebugTables
  <2>2. Len(Columns[t]) = 2 /\ DOMAIN Columns[t] = 1..2
    BY <2>1
  <2>3. \A k \in 1..2 : w[k] \in Nat /\ Width(f, Columns[t][k]) = w[k]
    BY <1>1, <1>3, <1>4, <2>1
  <2>4. /\ WrittenRowSize(f, t) = Total(w, 2)
        /\ \A m \in 0..2 : ColumnEnd(f, t, m) = Total(w, m)
        /\ Total(w, 2) = w[1] + w[2]
    <3> HIDE DEF w
    <3> QED
      BY <2>2, <2>3, RowOf, TotalsOfSix
  <2>5. RowSize(t) = index(Document) + blob
    BY <1>5, <1>7 DEF RowSize, blob, guid, string, index
  <2> QED
    BY <1>5, <1>1, <1>3, <1>4, <1>7, <2>4, <2>5
<1>8. CASE t = LocalScope
  <2> DEFINE w == <<index(MethodDef), index(ImportScope),
                  index(LocalVariable), index(LocalConstant), 4, 4>>
  <2>1. Columns[t] = <<Index(MethodDef), Index(ImportScope), Index(LocalVariable),
                      Index(LocalConstant), Fixed(4), Fixed(4)>>
    BY <1>5, <1>8 DEF Columns, DebugTables
  <2>2. Len(Columns[t]) = 6 /\ DOMAIN Columns[t] = 1..6
    BY <2>1
  <2>3. \A k \in 1..6 : w[k] \in Nat /\ Width(f, Columns[t][k]) = w[k]
    BY <1>1, <1>3, <1>4, <2>1
  <2>4. /\ WrittenRowSize(f, t) = Total(w, 6)
        /\ \A m \in 0..6 : ColumnEnd(f, t, m) = Total(w, m)
        /\ Total(w, 6) = w[1] + w[2] + w[3] + w[4] + w[5] + w[6]
    <3> HIDE DEF w
    <3> QED
      BY <2>2, <2>3, RowOf, TotalsOfSix
  <2>5. RowSize(t) = index(MethodDef) + index(ImportScope) + index(LocalVariable)
                             + index(LocalConstant) + 8
    BY <1>5, <1>8 DEF RowSize, blob, guid, string, index
  <2> QED
    BY <1>5, <1>1, <1>3, <1>4, <1>8, <2>4, <2>5
<1>9. CASE t = LocalVariable
  <2> DEFINE w == <<2, 2, string>>
  <2>1. Columns[t] = <<Fixed(2), Fixed(2), Ref("string")>>
    BY <1>5, <1>9 DEF Columns, DebugTables
  <2>2. Len(Columns[t]) = 3 /\ DOMAIN Columns[t] = 1..3
    BY <2>1
  <2>3. \A k \in 1..3 : w[k] \in Nat /\ Width(f, Columns[t][k]) = w[k]
    BY <1>1, <1>3, <1>4, <2>1
  <2>4. /\ WrittenRowSize(f, t) = Total(w, 3)
        /\ \A m \in 0..3 : ColumnEnd(f, t, m) = Total(w, m)
        /\ Total(w, 3) = w[1] + w[2] + w[3]
    <3> HIDE DEF w
    <3> QED
      BY <2>2, <2>3, RowOf, TotalsOfSix
  <2>5. RowSize(t) = 4 + string
    BY <1>5, <1>9 DEF RowSize, blob, guid, string, index
  <2> QED
    BY <1>5, <1>1, <1>3, <1>4, <1>9, <2>4, <2>5
<1>10. CASE t = LocalConstant
  <2> DEFINE w == <<string, blob>>
  <2>1. Columns[t] = <<Ref("string"), Ref("blob")>>
    BY <1>5, <1>10 DEF Columns, DebugTables
  <2>2. Len(Columns[t]) = 2 /\ DOMAIN Columns[t] = 1..2
    BY <2>1
  <2>3. \A k \in 1..2 : w[k] \in Nat /\ Width(f, Columns[t][k]) = w[k]
    BY <1>1, <1>3, <1>4, <2>1
  <2>4. /\ WrittenRowSize(f, t) = Total(w, 2)
        /\ \A m \in 0..2 : ColumnEnd(f, t, m) = Total(w, m)
        /\ Total(w, 2) = w[1] + w[2]
    <3> HIDE DEF w
    <3> QED
      BY <2>2, <2>3, RowOf, TotalsOfSix
  <2>5. RowSize(t) = string + blob
    BY <1>5, <1>10 DEF RowSize, blob, guid, string, index
  <2> QED
    BY <1>5, <1>1, <1>3, <1>4, <1>10, <2>4, <2>5
<1>11. CASE t = ImportScope
  <2> DEFINE w == <<index(ImportScope), blob>>
  <2>1. Columns[t] = <<Index(ImportScope), Ref("blob")>>
    BY <1>5, <1>11 DEF Columns, DebugTables
  <2>2. Len(Columns[t]) = 2 /\ DOMAIN Columns[t] = 1..2
    BY <2>1
  <2>3. \A k \in 1..2 : w[k] \in Nat /\ Width(f, Columns[t][k]) = w[k]
    BY <1>1, <1>3, <1>4, <2>1
  <2>4. /\ WrittenRowSize(f, t) = Total(w, 2)
        /\ \A m \in 0..2 : ColumnEnd(f, t, m) = Total(w, m)
        /\ Total(w, 2) = w[1] + w[2]
    <3> HIDE DEF w
    <3> QED
      BY <2>2, <2>3, RowOf, TotalsOfSix
  <2>5. RowSize(t) = index(ImportScope) + blob
    BY <1>5, <1>11 DEF RowSize, blob, guid, string, index
  <2> QED
    BY <1>5, <1>1, <1>3, <1>4, <1>11, <2>4, <2>5
<1>12. CASE t = StateMachineMethod
  <2> DEFINE w == <<index(MethodDef), index(MethodDef)>>
  <2>1. Columns[t] = <<Index(MethodDef), Index(MethodDef)>>
    BY <1>5, <1>12 DEF Columns, DebugTables
  <2>2. Len(Columns[t]) = 2 /\ DOMAIN Columns[t] = 1..2
    BY <2>1
  <2>3. \A k \in 1..2 : w[k] \in Nat /\ Width(f, Columns[t][k]) = w[k]
    BY <1>1, <1>3, <1>4, <2>1
  <2>4. /\ WrittenRowSize(f, t) = Total(w, 2)
        /\ \A m \in 0..2 : ColumnEnd(f, t, m) = Total(w, m)
        /\ Total(w, 2) = w[1] + w[2]
    <3> HIDE DEF w
    <3> QED
      BY <2>2, <2>3, RowOf, TotalsOfSix
  <2>5. RowSize(t) = 2 * index(MethodDef)
    BY <1>5, <1>12 DEF RowSize, blob, guid, string, index
  <2> QED
    BY <1>5, <1>1, <1>3, <1>4, <1>12, <2>4, <2>5
<1>13. CASE t = CustomDebugInformation
  <2> DEFINE w == <<ParentWidth, guid, blob>>
  <2>1. Columns[t] = <<Coded, Ref("guid"), Ref("blob")>>
    BY <1>5, <1>13 DEF Columns, DebugTables
  <2>2. Len(Columns[t]) = 3 /\ DOMAIN Columns[t] = 1..3
    BY <2>1
  <2>3. \A k \in 1..3 : w[k] \in Nat /\ Width(f, Columns[t][k]) = w[k]
    BY <1>1, <1>3, <1>4, <2>1
  <2>4. /\ WrittenRowSize(f, t) = Total(w, 3)
        /\ \A m \in 0..3 : ColumnEnd(f, t, m) = Total(w, m)
        /\ Total(w, 3) = w[1] + w[2] + w[3]
        /\ Total(w, 1) = w[1] /\ Total(w, 2) = w[1] + w[2]
    <3> HIDE DEF w
    <3> QED
      BY <2>2, <2>3, RowOf, TotalsOfSix
  <2>5. RowSize(t) = ParentWidth + guid + blob
    BY <1>5, <1>13 DEF RowSize, blob, guid, string, index
  <2> QED
    BY <1>5, <1>1, <1>3, <1>4, <1>13, <2>4, <2>5 DEF guid
<1> QED
  BY <1>5, <1>6, <1>7, <1>8, <1>9, <1>10, <1>11, <1>12, <1>13 DEF DebugTables
-----------------------------------------------------------------------------
(* The walk over the tables.                                               *)

\* Each table starts where the one before ends, the first with the payload.
LEMMA StartsAre ==
    ASSUME FileOK(f)
    PROVE  /\ StartOf(f, Document) = 0
           /\ \A t \in DebugTables :
                 /\ StartOf(f, t) \in Nat
                 /\ StartOf(f, t + 1) = StartOf(f, t) + RowSize(t) * f.rows[t]
                 /\ RowSize(t) * f.rows[t] \in Nat
<1> DEFINE sizes == TableSizes(f)
<1>1. Document = 48 /\ CustomDebugInformation = 55
  BY DEF Document, CustomDebugInformation
<1>2. Cardinality(DebugTables) = 8
  <2>1. PICK a \in Int, b \in Int : a = Document /\ b = CustomDebugInformation
    BY <1>1
  <2>2. Cardinality(a..b) = IF a > b THEN 0 ELSE b - a + 1
    BY FS_Interval
  <2> QED
    BY <1>1, <2>1, <2>2 DEF DebugTables
<1>3. ASSUME NEW t \in DebugTables
      PROVE  RowSize(t) * f.rows[t] \in Nat /\ sizes[t - Document + 1] = RowSize(t) * f.rows[t]
  <2>1. t - Document + 1 \in 1..8 /\ Document + (t - Document + 1) - 1 = t
    BY <1>1 DEF DebugTables
  <2>2. sizes[t - Document + 1] = WrittenRowSize(f, t) * f.rows[t]
    BY <1>2, <2>1 DEF TableSizes
  <2>3. f.rows[t] \in Nat
    BY DEF FileOK, Tables
  <2> QED
    BY <2>2, <2>3, RowSizesAgree
<1> HIDE DEF sizes
<1>4. \A k \in 1..8 : sizes[k] \in Nat
  <2> TAKE k \in 1..8
  <2>1. Document + k - 1 \in DebugTables /\ (Document + k - 1) - Document + 1 = k
    BY <1>1 DEF DebugTables
  <2> QED
    BY <1>3, <2>1
<1>5. \A n \in 0..8 : /\ Total(sizes, n) \in Nat /\ (n = 0 => Total(sizes, n) = 0)
                      /\ n > 0 => Total(sizes, n) = Total(sizes, n - 1) + sizes[n]
  <2> TAKE n \in 0..8
  <2>1. n \in Nat /\ \A k \in 1..n : sizes[k] \in Nat
    BY <1>4
  <2> QED
    BY <2>1, TotalIs
<1>6. \A t : StartOf(f, t) = Total(sizes, t - Document)
  BY DEF StartOf, sizes
<1>7. ASSUME NEW t \in DebugTables
      PROVE  /\ StartOf(f, t) \in Nat
             /\ StartOf(f, t + 1) = StartOf(f, t) + RowSize(t) * f.rows[t]
  <2>1. /\ t - Document \in 0..8 /\ (t + 1) - Document \in 0..8 /\ (t + 1) - Document > 0
        /\ (t + 1) - Document - 1 = t - Document /\ (t + 1) - Document = t - Document + 1
    BY <1>1 DEF DebugTables
  <2> QED
    BY <1>3, <1>5, <1>6, <2>1
<1>8. StartOf(f, Document) = 0
  <2>1. Document - Document = 0
    BY <1>1
  <2> QED
    BY <1>5, <1>6, <2>1
<1> QED
  BY <1>3, <1>7, <1>8

\* A payload has some length.
LEMMA LengthIs == ASSUME NEW n \in Int PROVE Max({0, n}) \in Nat
<1>1. \E x \in {0, n} : \A y \in {0, n} : x >= y
  <2>1. 0 >= n \/ n >= 0
    OBVIOUS
  <2> QED
    BY <2>1
<1>2. Max({0, n}) \in {0, n} /\ Max({0, n}) >= 0
  BY <1>1 DEF Max
<1> QED
  BY <1>2

\* The walk goes on from table to table.
LEMMA BeginsAre ==
    ASSUME FileOK(f), NEW i \in 0..CustomDebugInformation
    PROVE  /\ i \in DebugTables =>
                 /\ Begin(f, i) = StartOf(f, i) /\ Begin(f, i) \in Nat
                 /\ Begin(f, i + 1) = Begin(f, i) + RowSize(i) * f.rows[i]
                 /\ RowSize(i) * f.rows[i] \in Nat
           /\ i \notin DebugTables => i < Document /\ Begin(f, i) = 0 /\ Begin(f, i + 1) = 0
<1>1. Document = 48 /\ CustomDebugInformation = 55
  BY DEF Document, CustomDebugInformation
<1>2. CASE i \in DebugTables
  <2>1. i >= 48 /\ i <= 55
    BY <1>1, <1>2 DEF DebugTables
  <2>2. Begin(f, i) = StartOf(f, i) /\ Begin(f, i + 1) = StartOf(f, i + 1)
    BY <1>1, <2>1, StartsAre DEF Begin
  <2> QED
    BY <1>2, <2>2, StartsAre
<1>3. CASE i \notin DebugTables
  BY <1>1, <1>3 DEF DebugTables, Begin
<1> QED
  BY <1>2, <1>3

\* A step of the walk takes it to the next table, or ends it at this one.
LEMMA LayoutStep == LayoutInv /\ Next => LayoutInv'
<1> SUFFICES ASSUME LayoutInv, Next PROVE LayoutInv'
  OBVIOUS
<1>1. PICK file \in Files, bytes \in Nat, i \in 0..(CustomDebugInformation + 1) :
          WalkAt(file, bytes, i)
  BY DEF LayoutInv
<1>2. FileOK(f) /\ f = file /\ length = bytes /\ idx = i /\ offset = Begin(file, i)
  BY <1>1, FilesAssumption DEF WalkAt
<1>3. Document = 48 /\ CustomDebugInformation = 55
  BY DEF Document, CustomDebugInformation
<1>4. ~err /\ i \in 0..CustomDebugInformation /\ i + 1 \in 0..(CustomDebugInformation + 1)
  BY <1>2, <1>3 DEF Next, AbsentTable, SkipTable, UnsupportedTable, ReadTable, Walking
<1>5. SUFFICES \E j \in 0..(CustomDebugInformation + 1) : WalkAt(file, bytes, j)'
  BY DEF LayoutInv
<1>6. \A t \in Tables : t < i + 1 => t < i \/ t = i
  BY <1>3, <1>4 DEF Tables, TypeSystem, DebugTables, Field, MethodDef
<1>7. CASE AbsentTable
  <2>1. i \notin file.present /\ (i \in Tables => file.rows[i] = 0)
    BY <1>2, <1>7 DEF AbsentTable, isTablePresent, FileOK
  <2>2. /\ idx' = i + 1 /\ offset' = Begin(file, i) + 0 /\ UNCHANGED <<f, length, doc, cdi, err>>
        /\ Begin(file, i) \in Int
    <3>1. Begin(file, i) \in Int
      BY <1>2, <1>4, BeginsAre
    <3> QED
      BY <1>2, <1>7, <3>1 DEF AbsentTable, Advance
  <2>3. i \in Tables => Fits(file, bytes, i)
    BY <2>1 DEF Fits, Tables
  <2>4. i \in {Document, CustomDebugInformation} => TableAt(file, i) = NoTable
    BY <2>1 DEF TableAt
  <2>5. Begin(file, i + 1) = Begin(file, i)
    <3>1. CASE i \in DebugTables
      <4>1. RowSize(i) \in Nat /\ file.rows[i] = 0
        BY <1>2, <2>1, <3>1, RowSizesAgree DEF Tables
      <4>2. RowSize(i) * file.rows[i] = 0
        BY <4>1
      <4> QED
        BY <1>2, <1>4, <2>2, <3>1, <4>2, BeginsAre
    <3>2. CASE i \notin DebugTables
      BY <1>2, <1>4, <3>2, BeginsAre
    <3> QED
      BY <3>1, <3>2
  <2>6. offset' = Begin(file, i + 1)
    BY <2>2, <2>5
  <2> QED
    BY <1>1, <1>3, <1>4, <1>6, <2>2, <2>3, <2>4, <2>6 DEF WalkAt
<1>8. CASE SkipTable
  <2>1. CASE i \in DebugTables
    <3>1. /\ i \notin TypeSystem /\ i \notin {Document, CustomDebugInformation}
          /\ Fits(file, bytes, i)
      BY <1>2, <1>3, <1>8, <2>1 DEF SkipTable, Fits, TypeSystem, DebugTables, Field, MethodDef
    <3>2. idx' = i + 1 /\ offset' = Begin(file, i + 1) /\ UNCHANGED <<f, length, doc, cdi, err>>
      BY <1>2, <1>4, <1>8, <2>1, <3>1, BeginsAre DEF SkipTable, Advance
    <3> QED
      BY <1>1, <1>3, <1>4, <1>6, <2>1, <3>1, <3>2 DEF WalkAt, DebugTables
  <2>2. CASE i \notin DebugTables
    <3>1. i \in TypeSystem
      BY <1>2, <1>8, <2>2 DEF SkipTable, isTablePresent, FileOK, Tables
    <3>2. /\ file.rows[i] = 0
          /\ idx' = i + 1 /\ offset' = Begin(file, i) + 0 /\ UNCHANGED <<f, length, doc, cdi, err>>
      BY <1>2, <1>8, <3>1 DEF SkipTable, Advance
    <3>3. i \in Tables => Fits(file, bytes, i)
      BY <3>1, <3>2 DEF Fits
    <3>4. i < Document /\ offset' = Begin(file, i + 1)
      BY <1>2, <1>4, <2>2, <3>2, BeginsAre
    <3> QED
      BY <1>1, <1>3, <1>4, <1>6, <3>2, <3>3, <3>4 DEF WalkAt
  <2> QED
    BY <2>1, <2>2
<1>9. CASE UnsupportedTable
  <2>1. i \in Tables /\ ~Fits(file, bytes, i) /\ err' /\ UNCHANGED <<f, length, idx, offset, doc, cdi>>
    BY <1>2, <1>9 DEF UnsupportedTable, Fits, Tables
  <2> QED
    BY <1>1, <2>1 DEF WalkAt
<1>10. CASE ReadTable
  <2>1. /\ i \in {Document, CustomDebugInformation} /\ i \in DebugTables /\ i \in Tables
        /\ i \notin TypeSystem /\ i \in file.present
    BY <1>2, <1>3, <1>10 DEF ReadTable, isTablePresent, Tables, DebugTables, TypeSystem, Field, MethodDef
  <2> DEFINE size == RowSize(i) * file.rows[i]
  <2>2. /\ Begin(file, i) = StartOf(file, i) /\ Begin(file, i) \in Nat
        /\ Begin(file, i + 1) = Begin(file, i) + size /\ size \in Nat
        /\ WrittenRowSize(file, i) = RowSize(i)
    BY <1>2, <1>4, <2>1, BeginsAre, RowSizesAgree
  <2>3. Fits(file, bytes, i) <=> InRange(size)
    BY <1>2, <2>1, <2>2 DEF Fits, InRange
  <2>4. TableAt(file, i) = [start |-> offset, rows |-> f.rows[i], rowSize |-> RowSize(i)]
    BY <1>2, <2>1, <2>2 DEF TableAt
  <2>5. CASE InRange(size)
    <3>1. /\ idx' = i + 1 /\ offset' = Begin(file, i + 1) /\ UNCHANGED <<f, length, err>>
          /\ doc' = IF i = Document THEN TableAt(file, i) ELSE doc
          /\ cdi' = IF i = Document THEN cdi ELSE TableAt(file, i)
      BY <1>2, <1>10, <2>2, <2>4, <2>5 DEF ReadTable, Advance
    <3> QED
      BY <1>1, <1>3, <1>4, <1>6, <2>1, <2>3, <2>5, <3>1 DEF WalkAt
  <2>6. CASE ~InRange(size)
    <3>1. err' /\ UNCHANGED <<f, length, idx, offset, doc, cdi>>
      BY <1>2, <1>10, <2>6 DEF ReadTable
    <3> QED
      BY <1>1, <2>1, <2>3, <2>6, <3>1 DEF WalkAt
  <2> QED
    BY <2>5, <2>6
<1> QED
  BY <1>7, <1>8, <1>9, <1>10 DEF Next

\* At every moment the walk is where the writer put a table.
THEOREM LayoutInvariance == SourcesSpec => []LayoutInv
<1>1. SourcesInit => LayoutInv
  <2> SUFFICES ASSUME SourcesInit PROVE LayoutInv
    OBVIOUS
  <2>1. f \in Files /\ FileOK(f)
    BY FilesAssumption DEF SourcesInit, Init
  <2>2. Document = 48 /\ CustomDebugInformation = 55
    BY DEF Document, CustomDebugInformation
  <2>3. WrittenLength(f) \in Nat
    <3>1. CustomDebugInformation \in DebugTables
      BY <2>2 DEF DebugTables
    <3> QED
      BY <2>1, <3>1, StartsAre DEF WrittenLength
  <2>4. length \in Nat
    <3>1. WrittenLength(f) - f.cut \in Int
      BY <2>1, <2>3 DEF FileOK
    <3> QED
      BY <3>1, LengthIs DEF SourcesInit, Init
  <2>5. \A t \in Tables : ~(t < 0)
    BY <2>2 DEF Tables, TypeSystem, DebugTables, Field, MethodDef
  <2>6. WalkAt(f, length, 0)
    <3>1. idx = 0 /\ offset = 0 /\ doc = NoTable /\ cdi = NoTable /\ err = FALSE
      BY DEF SourcesInit, Init
    <3>2. Begin(f, 0) = 0 /\ 0 <= Document /\ 0 <= CustomDebugInformation
      BY <2>2 DEF Begin
    <3>3. \A t \in Tables : t < 0 => Fits(f, length, t)
      BY <2>5
    <3> QED
      BY <3>1, <3>2, <3>3 DEF WalkAt
  <2> QED
    BY <2>1, <2>2, <2>4, <2>6 DEF LayoutInv
<1>2. LayoutInv /\ [SourcesNext]_allVars => LayoutInv'
  <2> SUFFICES ASSUME LayoutInv, [SourcesNext]_allVars PROVE LayoutInv'
    OBVIOUS
  <2>1. Next \/ UNCHANGED vars
    BY DEF SourcesNext, ReadDirectory, LayOut, StartExtract, ExtractRow, Extracted, allVars
  <2>2. CASE UNCHANGED vars
    BY <2>2 DEF vars, LayoutInv, WalkAt
  <2> QED
    BY <2>1, <2>2, LayoutStep
<1> QED
  BY <1>1, <1>2, PTL DEF SourcesSpec

\* The last of n rows ends with them.
LEMMA LastRow == ASSUME NEW n \in Nat, NEW w \in Nat PROVE (n - 1) * w + w = n * w
  OBVIOUS

\* The reader finds the two tables, and each column it reads, exactly where the
\* writer put them, whatever the row counts of the tables before, the widths of the
\* heaps and the tables that are absent; and it gives up just on a file that has
\* rows where it cannot size them or that ends before the end of a table that is
\* there and that it reads.
THEOREM LayoutIsTheWritersHolds == SourcesSpec => []LayoutIsTheWriters
<1>1. LayoutInv => LayoutIsTheWriters
  <2> SUFFICES ASSUME LayoutInv PROVE LayoutIsTheWriters
    OBVIOUS
  <2>1. PICK bytes \in Nat, i \in 0..(CustomDebugInformation + 1) : f \in Files /\ WalkAt(f, bytes, i)
    BY DEF LayoutInv, WalkAt
  <2>2. FileOK(f) /\ length = bytes /\ idx = i /\ err \in BOOLEAN
    BY <2>1, FilesAssumption DEF WalkAt
  <2>3. Document = 48 /\ CustomDebugInformation = 55 /\ MethodDebugInformation = 49
    BY DEF Document, CustomDebugInformation, MethodDebugInformation
  <2>4. /\ Document \in DebugTables /\ CustomDebugInformation \in DebugTables
        /\ DebugTables \subseteq Tables /\ TypeSystem \subseteq Tables
        /\ \A t \in Tables : t < CustomDebugInformation + 1
    BY <2>3 DEF Tables, DebugTables, TypeSystem, Field, MethodDef
  <2>5. ASSUME NEW t \in {Document, CustomDebugInformation}
        PROVE  /\ StartOf(f, t) \in Nat /\ WrittenRowSize(f, t) \in Nat /\ f.rows[t] \in Nat
               /\ WrittenRowSize(f, t) * f.rows[t] \in Nat
               /\ StartOf(f, t + 1) = StartOf(f, t) + WrittenRowSize(f, t) * f.rows[t]
               /\ t \notin TypeSystem
    <3>1. t \in DebugTables /\ t \notin TypeSystem
      BY <2>3, <2>4 DEF TypeSystem, Field, MethodDef
    <3>2. f.rows[t] \in Nat
      BY <2>2, <2>4, <3>1 DEF FileOK
    <3> QED
      BY <2>2, <3>1, <3>2, StartsAre, RowSizesAgree
  <2>6. ASSUME Done
        PROVE  /\ doc = TableAt(f, Document) /\ cdi = TableAt(f, CustomDebugInformation)
               /\ ~err /\ \A t \in Tables : Fits(f, bytes, t)
    <3>1. ~err /\ i = CustomDebugInformation + 1
      BY <2>2, <2>3, <2>6 DEF Done, Walking
    <3> QED
      BY <2>1, <2>3, <2>4, <3>1 DEF WalkAt
  <2>7. ASSUME Done, doc.rows > 0
        PROVE  NameOffset(doc.rows) + WrittenRowSize(f, Document) <= StartOf(f, MethodDebugInformation)
    <3> DEFINE n == f.rows[Document]
               w == WrittenRowSize(f, Document)
    <3>1. /\ n \in Nat /\ w \in Nat /\ n * w \in Nat /\ (n - 1) * w \in Int /\ w * n = n * w
          /\ StartOf(f, Document) \in Nat
          /\ StartOf(f, MethodDebugInformation) = StartOf(f, Document) + w * n
      <4>1. Document + 1 = MethodDebugInformation
        BY <2>3
      <4>2. n \in Nat /\ w \in Nat
        BY <2>5
      <4> HIDE DEF n, w
      <4>3. n * w \in Nat /\ (n - 1) * w \in Int /\ w * n = n * w
        BY <4>2
      <4> QED
        BY <2>5, <4>1, <4>2, <4>3 DEF n, w
    <3>2. NameOffset(doc.rows) = StartOf(f, Document) + (n - 1) * w
      BY <2>6, <2>7 DEF NameOffset, TableAt, NoTable
    <3> HIDE DEF n, w
    <3>3. (n - 1) * w + w = n * w
      BY <3>1, LastRow
    <3> QED
      BY <3>1, <3>2, <3>3 DEF w
  <2>8. ASSUME Done, cdi.rows > 0, NEW row \in {1, cdi.rows}
        PROVE  LET start == StartOf(f, CustomDebugInformation)
                              + (row - 1) * WrittenRowSize(f, CustomDebugInformation)
               IN  /\ ParentOffset(row) = start
                   /\ KindOffset(row) = start + ColumnEnd(f, CustomDebugInformation, 1)
                   /\ ValueOffset(row) = start + ColumnEnd(f, CustomDebugInformation, 2)
    <3> DEFINE start == StartOf(f, CustomDebugInformation)
                          + (row - 1) * WrittenRowSize(f, CustomDebugInformation)
    <3>1. row \in Nat
      BY <2>5, <2>6, <2>8 DEF TableAt, NoTable
    <3>2. start \in Int
      <4>1. (row - 1) * WrittenRowSize(f, CustomDebugInformation) \in Int
        BY <2>5, <3>1
      <4> QED
        BY <2>5, <4>1
    <3>3. ParentOffset(row) = start
      BY <2>6, <2>8 DEF ParentOffset, TableAt, NoTable
    <3>4. /\ ColumnEnd(f, CustomDebugInformation, 1) = ParentWidth
          /\ ColumnEnd(f, CustomDebugInformation, 2) = ParentWidth + RefSize("guid")
          /\ ParentWidth \in Int /\ RefSize("guid") \in Int
      BY <2>2, <2>4, RowSizesAgree, WidthsAgree DEF Heaps
    <3> HIDE DEF start
    <3>5. /\ KindOffset(row) = start + ColumnEnd(f, CustomDebugInformation, 1)
          /\ ValueOffset(row) = start + ColumnEnd(f, CustomDebugInformation, 2)
      BY <3>2, <3>3, <3>4 DEF KindOffset, ValueOffset
    <3> QED
      BY <3>3, <3>5 DEF start
  <2> DEFINE lost == \/ \E t \in TypeSystem : f.rows[t] # 0
                     \/ \E t \in f.present \cap {Document, CustomDebugInformation} :
                          StartOf(f, t) + WrittenRowSize(f, t) * f.rows[t] > length
  <2>9. lost <=> \E t \in Tables : ~Fits(f, bytes, t)
    <3>1. \A t \in TypeSystem : t \in Tables /\ (Fits(f, bytes, t) <=> f.rows[t] = 0)
      BY <2>4 DEF Fits
    <3>2. \A t \in {Document, CustomDebugInformation} :
              /\ t \in Tables
              /\ ~Fits(f, bytes, t) <=>
                   t \in f.present /\ StartOf(f, t) + WrittenRowSize(f, t) * f.rows[t] > length
      BY <2>2, <2>4, <2>5 DEF Fits
    <3>3. \A t \in Tables : t \in TypeSystem \cup {Document, CustomDebugInformation} \/ Fits(f, bytes, t)
      BY DEF Fits
    <3> QED
      BY <3>1, <3>2, <3>3
  <2>10. err <=> ~Walking /\ lost
    <3> HIDE DEF lost
    <3>1. err => ~Walking /\ lost
      BY <2>1, <2>9 DEF Walking, WalkAt
    <3>2. ~Walking /\ ~err => ~lost
      BY <2>6, <2>9 DEF Done
    <3> QED
      BY <2>2, <3>1, <3>2
  <2> QED
    BY <2>6, <2>7, <2>8, <2>10 DEF LayoutIsTheWriters, WrittenTable, TableAt
<1> QED
  BY <1>1, LayoutInvariance, PTL

\* Two functions that follow the same recursion are the same as far as both go.
LEMMA FollowsOne ==
    ASSUME NEW n \in Nat, NEW m \in Nat, m <= n, NEW S, NEW base, NEW next, NEW more,
           \A i \in 1..m : next[i] = more[i],
           NEW r, Follows(r, n, S, base, next), NEW q, Follows(q, m, S, base, more)
    PROVE  \A i \in 0..m : q[i] = r[i]
<1> DEFINE N == {i \in 0..m : q[i] = r[i]}
<1>1. 0 \in N
  BY DEF Follows
<1>2. ASSUME NEW i \in 1..m, i - 1 \in N PROVE i \in N
  <2>1. i \in 1..n /\ i \in 0..m /\ q[i - 1] = r[i - 1] /\ next[i] = more[i]
    BY <1>2
  <2>2. q[i] = more[i][q[i - 1]] /\ r[i] = next[i][r[i - 1]]
    BY <2>1 DEF Follows
  <2> QED
    BY <2>1, <2>2
<1> HIDE DEF N
<1>3. \A i \in 0..m : i \in N
  BY <1>1, <1>2, Induction
<1> QED
  BY <1>3 DEF N

-----------------------------------------------------------------------------
(* Heaps and what is in them.                                              *)

Bytes == Seq(Nat)

\* What bytes are.
LEMMA BytesAre ==
    ASSUME NEW s \in Bytes PROVE Len(s) \in Nat /\ \A i \in 1..Len(s) : s[i] \in Nat
  BY DEF Bytes

\* Two of the same length with the same bytes are the same.
LEMMA SameBytes ==
    ASSUME NEW s \in Bytes, NEW t \in Bytes, Len(s) = Len(t), \A i \in 1..Len(s) : s[i] = t[i]
    PROVE  s = t
  BY SeqEqual, SMTT(30) DEF Bytes

\* Three one after the other are the same, whichever two are put together first.
Associates(s, t, u) == (s \o t) \o u = s \o (t \o u)

\* So it is with bytes.
LEMMA BytesAssociate ==
    ASSUME NEW s \in Bytes, NEW t \in Bytes, NEW u \in Bytes
    PROVE  Associates(s, t, u)
  BY SMTT(30) DEF Bytes, Associates

\* A heap goes on from another.
Begins(h, heap) == Len(h) <= Len(heap) /\ \A i \in 1..Len(h) : heap[i] = h[i]

\* Some bytes are at an offset of a heap.
Holds(heap, pos, s) ==
    pos \in Nat /\ pos + Len(s) <= Len(heap) /\ \A i \in 1..Len(s) : heap[pos + i] = s[i]

\* They are also in a heap that goes on from it.
LEMMA HoldsOn ==
    ASSUME NEW h \in Bytes, NEW heap \in Bytes, Begins(h, heap), NEW pos, NEW s \in Bytes,
           Holds(h, pos, s)
    PROVE  Holds(heap, pos, s)
<1>1. PICK a \in Nat, b \in Nat, c \in Nat : a = Len(h) /\ b = Len(heap) /\ c = Len(s)
  BY DEF Bytes
<1>2. pos \in Nat /\ pos + c <= a /\ a <= b
  BY <1>1 DEF Holds, Begins
<1>3. ASSUME NEW i \in 1..c PROVE heap[pos + i] = s[i]
  <2>1. pos + i \in 1..a
    BY <1>2
  <2> QED
    BY <1>1, <2>1 DEF Holds, Begins
<1> QED
  BY <1>1, <1>2, <1>3 DEF Holds

\* A heap that goes on from one that goes on from a third.
LEMMA BeginsOn ==
    ASSUME NEW h \in Bytes, NEW g \in Bytes, NEW heap \in Bytes, Begins(h, g), Begins(g, heap)
    PROVE  Begins(h, heap)
<1>1. PICK a \in Nat, b \in Nat, c \in Nat : a = Len(h) /\ b = Len(g) /\ c = Len(heap)
  BY DEF Bytes
<1>2. a <= b /\ b <= c
  BY <1>1 DEF Begins
<1> QED
  BY <1>1, <1>2 DEF Begins

\* What is appended to a heap is at its end.
LEMMA HoldsAppended ==
    ASSUME NEW h \in Bytes, NEW s \in Bytes
    PROVE  h \o s \in Bytes /\ Begins(h, h \o s) /\ Holds(h \o s, Len(h), s)
<1>1. PICK a \in Nat, b \in Nat : a = Len(h) /\ b = Len(s)
  BY DEF Bytes
<1>2. /\ h \o s \in Bytes /\ Len(h \o s) = a + b
      /\ \A i \in 1..(a + b) : (h \o s)[i] = IF i <= a THEN h[i] ELSE s[i - a]
  BY <1>1 DEF Bytes
<1>3. \A i \in 1..a : (h \o s)[i] = h[i]
  BY <1>2
<1>4. \A i \in 1..b : (h \o s)[a + i] = s[i]
  <2> TAKE i \in 1..b
  <2>1. a + i \in 1..(a + b) /\ ~(a + i <= a) /\ (a + i) - a = i
    OBVIOUS
  <2> QED
    BY <1>2, <2>1
<1> QED
  BY <1>1, <1>2, <1>3, <1>4 DEF Begins, Holds

\* Of two pieces each is there.
LEMMA HoldsBoth ==
    ASSUME NEW heap \in Bytes, NEW pos, NEW s \in Bytes, NEW t \in Bytes, Holds(heap, pos, s \o t)
    PROVE  Holds(heap, pos, s) /\ Holds(heap, pos + Len(s), t)
<1>1. PICK a \in Nat, b \in Nat, c \in Nat : a = Len(s) /\ b = Len(t) /\ c = Len(heap)
  BY DEF Bytes
<1>2. /\ Len(s \o t) = a + b
      /\ \A i \in 1..(a + b) : (s \o t)[i] = IF i <= a THEN s[i] ELSE t[i - a]
  BY <1>1 DEF Bytes
<1>3. pos \in Nat /\ pos + (a + b) <= c /\ \A i \in 1..(a + b) : heap[pos + i] = (s \o t)[i]
  BY <1>1, <1>2 DEF Holds
<1>4. \A i \in 1..a : heap[pos + i] = s[i]
  BY <1>2, <1>3
<1>5. \A i \in 1..b : heap[(pos + a) + i] = t[i]
  <2> TAKE i \in 1..b
  <2>1. a + i \in 1..(a + b) /\ ~(a + i <= a) /\ (a + i) - a = i /\ pos + (a + i) = (pos + a) + i
    BY <1>3
  <2>2. heap[pos + (a + i)] = (s \o t)[a + i] /\ (s \o t)[a + i] = t[i]
    BY <1>2, <1>3, <2>1
  <2> QED
    BY <2>1, <2>2
<1> QED
  BY <1>1, <1>3, <1>4, <1>5 DEF Holds

\* The bytes at an offset are read if the reader has all of them.
LEMMA ReadBytesIs ==
    ASSUME NEW heap \in Bytes, NEW h \in Bytes, Begins(h, heap), NEW pos, NEW s \in Bytes,
           Holds(heap, pos, s)
    PROVE  /\ ReadBytes(h, pos, Len(s)) \in {Nothing, Something(s, pos + Len(s))}
           /\ Len(h) = Len(heap) => ReadBytes(h, pos, Len(s)) = Something(s, pos + Len(s))
<1>1. PICK a \in Nat, b \in Nat, c \in Nat : a = Len(h) /\ b = Len(s) /\ c = Len(heap)
  BY DEF Bytes
<1>2. pos \in Nat /\ pos + b <= c /\ \A i \in 1..b : heap[pos + i] = s[i]
  BY <1>1 DEF Holds
<1>3. CASE pos + b > a
  <2>1. ReadBytes(h, pos, b) = Nothing
    BY <1>1, <1>3 DEF ReadBytes
  <2> QED
    BY <1>1, <1>2, <1>3, <2>1
<1>4. CASE ~(pos + b > a)
  <2> DEFINE p == SubSeq(h, pos + 1, pos + b)
  <2>1. p \in Bytes /\ Len(p) = b /\ \A i \in 1..b : p[i] = h[pos + i]
    <3>1. \A i \in (pos + 1)..(pos + b) : h[i] \in Nat
      BY <1>1, <1>2, <1>4, BytesAre, SMTT(30)
    <3>2. pos + 1 \in Int /\ pos + b \in Int
      BY <1>2
    <3>3. /\ p \in Seq(Nat) /\ Len(p) = IF pos + 1 <= pos + b THEN (pos + b) - (pos + 1) + 1 ELSE 0
          /\ \A i \in 1..((pos + b) - (pos + 1) + 1) : p[i] = h[(pos + 1) + i - 1]
      BY <3>1, <3>2, SubSeqProperties
    <3>4. (pos + b) - (pos + 1) + 1 = b /\ \A i \in 1..b : (pos + 1) + i - 1 = pos + i
      BY <1>2
    <3>5. Len(p) = b
      BY <1>2, <3>3
    <3> HIDE DEF p
    <3>6. \A i \in 1..b : p[i] = h[pos + i]
      BY <3>3, <3>4
    <3> QED
      BY <3>3, <3>5, <3>6 DEF Bytes
  <2>2. \A i \in 1..b : h[pos + i] = s[i]
    <3> TAKE i \in 1..b
    <3>1. pos + i \in 1..a
      BY <1>2, <1>4
    <3> QED
      BY <1>1, <1>2, <3>1 DEF Begins
  <2> HIDE DEF p
  <2>3. p = s
    BY <1>1, <2>1, <2>2, SameBytes
  <2>4. ReadBytes(h, pos, b) = Something(s, pos + b)
    BY <1>1, <1>4, <2>3 DEF ReadBytes, p
  <2> QED
    BY <1>1, <2>4
<1> QED
  BY <1>3, <1>4

\* The forms of a compressed integer.
LEMMA CompressedIs ==
    ASSUME NEW n \in Nat PROVE CompressedUint(n) \in Bytes /\ Len(CompressedUint(n)) \in {1, 2, 4}
<1>1. CASE n < 2^7
  BY <1>1 DEF CompressedUint, Bytes
<1>2. CASE ~(n < 2^7) /\ n < 2^14
  <2>1. 128 + (n \div 2^8) \in Nat /\ n % 2^8 \in Nat
    OBVIOUS
  <2> QED
    BY <1>2, <2>1 DEF CompressedUint, Bytes
<1>3. CASE ~(n < 2^7) /\ ~(n < 2^14)
  <2>1. /\ 192 + (n \div 2^24) \in Nat /\ (n \div 2^16) % 2^8 \in Nat
        /\ (n \div 2^8) % 2^8 \in Nat /\ n % 2^8 \in Nat
    OBVIOUS
  <2> QED
    BY <1>3, <2>1 DEF CompressedUint, Bytes
<1> QED
  BY <1>1, <1>2, <1>3

\* A heap with one blob more.
LEMMA AddBlobIs ==
    ASSUME NEW h \in Bytes, NEW blob \in Bytes
    PROVE  /\ AddBlob(h, blob) \in Bytes
           /\ CompressedUint(Len(blob)) \o blob \in Bytes
           /\ Begins(h, AddBlob(h, blob))
           /\ Holds(AddBlob(h, blob), Len(h), CompressedUint(Len(blob)) \o blob)
<1>1. Len(blob) \in Nat
  BY DEF Bytes
<1>2. PICK c \in Bytes : c = CompressedUint(Len(blob))
  BY <1>1, CompressedIs
<1>3. c \o blob \in Bytes /\ (h \o c) \o blob = h \o (c \o blob)
  BY DEF Bytes
<1> QED
  BY <1>2, <1>3, HoldsAppended DEF AddBlob

\* The parts joined, one after the other.
LEMMA JoinIs ==
    ASSUME NEW n \in Nat, NEW glue \in Bytes, NEW parts, \A i \in 1..n : parts[i] \in Bytes
    PROVE  /\ Join(glue, parts, n) \in Bytes
           /\ n = 0 => Join(glue, parts, n) = <<>>
           /\ n > 0 => /\ Join(glue, parts, n - 1) \in Bytes
                       /\ Join(glue, parts, n) = Join(glue, parts, n - 1) \o (IF n > 1 THEN glue ELSE <<>>) \o parts[n]
<1> DEFINE next == [i \in 1..n |-> [x \in Bytes |-> x \o (IF i > 1 THEN glue ELSE <<>>) \o parts[i]]]
           Up(k, u) == [i \in 0..k |-> IF i = 0 THEN <<>> ELSE u[i - 1] \o (IF i > 1 THEN glue ELSE <<>>) \o parts[i]]
<1>1. <<>> \in Bytes /\ \A i \in 1..n : \A x \in Bytes : x \o (IF i > 1 THEN glue ELSE <<>>) \o parts[i] \in Bytes
  BY DEF Bytes
<1>2. \A i \in 1..n : \A x \in Bytes : next[i][x] = x \o (IF i > 1 THEN glue ELSE <<>>) \o parts[i]
  OBVIOUS
<1>3. \A i \in 1..n : \A x \in Bytes : next[i][x] \in Bytes
  BY <1>1, <1>2
<1> HIDE DEF next
<1>4. ASSUME NEW k \in 0..n
      PROVE  \E u : Follows(u, k, Bytes, <<>>, next) /\ Join(glue, parts, k) = u[k]
  <2>1. k \in Nat /\ \A i \in 1..k : i \in 1..n /\ i - 1 \in 0..k /\ i \in 0..k /\ i # 0
    OBVIOUS
  <2>2. PICK r : Follows(r, k, Bytes, <<>>, next)
    <3>1. \A i \in 1..k : \A x \in Bytes : next[i][x] \in Bytes
      BY <1>3, <2>1
    <3> QED
      BY <1>1, <2>1, <3>1, Recursion
  <2> DEFINE h == CHOOSE u : u = Up(k, u)
  <2>3. r = Up(k, r)
    <3>1. r \in [0..k -> Bytes] /\ r[0] = <<>> /\ \A i \in 1..k : r[i] = next[i][r[i - 1]]
      BY <2>2 DEF Follows
    <3>2. ASSUME NEW i \in 0..k PROVE r[i] = Up(k, r)[i]
      <4>1. CASE i = 0
        BY <3>1, <4>1
      <4>2. CASE i # 0
        <5>1. i \in 1..k /\ i \in 1..n /\ i - 1 \in 0..k
          BY <4>2
        <5>2. r[i - 1] \in Bytes /\ r[i] = next[i][r[i - 1]]
          BY <3>1, <5>1
        <5>3. r[i] = r[i - 1] \o (IF i > 1 THEN glue ELSE <<>>) \o parts[i]
          BY <1>2, <5>1, <5>2
        <5> QED
          BY <4>2, <5>3
      <4> QED
        BY <4>1, <4>2
    <3> QED
      BY <3>1, <3>2
  <2>4. h = Up(k, h)
    <3> HIDE DEF Up
    <3> QED
      BY <2>3
  <2>5. Join(glue, parts, k) = h[k]
    BY DEF Join
  <2> HIDE DEF h
  <2>6. h[0] = <<>> /\ h = [i \in 0..k |-> h[i]]
    BY <2>1, <2>4
  <2>7. \A i \in 1..k : h[i] = h[i - 1] \o (IF i > 1 THEN glue ELSE <<>>) \o parts[i]
    BY <2>1, <2>4
  <2>8. \A i \in 1..k : h[i - 1] \in Bytes => h[i] = next[i][h[i - 1]]
    BY <1>2, <2>1, <2>7
  <2>9. Follows(h, k, Bytes, <<>>, next)
    <3>1. \A i \in 1..k : \A x \in Bytes : next[i][x] \in Bytes
      BY <1>3, <2>1
    <3> QED
      BY <1>1, <2>1, <2>6, <2>8, <3>1, Following
  <2> QED
    BY <2>5, <2>9
<1>5. PICK u : Follows(u, n, Bytes, <<>>, next) /\ Join(glue, parts, n) = u[n]
  <2>1. n \in 0..n
    OBVIOUS
  <2> QED
    BY <1>4, <2>1
<1>6. u \in [0..n -> Bytes] /\ u[0] = <<>> /\ \A i \in 1..n : u[i] = next[i][u[i - 1]]
  BY <1>5 DEF Follows
<1>7. ASSUME n > 0
      PROVE  /\ Join(glue, parts, n - 1) \in Bytes
             /\ Join(glue, parts, n) = Join(glue, parts, n - 1) \o (IF n > 1 THEN glue ELSE <<>>) \o parts[n]
  <2>1. n - 1 \in 0..n /\ n - 1 \in Nat /\ n - 1 <= n /\ n \in 1..n /\ n - 1 \in 0..(n - 1)
    BY <1>7
  <2>2. PICK q : Follows(q, n - 1, Bytes, <<>>, next) /\ Join(glue, parts, n - 1) = q[n - 1]
    BY <1>4, <2>1
  <2>3. \A i \in 0..(n - 1) : q[i] = u[i]
    <3>1. \A i \in 1..(n - 1) : next[i] = next[i]
      OBVIOUS
    <3> QED
      BY <1>5, <2>1, <2>2, <3>1, FollowsOne
  <2>4. q[n - 1] = u[n - 1] /\ u[n - 1] \in Bytes
    BY <1>6, <2>1, <2>3
  <2>5. u[n] = next[n][u[n - 1]]
    BY <1>6, <2>1
  <2>6. Join(glue, parts, n - 1) = u[n - 1]
    BY <2>2, <2>4
  <2>7. Join(glue, parts, n) = next[n][u[n - 1]]
    BY <1>5, <2>5
  <2>8. next[n][u[n - 1]] = u[n - 1] \o (IF n > 1 THEN glue ELSE <<>>) \o parts[n]
    BY <1>2, <2>1, <2>4
  <2> QED
    BY <2>4, <2>6, <2>7, <2>8
<1>8. Join(glue, parts, n) \in Bytes /\ (n = 0 => Join(glue, parts, n) = <<>>)
  BY <1>5, <1>6
<1> QED
  BY <1>7, <1>8

\* The blobs added to a heap, one after the other.
LEMMA AddBlobsIs ==
    ASSUME NEW n \in Nat, NEW heap \in Bytes, NEW blobs, \A i \in 1..n : blobs[i] \in Bytes
    PROVE  /\ AddBlobs(heap, blobs, n) \in Bytes
           /\ n = 0 => AddBlobs(heap, blobs, n) = heap
           /\ n > 0 => /\ AddBlobs(heap, blobs, n - 1) \in Bytes
                       /\ AddBlobs(heap, blobs, n) = AddBlob(AddBlobs(heap, blobs, n - 1), blobs[n])
<1> DEFINE next == [i \in 1..n |-> [x \in Bytes |-> AddBlob(x, blobs[i])]]
           Up(k, u) == [i \in 0..k |-> IF i = 0 THEN heap ELSE AddBlob(u[i - 1], blobs[i])]
<1>1. heap \in Bytes /\ \A i \in 1..n : \A x \in Bytes : AddBlob(x, blobs[i]) \in Bytes
  BY AddBlobIs
<1>2. \A i \in 1..n : \A x \in Bytes : next[i][x] = AddBlob(x, blobs[i])
  OBVIOUS
<1>3. \A i \in 1..n : \A x \in Bytes : next[i][x] \in Bytes
  BY <1>1, <1>2
<1> HIDE DEF next
<1>4. ASSUME NEW k \in 0..n
      PROVE  \E u : Follows(u, k, Bytes, heap, next) /\ AddBlobs(heap, blobs, k) = u[k]
  <2>1. k \in Nat /\ \A i \in 1..k : i \in 1..n /\ i - 1 \in 0..k /\ i \in 0..k /\ i # 0
    OBVIOUS
  <2>2. PICK r : Follows(r, k, Bytes, heap, next)
    <3>1. \A i \in 1..k : \A x \in Bytes : next[i][x] \in Bytes
      BY <1>3, <2>1
    <3> QED
      BY <1>1, <2>1, <3>1, Recursion
  <2> DEFINE h == CHOOSE u : u = Up(k, u)
  <2>3. r = Up(k, r)
    <3>1. r \in [0..k -> Bytes] /\ r[0] = heap /\ \A i \in 1..k : r[i] = next[i][r[i - 1]]
      BY <2>2 DEF Follows
    <3>2. ASSUME NEW i \in 0..k PROVE r[i] = Up(k, r)[i]
      <4>1. CASE i = 0
        BY <3>1, <4>1
      <4>2. CASE i # 0
        <5>1. i \in 1..k /\ i \in 1..n /\ i - 1 \in 0..k
          BY <4>2
        <5>2. r[i - 1] \in Bytes /\ r[i] = next[i][r[i - 1]]
          BY <3>1, <5>1
        <5>3. r[i] = AddBlob(r[i - 1], blobs[i])
          BY <1>2, <5>1, <5>2
        <5> QED
          BY <4>2, <5>3
      <4> QED
        BY <4>1, <4>2
    <3> QED
      BY <3>1, <3>2
  <2>4. h = Up(k, h)
    <3> HIDE DEF Up
    <3> QED
      BY <2>3
  <2>5. AddBlobs(heap, blobs, k) = h[k]
    BY DEF AddBlobs
  <2> HIDE DEF h
  <2>6. h[0] = heap /\ h = [i \in 0..k |-> h[i]]
    BY <2>1, <2>4
  <2>7. \A i \in 1..k : h[i] = AddBlob(h[i - 1], blobs[i])
    BY <2>1, <2>4
  <2>8. \A i \in 1..k : h[i - 1] \in Bytes => h[i] = next[i][h[i - 1]]
    BY <1>2, <2>1, <2>7
  <2>9. Follows(h, k, Bytes, heap, next)
    <3>1. \A i \in 1..k : \A x \in Bytes : next[i][x] \in Bytes
      BY <1>3, <2>1
    <3> QED
      BY <1>1, <2>1, <2>6, <2>8, <3>1, Following
  <2> QED
    BY <2>5, <2>9
<1>5. PICK u : Follows(u, n, Bytes, heap, next) /\ AddBlobs(heap, blobs, n) = u[n]
  <2>1. n \in 0..n
    OBVIOUS
  <2> QED
    BY <1>4, <2>1
<1>6. u \in [0..n -> Bytes] /\ u[0] = heap /\ \A i \in 1..n : u[i] = next[i][u[i - 1]]
  BY <1>5 DEF Follows
<1>7. ASSUME n > 0
      PROVE  /\ AddBlobs(heap, blobs, n - 1) \in Bytes
             /\ AddBlobs(heap, blobs, n) = AddBlob(AddBlobs(heap, blobs, n - 1), blobs[n])
  <2>1. n - 1 \in 0..n /\ n - 1 \in Nat /\ n - 1 <= n /\ n \in 1..n /\ n - 1 \in 0..(n - 1)
    BY <1>7
  <2>2. PICK q : Follows(q, n - 1, Bytes, heap, next) /\ AddBlobs(heap, blobs, n - 1) = q[n - 1]
    BY <1>4, <2>1
  <2>3. \A i \in 0..(n - 1) : q[i] = u[i]
    <3>1. \A i \in 1..(n - 1) : next[i] = next[i]
      OBVIOUS
    <3> QED
      BY <1>5, <2>1, <2>2, <3>1, FollowsOne
  <2>4. q[n - 1] = u[n - 1] /\ u[n - 1] \in Bytes
    BY <1>6, <2>1, <2>3
  <2>5. u[n] = next[n][u[n - 1]]
    BY <1>6, <2>1
  <2>6. AddBlobs(heap, blobs, n - 1) = u[n - 1]
    BY <2>2, <2>4
  <2>7. AddBlobs(heap, blobs, n) = next[n][u[n - 1]]
    BY <1>5, <2>5
  <2>8. next[n][u[n - 1]] = AddBlob(u[n - 1], blobs[n])
    BY <1>2, <2>1, <2>4
  <2> QED
    BY <2>4, <2>6, <2>7, <2>8
<1>8. AddBlobs(heap, blobs, n) \in Bytes /\ (n = 0 => AddBlobs(heap, blobs, n) = heap)
  BY <1>5, <1>6
<1> QED
  BY <1>7, <1>8

\* A sequence is one of whatever all its elements are.
LEMMA SeqOfElements ==
    ASSUME NEW S, NEW T, NEW s \in Seq(S), \A i \in 1..Len(s) : s[i] \in T
    PROVE  s \in Seq(T)
<1>1. Len(s) \in Nat /\ s = [i \in 1..Len(s) |-> s[i]]
  OBVIOUS
<1> QED
  BY <1>1

\* A function on 1..n is a sequence.
LEMMA SeqOfFunction ==
    ASSUME NEW T, NEW n \in Nat, NEW s, s = [i \in 1..n |-> s[i]], \A i \in 1..n : s[i] \in T
    PROVE  s \in Seq(T) /\ Len(s) = n
<1>1. s \in [1..n -> T]
  OBVIOUS
<1> QED
  BY <1>1

\* A segment has a byte, and neither slash nor backslash.
LEMMA SegmentIs ==
    ASSUME NEW s \in Segment
    PROVE  s \in Bytes /\ Len(s) >= 1 /\ \A i \in 1..Len(s) : s[i] \in Byte \ {Slash, Backslash}
<1>1. s \in Seq(Byte \ {Slash, Backslash}) /\ s # <<>>
  BY DEF Segment
<1>2. Len(s) \in Nat /\ \A i \in 1..Len(s) : s[i] \in Byte \ {Slash, Backslash}
  BY <1>1
<1>b. \A b \in Byte : b \in Nat
  BY DEF Byte
<1>3. \A i \in 1..Len(s) : s[i] \in Nat
  BY <1>2, <1>b
<1>4. s \in Bytes
  BY <1>1, <1>3, SeqOfElements DEF Bytes
<1>5. Len(s) # 0
  BY <1>1, EmptySeq
<1> QED
  BY <1>2, <1>4, <1>5

\* Before the segments there is an empty part for each root.
LEMMA RootedIs ==
    ASSUME NEW d \in Doc
    PROVE  /\ d.roots \in Nat /\ Len(d.segments) \in Nat \ {0} /\ d.segments \in Seq(Segment)
           /\ \A i \in 1..Len(d.segments) : d.segments[i] \in Segment /\ d.segments[i] \in Bytes
           /\ Rooted(d) \in Seq(Bytes) /\ Len(Rooted(d)) = d.roots + Len(d.segments)
           /\ \A i \in 1..d.roots : Rooted(d)[i] = <<>>
           /\ \A i \in 1..Len(d.segments) : Rooted(d)[d.roots + i] = d.segments[i]
           /\ \A i \in 1..Len(Rooted(d)) : Rooted(d)[i] \in Bytes
<1>1. d.segments \in Seq(Segment) /\ d.segments # <<>> /\ d.roots \in Nat
  BY DEF Doc
<1>2. PICK a \in Nat, b \in Nat : a = d.roots /\ b = Len(d.segments)
  BY <1>1
<1>3. b # 0
  BY <1>1, <1>2, EmptySeq
<1>4. \A i \in 1..b : d.segments[i] \in Segment
  BY <1>1, <1>2
<1>5. \A i \in 1..b : d.segments[i] \in Bytes
  BY <1>4, SegmentIs
<1> DEFINE r == [i \in 1..a |-> <<>>]
<1>6. r \in Seq(Bytes) /\ Len(r) = a /\ \A i \in 1..a : r[i] = <<>>
  <2>1. r = [i \in 1..a |-> r[i]] /\ \A i \in 1..a : r[i] = <<>>
    BY <1>2
  <2>2. <<>> \in Bytes
    BY DEF Bytes
  <2> HIDE DEF r
  <2> QED
    BY <2>1, <2>2, SeqOfFunction
<1>7. d.segments \in Seq(Bytes)
  BY <1>1, <1>2, <1>5, SeqOfElements
<1> HIDE DEF r
<1>8. /\ r \o d.segments \in Seq(Bytes) /\ Len(r \o d.segments) = a + b
      /\ \A i \in 1..(a + b) : (r \o d.segments)[i] = IF i <= a THEN r[i] ELSE d.segments[i - a]
  <2>1. PICK q \in Seq(Bytes) : q = d.segments /\ Len(q) = b
    BY <1>2, <1>7
  <2>2. /\ r \o q \in Seq(Bytes) /\ Len(r \o q) = a + b
        /\ \A i \in 1..(a + b) : (r \o q)[i] = IF i <= a THEN r[i] ELSE q[i - a]
    BY <1>6, <2>1
  <2> QED
    BY <2>1, <2>2
<1>9. Rooted(d) = r \o d.segments
  BY <1>2 DEF Rooted, r
<1>10. \A i \in 1..a : Rooted(d)[i] = <<>>
  BY <1>6, <1>8, <1>9
<1>11. \A i \in 1..b : Rooted(d)[a + i] = d.segments[i]
  <2> TAKE i \in 1..b
  <2>1. a + i \in 1..(a + b) /\ ~(a + i <= a) /\ (a + i) - a = i
    OBVIOUS
  <2> QED
    BY <1>8, <1>9, <2>1
<1>12. Len(Rooted(d)) = a + b /\ \A i \in 1..(a + b) : Rooted(d)[i] \in Bytes
  BY <1>8, <1>9
<1> QED
  BY <1>1, <1>2, <1>3, <1>4, <1>5, <1>8, <1>9, <1>10, <1>11, <1>12

\* The parts of a name.
LEMMA PartsAre ==
    ASSUME NEW d \in Doc
    PROVE  /\ Len(Parts(d)) \in Nat \ {0} /\ DOMAIN Parts(d) = 1..Len(Parts(d))
           /\ \A i \in 1..Len(Parts(d)) : Parts(d)[i] \in Bytes
           /\ Separator(d) \in {Slash, Backslash, 0}
<1>1. PICK n \in Nat : n = Len(Rooted(d)) /\ n # 0
  BY RootedIs
<1>2. \A i \in 1..n : Rooted(d)[i] \in Bytes
  BY <1>1, RootedIs
<1>3. CASE d.encoding = "path"
  <2>1. Joined(Rooted(d)) \in Bytes
    <3>1. <<Slash>> \in Bytes
      BY DEF Slash, Bytes
    <3> QED
      BY <1>1, <1>2, <3>1, JoinIs DEF Joined
  <2>2. Parts(d) = <<Joined(Rooted(d))>>
    BY <1>3 DEF Parts
  <2> QED
    BY <1>3, <2>1, <2>2 DEF Separator
<1>4. CASE d.encoding # "path"
  <2>1. Parts(d) = Rooted(d)
    BY <1>4 DEF Parts
  <2>2. DOMAIN Rooted(d) = 1..n
    BY <1>1, RootedIs
  <2>3. d.encoding \in {"slash", "backslash"}
    BY <1>4 DEF Doc
  <2>4. Separator(d) \in {Slash, Backslash, 0}
    BY <2>3 DEF Separator
  <2> QED
    BY <1>1, <1>2, <2>1, <2>2, <2>4
<1> QED
  BY <1>3, <1>4

\* A heap goes on from itself.
LEMMA BeginsItself == ASSUME NEW h \in Bytes PROVE Begins(h, h)
  BY DEF Begins, Bytes

\* A heap with blobs goes on from the one with fewer of them.
LEMMA AddBlobsBegin ==
    ASSUME NEW n \in Nat, NEW heap \in Bytes, NEW blobs, \A i \in 1..n : blobs[i] \in Bytes
    PROVE  /\ \A k \in 0..n : /\ AddBlobs(heap, blobs, k) \in Bytes
                              /\ Begins(AddBlobs(heap, blobs, k), AddBlobs(heap, blobs, n))
           /\ AddBlobs(heap, blobs, 0) = heap
<1> DEFINE H(k) == AddBlobs(heap, blobs, k)
<1>1. \A k \in 0..n : H(k) \in Bytes /\ (k = 0 => H(k) = heap)
                      /\ (k > 0 => H(k - 1) \in Bytes /\ H(k) = AddBlob(H(k - 1), blobs[k]))
  BY AddBlobsIs
<1> HIDE DEF H
<1> DEFINE N == {m \in 0..n : \A k \in 0..m : Begins(H(k), H(m))}
<1>2. 0 \in N
  <2>1. \A k \in 0..0 : k = 0
    OBVIOUS
  <2>2. Begins(H(0), H(0))
    BY <1>1, BeginsItself
  <2> QED
    BY <2>1, <2>2
<1>3. ASSUME NEW m \in 1..n, m - 1 \in N PROVE m \in N
  <2>1. m - 1 \in 0..n /\ m \in 0..n /\ m > 0
    OBVIOUS
  <2>2. H(m - 1) \in Bytes /\ H(m) \in Bytes /\ Begins(H(m - 1), H(m)) /\ Begins(H(m), H(m))
    BY <1>1, <2>1, AddBlobIs, BeginsItself
  <2>3. ASSUME NEW k \in 0..m PROVE Begins(H(k), H(m))
    <3>1. CASE k = m
      BY <2>2, <3>1
    <3>2. CASE k # m
      <4>1. k \in 0..(m - 1) /\ k \in 0..n
        BY <3>2
      <4>2. Begins(H(k), H(m - 1)) /\ H(k) \in Bytes
        BY <1>1, <1>3, <4>1
      <4> QED
        BY <2>2, <4>2, BeginsOn
    <3> QED
      BY <3>1, <3>2
  <2> QED
    BY <2>1, <2>3
<1> HIDE DEF N
<1>4. \A m \in 0..n : m \in N
  BY <1>2, <1>3, Induction
<1>5. n \in N /\ 0 \in 0..n
  BY <1>4
<1>6. \A k \in 0..n : Begins(H(k), H(n))
  BY <1>5 DEF N
<1> QED
  BY <1>1, <1>5, <1>6 DEF H

\* Each blob is where the reference to it leads.
LEMMA BlobsAre ==
    ASSUME NEW n \in Nat, NEW heap \in Bytes, NEW blobs, \A i \in 1..n : blobs[i] \in Bytes,
           NEW i \in 1..n
    PROVE  /\ CompressedUint(Len(blobs[i])) \o blobs[i] \in Bytes
           /\ RefTo(heap, blobs, i) \in Nat
           /\ Holds(AddBlobs(heap, blobs, n), RefTo(heap, blobs, i),
                    CompressedUint(Len(blobs[i])) \o blobs[i])
<1> DEFINE H(k) == AddBlobs(heap, blobs, k)
           s == CompressedUint(Len(blobs[i])) \o blobs[i]
<1>1. i \in Nat /\ i > 0 /\ i \in 0..n /\ i - 1 \in 0..n /\ n \in 0..n /\ \A k \in 1..i : k \in 1..n
  OBVIOUS
<1>2. H(i - 1) \in Bytes /\ H(i) = AddBlob(H(i - 1), blobs[i])
  BY <1>1, AddBlobsIs
<1>3. H(i) \in Bytes /\ H(n) \in Bytes /\ Begins(H(i), H(n))
  BY <1>1, AddBlobsBegin
<1>4. s \in Bytes /\ Holds(H(i), Len(H(i - 1)), s)
  BY <1>2, AddBlobIs
<1>5. Len(H(i - 1)) \in Nat /\ RefTo(heap, blobs, i) = Len(H(i - 1))
  BY <1>2 DEF RefTo, Bytes
<1> HIDE DEF H, s
<1>6. Holds(H(n), Len(H(i - 1)), s)
  BY <1>3, <1>4, HoldsOn
<1> QED
  BY <1>4, <1>5, <1>6 DEF H, s

\* The blob of a name.
LEMMA NameBlobIs ==
    ASSUME NEW heap \in Bytes, NEW d \in Doc
    PROVE  /\ NameBlob(heap, d) \in Bytes
           /\ \A i \in 1..Len(Parts(d)) :
                  /\ RefTo(heap, Parts(d), i) \in Nat
                  /\ Refs(heap, d)[i] = CompressedUint(RefTo(heap, Parts(d), i))
                  /\ Refs(heap, d)[i] \in Bytes
           /\ Join(<<>>, Refs(heap, d), Len(Parts(d))) \in Bytes
           /\ <<Separator(d)>> \in Bytes
<1>1. PICK n \in Nat : n = Len(Parts(d)) /\ DOMAIN Parts(d) = 1..n
  BY PartsAre
<1>2. \A i \in 1..n : RefTo(heap, Parts(d), i) \in Nat
  BY <1>1, PartsAre, BlobsAre
<1>3. \A i \in 1..n : /\ Refs(heap, d)[i] = CompressedUint(RefTo(heap, Parts(d), i))
                      /\ Refs(heap, d)[i] \in Bytes
  BY <1>1, <1>2, CompressedIs DEF Refs
<1>4. <<>> \in Bytes /\ <<Separator(d)>> \in Bytes
  BY PartsAre DEF Bytes, Slash, Backslash
<1>5. Join(<<>>, Refs(heap, d), n) \in Bytes
  BY <1>3, <1>4, JoinIs
<1>6. NameBlob(heap, d) \in Bytes
  BY <1>1, <1>4, <1>5 DEF NameBlob, Bytes
<1> QED
  BY <1>1, <1>2, <1>3, <1>4, <1>5, <1>6

\* A heap with a name more.
LEMMA WithNameIs ==
    ASSUME NEW heap \in Bytes, NEW d \in Doc
    PROVE  /\ WithParts(heap, d) \in Bytes /\ WithName(heap, d) \in Bytes
           /\ Begins(heap, WithName(heap, d))
           /\ CompressedUint(Len(NameBlob(heap, d))) \o NameBlob(heap, d) \in Bytes
           /\ Holds(WithName(heap, d), Len(WithParts(heap, d)),
                    CompressedUint(Len(NameBlob(heap, d))) \o NameBlob(heap, d))
           /\ \A i \in 1..Len(Parts(d)) :
                  /\ CompressedUint(Len(Parts(d)[i])) \o Parts(d)[i] \in Bytes
                  /\ Holds(WithName(heap, d), RefTo(heap, Parts(d), i),
                           CompressedUint(Len(Parts(d)[i])) \o Parts(d)[i])
<1>1. PICK n \in Nat : n = Len(Parts(d))
  BY PartsAre
<1>2. \A i \in 1..n : Parts(d)[i] \in Bytes
  BY <1>1, PartsAre
<1>3. 0 \in 0..n /\ n \in 0..n
  OBVIOUS
<1>4. WithParts(heap, d) \in Bytes /\ Begins(heap, WithParts(heap, d))
  BY <1>1, <1>2, <1>3, AddBlobsBegin DEF WithParts
<1>5. /\ WithName(heap, d) \in Bytes /\ Begins(WithParts(heap, d), WithName(heap, d))
      /\ CompressedUint(Len(NameBlob(heap, d))) \o NameBlob(heap, d) \in Bytes
      /\ Holds(WithName(heap, d), Len(WithParts(heap, d)),
               CompressedUint(Len(NameBlob(heap, d))) \o NameBlob(heap, d))
  BY <1>4, NameBlobIs, AddBlobIs DEF WithName
<1>6. Begins(heap, WithName(heap, d))
  BY <1>4, <1>5, BeginsOn
<1>7. ASSUME NEW i \in 1..n
      PROVE  /\ CompressedUint(Len(Parts(d)[i])) \o Parts(d)[i] \in Bytes
             /\ Holds(WithName(heap, d), RefTo(heap, Parts(d), i),
                      CompressedUint(Len(Parts(d)[i])) \o Parts(d)[i])
  <2>1. PICK s \in Bytes : s = CompressedUint(Len(Parts(d)[i])) \o Parts(d)[i]
    BY <1>2, BlobsAre
  <2>2. Holds(WithParts(heap, d), RefTo(heap, Parts(d), i), s)
    BY <1>1, <1>2, <2>1, BlobsAre DEF WithParts
  <2>3. Holds(WithName(heap, d), RefTo(heap, Parts(d), i), s)
    BY <1>4, <1>5, <2>2, HoldsOn
  <2> QED
    BY <2>1, <2>3
<1> QED
  BY <1>1, <1>4, <1>5, <1>6, <1>7

\* The heap before the names.
Filled(file) == AddBlob(<<0>>, [i \in 1..file.filler |-> 0])

\* A file has one.
LEMMA FilledIs == ASSUME NEW file, file.filler \in Nat PROVE Filled(file) \in Bytes
<1>1. <<0>> \in Bytes
  BY DEF Bytes
<1> DEFINE r == [i \in 1..file.filler |-> 0]
<1>2. r = [i \in 1..file.filler |-> r[i]] /\ \A i \in 1..file.filler : r[i] \in Nat
  OBVIOUS
<1> HIDE DEF r
<1>3. r \in Bytes
  BY <1>2, SeqOfFunction DEF Bytes
<1> QED
  BY <1>1, <1>3, AddBlobIs DEF Filled, r

\* The names added to a heap, one after the other.
LEMMA WithNamesIs ==
    ASSUME NEW n \in Nat, NEW file, file.filler \in Nat, \A i \in 1..n : file.docs[i] \in Doc
    PROVE  /\ WithNames(file, n) \in Bytes
           /\ n = 0 => WithNames(file, n) = Filled(file)
           /\ n > 0 => /\ WithNames(file, n - 1) \in Bytes
                       /\ WithNames(file, n) = WithName(WithNames(file, n - 1), file.docs[n])
<1> DEFINE next == [i \in 1..n |-> [x \in Bytes |-> WithName(x, file.docs[i])]]
           Up(k, u) == [i \in 0..k |-> IF i = 0 THEN Filled(file) ELSE WithName(u[i - 1], file.docs[i])]
<1>1. Filled(file) \in Bytes /\ \A i \in 1..n : \A x \in Bytes : WithName(x, file.docs[i]) \in Bytes
  BY FilledIs, WithNameIs
<1>2. \A i \in 1..n : \A x \in Bytes : next[i][x] = WithName(x, file.docs[i])
  OBVIOUS
<1>3. \A i \in 1..n : \A x \in Bytes : next[i][x] \in Bytes
  BY <1>1, <1>2
<1> HIDE DEF next
<1>4. ASSUME NEW k \in 0..n
      PROVE  \E u : Follows(u, k, Bytes, Filled(file), next) /\ WithNames(file, k) = u[k]
  <2>1. k \in Nat /\ \A i \in 1..k : i \in 1..n /\ i - 1 \in 0..k /\ i \in 0..k /\ i # 0
    OBVIOUS
  <2>2. PICK r : Follows(r, k, Bytes, Filled(file), next)
    <3>1. \A i \in 1..k : \A x \in Bytes : next[i][x] \in Bytes
      BY <1>3, <2>1
    <3> QED
      BY <1>1, <2>1, <3>1, Recursion
  <2> DEFINE h == CHOOSE u : u = Up(k, u)
  <2>3. r = Up(k, r)
    <3>1. r \in [0..k -> Bytes] /\ r[0] = Filled(file) /\ \A i \in 1..k : r[i] = next[i][r[i - 1]]
      BY <2>2 DEF Follows
    <3>2. ASSUME NEW i \in 0..k PROVE r[i] = Up(k, r)[i]
      <4>1. CASE i = 0
        BY <3>1, <4>1
      <4>2. CASE i # 0
        <5>1. i \in 1..k /\ i \in 1..n /\ i - 1 \in 0..k
          BY <4>2
        <5>2. r[i - 1] \in Bytes /\ r[i] = next[i][r[i - 1]]
          BY <3>1, <5>1
        <5>3. r[i] = WithName(r[i - 1], file.docs[i])
          BY <1>2, <5>1, <5>2
        <5> QED
          BY <4>2, <5>3
      <4> QED
        BY <4>1, <4>2
    <3> QED
      BY <3>1, <3>2
  <2>4. h = Up(k, h)
    <3> HIDE DEF Up
    <3> QED
      BY <2>3
  <2>5. WithNames(file, k) = h[k]
    BY DEF WithNames, Filled
  <2> HIDE DEF h
  <2>6. h[0] = Filled(file) /\ h = [i \in 0..k |-> h[i]]
    BY <2>1, <2>4
  <2>7. \A i \in 1..k : h[i] = WithName(h[i - 1], file.docs[i])
    BY <2>1, <2>4
  <2>8. \A i \in 1..k : h[i - 1] \in Bytes => h[i] = next[i][h[i - 1]]
    BY <1>2, <2>1, <2>7
  <2>9. Follows(h, k, Bytes, Filled(file), next)
    <3>1. \A i \in 1..k : \A x \in Bytes : next[i][x] \in Bytes
      BY <1>3, <2>1
    <3> QED
      BY <1>1, <2>1, <2>6, <2>8, <3>1, Following
  <2> QED
    BY <2>5, <2>9
<1>5. PICK u : Follows(u, n, Bytes, Filled(file), next) /\ WithNames(file, n) = u[n]
  <2>1. n \in 0..n
    OBVIOUS
  <2> QED
    BY <1>4, <2>1
<1>6. u \in [0..n -> Bytes] /\ u[0] = Filled(file) /\ \A i \in 1..n : u[i] = next[i][u[i - 1]]
  BY <1>5 DEF Follows
<1>7. ASSUME n > 0
      PROVE  /\ WithNames(file, n - 1) \in Bytes
             /\ WithNames(file, n) = WithName(WithNames(file, n - 1), file.docs[n])
  <2>1. n - 1 \in 0..n /\ n - 1 \in Nat /\ n - 1 <= n /\ n \in 1..n /\ n - 1 \in 0..(n - 1)
    BY <1>7
  <2>2. PICK q : Follows(q, n - 1, Bytes, Filled(file), next) /\ WithNames(file, n - 1) = q[n - 1]
    BY <1>4, <2>1
  <2>3. \A i \in 0..(n - 1) : q[i] = u[i]
    <3>1. \A i \in 1..(n - 1) : next[i] = next[i]
      OBVIOUS
    <3> QED
      BY <1>5, <2>1, <2>2, <3>1, FollowsOne
  <2>4. q[n - 1] = u[n - 1] /\ u[n - 1] \in Bytes
    BY <1>6, <2>1, <2>3
  <2>5. u[n] = next[n][u[n - 1]]
    BY <1>6, <2>1
  <2>6. WithNames(file, n - 1) = u[n - 1]
    BY <2>2, <2>4
  <2>7. WithNames(file, n) = next[n][u[n - 1]]
    BY <1>5, <2>5
  <2>8. next[n][u[n - 1]] = WithName(u[n - 1], file.docs[n])
    BY <1>2, <2>1, <2>4
  <2> QED
    BY <2>4, <2>6, <2>7, <2>8
<1>8. WithNames(file, n) \in Bytes /\ (n = 0 => WithNames(file, n) = Filled(file))
  BY <1>5, <1>6
<1> QED
  BY <1>7, <1>8

\* The heap with the first names goes on from the one with fewer of them.
LEMMA NamesBegin ==
    ASSUME NEW n \in Nat, NEW file, file.filler \in Nat, \A i \in 1..n : file.docs[i] \in Doc
    PROVE  \A k \in 0..n : WithNames(file, k) \in Bytes /\ Begins(WithNames(file, k), WithNames(file, n))
<1> DEFINE H(k) == WithNames(file, k)
<1>1. \A k \in 0..n : H(k) \in Bytes /\ (k > 0 => H(k - 1) \in Bytes /\ H(k) = WithName(H(k - 1), file.docs[k]))
  <2> TAKE k \in 0..n
  <2>1. k \in Nat /\ \A i \in 1..k : file.docs[i] \in Doc
    OBVIOUS
  <2> QED
    BY <2>1, WithNamesIs
<1> HIDE DEF H
<1> DEFINE N == {m \in 0..n : \A k \in 0..m : Begins(H(k), H(m))}
<1>2. 0 \in N
  <2>1. \A k \in 0..0 : k = 0
    OBVIOUS
  <2>2. Begins(H(0), H(0))
    BY <1>1, BeginsItself
  <2> QED
    BY <2>1, <2>2
<1>3. ASSUME NEW m \in 1..n, m - 1 \in N PROVE m \in N
  <2>1. m - 1 \in 0..n /\ m \in 0..n /\ m > 0
    OBVIOUS
  <2>2. H(m - 1) \in Bytes /\ H(m) \in Bytes /\ Begins(H(m - 1), H(m)) /\ Begins(H(m), H(m))
    BY <1>1, <2>1, WithNameIs, BeginsItself
  <2>3. ASSUME NEW k \in 0..m PROVE Begins(H(k), H(m))
    <3>1. CASE k = m
      BY <2>2, <3>1
    <3>2. CASE k # m
      <4>1. k \in 0..(m - 1) /\ k \in 0..n
        BY <3>2
      <4>2. Begins(H(k), H(m - 1)) /\ H(k) \in Bytes
        BY <1>1, <1>3, <4>1
      <4> QED
        BY <2>2, <4>2, BeginsOn
    <3> QED
      BY <3>1, <3>2
  <2> QED
    BY <2>1, <2>3
<1> HIDE DEF N
<1>4. \A m \in 0..n : m \in N
  BY <1>2, <1>3, Induction
<1>5. n \in N
  BY <1>4
<1> QED
  BY <1>1, <1>5 DEF N, H

\* A stream is its contents between the marks; one of its bytes may be bad.
LEMMA DeflateIs ==
    ASSUME NEW s \in Seq(Byte)
    PROVE  /\ Deflate(s) \in Bytes /\ Len(Deflate(s)) = Len(s) + 2
           /\ Deflate(s)[1] = StreamStart /\ Deflate(s)[Len(s) + 2] = StreamEnd
           /\ \A i \in 1..Len(s) : Deflate(s)[i + 1] = s[i]
           /\ [Deflate(s) EXCEPT ![2] = Corrupt] \in Bytes
<1>1. PICK n \in Nat : n = Len(s)
  OBVIOUS
<1>2. \A i \in 1..n : s[i] \in Nat
  <2>1. \A b \in Byte : b \in Nat
    BY DEF Byte
  <2> QED
    BY <1>1, <2>1
<1>3. s \in Seq(Nat)
  BY <1>1, <1>2, SeqOfElements
<1>4. <<StreamStart>> \in Seq(Nat) /\ <<StreamEnd>> \in Seq(Nat) /\ Corrupt \in Nat
  BY DEF StreamStart, StreamEnd, Corrupt
<1>5. PICK first \in Seq(Nat), last \in Seq(Nat) : first = <<StreamStart>> /\ last = <<StreamEnd>>
  BY <1>4
<1>e. Len(first) = 1 /\ first[1] = StreamStart /\ Len(last) = 1 /\ last[1] = StreamEnd
  BY <1>5
<1> DEFINE t == first \o s
<1>6. t \in Seq(Nat) /\ Len(t) = n + 1 /\ t[1] = StreamStart /\ \A i \in 1..n : t[i + 1] = s[i]
  <2>1. /\ t \in Seq(Nat) /\ Len(t) = 1 + n
        /\ \A i \in 1..(1 + n) : t[i] = IF i <= 1 THEN first[i] ELSE s[i - 1]
    BY <1>1, <1>3, <1>5, <1>e
  <2>2. \A i \in 1..n : i + 1 \in 1..(1 + n) /\ ~(i + 1 <= 1) /\ (i + 1) - 1 = i
    OBVIOUS
  <2>3. \A i \in 1..n : t[i + 1] = s[i]
    BY <2>1, <2>2
  <2>4. t[1] = StreamStart
    <3>1. 1 \in 1..(1 + n) /\ 1 <= 1
      OBVIOUS
    <3>2. t[1] = first[1]
      BY <2>1, <3>1
    <3> QED
      BY <1>e, <3>2
  <2> QED
    BY <2>1, <2>3, <2>4
<1> HIDE DEF t
<1> DEFINE u == t \o last
<1>7. u \in Seq(Nat) /\ Len(u) = n + 2 /\ u[n + 2] = StreamEnd /\ \A i \in 1..(n + 1) : u[i] = t[i]
  <2>1. /\ u \in Seq(Nat) /\ Len(u) = (n + 1) + 1
        /\ \A i \in 1..(n + 2) : u[i] = IF i <= n + 1 THEN t[i] ELSE last[i - (n + 1)]
    BY <1>5, <1>6, <1>e
  <2>2. n + 2 \in 1..(n + 2) /\ ~(n + 2 <= n + 1) /\ (n + 2) - (n + 1) = 1
    OBVIOUS
  <2>3. \A i \in 1..(n + 1) : i \in 1..(n + 2) /\ i <= n + 1
    OBVIOUS
  <2> HIDE DEF u
  <2> QED
    BY <1>e, <2>1, <2>2, <2>3
<1> HIDE DEF u
<1>9. Deflate(s) = u
  BY <1>5 DEF Deflate, t, u
<1>10. \A i \in 1..n : u[i + 1] = s[i]
  <2>1. \A i \in 1..n : i + 1 \in 1..(n + 1)
    OBVIOUS
  <2> QED
    BY <1>6, <1>7, <2>1
<1>11. [u EXCEPT ![2] = Corrupt] \in Seq(Nat)
  BY <1>4, <1>7
<1> QED
  BY <1>1, <1>6, <1>7, <1>9, <1>10, <1>11 DEF Bytes

\* The blob of a source.
LEMMA SourceBlobParts ==
    ASSUME NEW info \in Info
    PROVE  LET head == [i \in 1..4 |-> (info.size \div 256^(i - 1)) % 256]
               rest == CASE info.size = 0 -> info.content
                         [] info.size # 0 /\ info.fault = "corrupt" ->
                                [Deflate(info.content) EXCEPT ![2] = Corrupt]
                         [] info.size # 0 /\ info.fault # "corrupt" -> Deflate(info.content)
           IN head \in Bytes /\ Len(head) = 4 /\ rest \in Bytes
<1>1. info.size \in Int /\ info.content \in Seq(Byte)
  <2>1. info.size \in Sizes /\ info.content \in Seq(Byte)
    BY DEF Info
  <2> QED
    BY <2>1 DEF Sizes
<1>2. info.content \in Bytes
  <2>1. \A b \in Byte : b \in Nat
    BY DEF Byte
  <2> QED
    BY <1>1, <2>1, SeqOfElements DEF Bytes
<1> DEFINE head == [i \in 1..4 |-> (info.size \div 256^(i - 1)) % 256]
           rest == CASE info.size = 0 -> info.content
                  [] info.size # 0 /\ info.fault = "corrupt" -> [Deflate(info.content) EXCEPT ![2] = Corrupt]
                  [] info.size # 0 /\ info.fault # "corrupt" -> Deflate(info.content)
<1>3. head \in Bytes /\ Len(head) = 4
  <2>1. \A i \in 1..4 : head[i] \in Nat
    <3>1. \A i \in 1..4 : 256^(i - 1) \in Int /\ 256^(i - 1) > 0
      <4>1. 256^(1 - 1) = 1 /\ 256^(2 - 1) = 256 /\ 256^(3 - 1) = 65536 /\ 256^(4 - 1) = 16777216
        OBVIOUS
      <4> TAKE i \in 1..4
      <4>2. CASE i = 1
        BY <4>1, <4>2
      <4>3. CASE i = 2
        BY <4>1, <4>3
      <4>4. CASE i = 3
        BY <4>1, <4>4
      <4>5. CASE i = 4
        BY <4>1, <4>5
      <4> QED
        BY <4>2, <4>3, <4>4, <4>5
    <3>2. \A k \in Int : k > 0 => (info.size \div k) % 256 \in Nat
      BY <1>1
    <3> TAKE i \in 1..4
    <3>3. PICK k \in Int : k = 256^(i - 1) /\ k > 0
      BY <3>1
    <3>4. head[i] = (info.size \div k) % 256
      BY <3>3, Zenon
    <3> QED
      BY <3>2, <3>3, <3>4
  <2>2. head = [i \in 1..4 |-> head[i]]
    OBVIOUS
  <2> HIDE DEF head
  <2> QED
    BY <2>1, <2>2, SeqOfFunction DEF Bytes
<1>4. rest \in Bytes
  <2>1. CASE info.size = 0
    BY <1>2, <2>1
  <2>2. CASE info.size # 0 /\ info.fault = "corrupt"
    BY <1>1, <2>2, DeflateIs
  <2>3. CASE info.size # 0 /\ info.fault # "corrupt"
    BY <1>1, <2>3, DeflateIs
  <2> QED
    BY <2>1, <2>2, <2>3
<1> QED
  BY <1>3, <1>4

\* It is made of bytes.
LEMMA SourceBlobIs ==
    ASSUME NEW info \in Info
    PROVE  SourceBlob(info) \in Bytes
<1> DEFINE head == [i \in 1..4 |-> (info.size \div 256^(i - 1)) % 256]
           rest == CASE info.size = 0 -> info.content
                     [] info.size # 0 /\ info.fault = "corrupt" ->
                            [Deflate(info.content) EXCEPT ![2] = Corrupt]
                     [] info.size # 0 /\ info.fault # "corrupt" -> Deflate(info.content)
<1>3. head \in Bytes /\ rest \in Bytes
  BY SourceBlobParts
<1>5. <<0, 0, 0>> \in Bytes
  BY DEF Bytes
<1>6. SourceBlob(info) = IF info.fault = "short" THEN <<0, 0, 0>> ELSE head \o rest
  BY DEF SourceBlob
<1> HIDE DEF head, rest
<1>7. head \o rest \in Bytes
  BY <1>3 DEF Bytes
<1> QED
  BY <1>5, <1>6, <1>7

\* Where the names and the blobs of a file are.
LEMMA HeapIs ==
    ASSUME NEW file, ContentsOK(file)
    PROVE  LET written == WrittenHeap(file)
               heap == written.blobHeap
           IN /\ heap \in Bytes
              /\ \A n \in 1..Len(file.docs) :
                     LET before == WithNames(file, n - 1)
                         parts == Parts(file.docs[n])
                         name == NameBlob(before, file.docs[n])
                     IN /\ file.docs[n] \in Doc /\ before \in Bytes
                        /\ written.names[n] \in Nat
                        /\ Holds(heap, written.names[n], CompressedUint(Len(name)) \o name)
                        /\ \A i \in 1..Len(parts) :
                               Holds(heap, RefTo(before, parts, i), CompressedUint(Len(parts[i])) \o parts[i])
              /\ \A i \in 1..Len(file.infos) :
                     LET blob == SourceBlob(file.infos[i])
                     IN /\ file.infos[i] \in Info /\ blob \in Bytes
                        /\ Holds(heap, written.values[i], CompressedUint(Len(blob)) \o blob)
<1>1. file.filler \in Nat /\ file.docs \in Seq(Doc) /\ file.infos \in Seq(Info)
  BY DEF ContentsOK
<1>2. PICK m \in Nat, k \in Nat : m = Len(file.docs) /\ k = Len(file.infos)
  BY <1>1
<1>3. /\ DOMAIN file.docs = 1..m /\ DOMAIN file.infos = 1..k
      /\ \A n \in 1..m : file.docs[n] \in Doc
      /\ \A i \in 1..k : file.infos[i] \in Info
  BY <1>1, <1>2
<1> DEFINE blobs == [i \in DOMAIN file.infos |-> SourceBlob(file.infos[i])]
<1>4. Len(blobs) = k /\ \A i \in 1..k : blobs[i] = SourceBlob(file.infos[i]) /\ blobs[i] \in Bytes
  <2>1. blobs = [i \in 1..k |-> blobs[i]] /\ \A i \in 1..k : blobs[i] = SourceBlob(file.infos[i])
    BY <1>3
  <2> HIDE DEF blobs
  <2>2. \A i \in 1..k : blobs[i] \in Bytes
    BY <1>3, <2>1, SourceBlobIs
  <2> QED
    BY <2>1, <2>2, SeqOfFunction
<1> DEFINE names == WithNames(file, m)
           heap == AddBlobs(names, blobs, k)
<1>5. /\ WrittenHeap(file).blobHeap = heap
      /\ \A n \in 1..m : WrittenHeap(file).names[n] = Len(WithParts(WithNames(file, n - 1), file.docs[n]))
      /\ \A i \in 1..k : WrittenHeap(file).values[i] = RefTo(names, blobs, i)
  <2> HIDE DEF names
  <2>1. WrittenHeap(file) =
            [blobHeap |-> AddBlobs(names, blobs, Len(blobs)),
             names |-> [n \in DOMAIN file.docs |-> Len(WithParts(WithNames(file, n - 1), file.docs[n]))],
             values |-> [i \in DOMAIN file.infos |-> RefTo(names, blobs, i)]]
    BY <1>2 DEF WrittenHeap, names
  <2> HIDE DEF blobs
  <2> QED
    BY <1>3, <1>4, <2>1
<1> HIDE DEF blobs
<1>6. \A n \in 0..m : WithNames(file, n) \in Bytes /\ Begins(WithNames(file, n), names)
  BY <1>1, <1>3, NamesBegin
<1>7. names \in Bytes
  <2>1. m \in 0..m
    OBVIOUS
  <2> QED
    BY <1>6, <2>1
<1> HIDE DEF names
<1>8. heap \in Bytes /\ Begins(names, heap)
  <2>1. 0 \in 0..k /\ k \in 0..k
    OBVIOUS
  <2> QED
    BY <1>4, <1>7, <2>1, AddBlobsBegin
<1>9. ASSUME NEW i \in 1..k
      PROVE  /\ SourceBlob(file.infos[i]) \in Bytes
             /\ Holds(heap, RefTo(names, blobs, i),
                      CompressedUint(Len(SourceBlob(file.infos[i]))) \o SourceBlob(file.infos[i]))
  <2>1. blobs[i] = SourceBlob(file.infos[i]) /\ blobs[i] \in Bytes
    BY <1>4
  <2>2. Holds(heap, RefTo(names, blobs, i), CompressedUint(Len(blobs[i])) \o blobs[i])
    BY <1>4, <1>7, BlobsAre
  <2> QED
    BY <2>1, <2>2
<1> HIDE DEF heap
<1>10. ASSUME NEW n \in 1..m
       PROVE  LET before == WithNames(file, n - 1)
                  parts == Parts(file.docs[n])
                  name == NameBlob(before, file.docs[n])
                  pos == Len(WithParts(before, file.docs[n]))
              IN /\ before \in Bytes /\ pos \in Nat
                 /\ Holds(heap, pos, CompressedUint(Len(name)) \o name)
                 /\ \A i \in 1..Len(parts) :
                        Holds(heap, RefTo(before, parts, i), CompressedUint(Len(parts[i])) \o parts[i])
  <2>1. n \in 0..m /\ n - 1 \in 0..m /\ n \in Nat /\ n > 0 /\ \A i \in 1..n : i \in 1..m
    OBVIOUS
  <2>2. PICK before \in Bytes, d \in Doc : before = WithNames(file, n - 1) /\ d = file.docs[n]
    BY <1>3, <1>6, <2>1
  <2>3. WithNames(file, n) = WithName(before, d)
    BY <1>1, <1>3, <2>1, <2>2, WithNamesIs
  <2>4. WithName(before, d) \in Bytes /\ Begins(WithName(before, d), heap)
    <3>1. WithName(before, d) \in Bytes /\ Begins(WithName(before, d), names)
      BY <1>6, <2>1, <2>3
    <3> QED
      BY <1>7, <1>8, <3>1, BeginsOn
  <2>5. PICK name \in Bytes : name = NameBlob(before, d)
    BY NameBlobIs
  <2>6. Holds(heap, Len(WithParts(before, d)), CompressedUint(Len(name)) \o name)
    <3>1. PICK s \in Bytes : s = CompressedUint(Len(name)) \o name
      BY <2>5, WithNameIs
    <3>2. Holds(WithName(before, d), Len(WithParts(before, d)), s)
      BY <2>5, <3>1, WithNameIs
    <3> QED
      BY <1>8, <2>4, <3>1, <3>2, HoldsOn
  <2>7. ASSUME NEW i \in 1..Len(Parts(d))
        PROVE  Holds(heap, RefTo(before, Parts(d), i), CompressedUint(Len(Parts(d)[i])) \o Parts(d)[i])
    <3>1. PICK s \in Bytes : s = CompressedUint(Len(Parts(d)[i])) \o Parts(d)[i]
      BY WithNameIs
    <3>2. Holds(WithName(before, d), RefTo(before, Parts(d), i), s)
      BY <3>1, WithNameIs
    <3> QED
      BY <1>8, <2>4, <3>1, <3>2, HoldsOn
  <2>8. Len(WithParts(before, d)) \in Nat
    BY <2>6 DEF Holds
  <2> QED
    BY <2>2, <2>5, <2>6, <2>7, <2>8
<1>12. \A n \in 1..m :
           LET before == WithNames(file, n - 1)
               parts == Parts(file.docs[n])
               name == NameBlob(before, file.docs[n])
           IN /\ file.docs[n] \in Doc /\ before \in Bytes
              /\ WrittenHeap(file).names[n] \in Nat
              /\ Holds(heap, WrittenHeap(file).names[n], CompressedUint(Len(name)) \o name)
              /\ \A i \in 1..Len(parts) :
                     Holds(heap, RefTo(before, parts, i), CompressedUint(Len(parts[i])) \o parts[i])
  BY <1>3, <1>5, <1>10
<1>13. \A i \in 1..k :
           LET blob == SourceBlob(file.infos[i])
           IN /\ file.infos[i] \in Info /\ blob \in Bytes
              /\ Holds(heap, WrittenHeap(file).values[i], CompressedUint(Len(blob)) \o blob)
  BY <1>3, <1>5, <1>9
<1>14. WrittenHeap(file).blobHeap = heap
  BY <1>5
<1> QED
  BY <1>2, <1>8, <1>12, <1>13, <1>14

-----------------------------------------------------------------------------
(* What is read of a heap.                                                *)

\* What a compressed integer can be.
Small == 0..(2^29 - 1)

\* The digits of a number of less than 32 bits.
LEMMA DigitsOf ==
    ASSUME NEW n \in Small
    PROVE  /\ n \div 2^24 \in 0..31
           /\ (n \div 2^24) * 2^24 + ((n \div 2^16) % 2^8) * 2^16 + ((n \div 2^8) % 2^8) * 2^8
                  + (n % 2^8) = n
<1>1. PICK a \in 0..255, b \in Nat : n = b * 256 + a
  <2>1. n % 256 \in 0..255 /\ n \div 256 \in Nat /\ n = (n \div 256) * 256 + (n % 256)
    BY DEF Small
  <2> QED
    BY <2>1
<1>2. PICK c \in 0..255, d \in Nat : b = d * 256 + c
  <2>1. b % 256 \in 0..255 /\ b \div 256 \in Nat /\ b = (b \div 256) * 256 + (b % 256)
    OBVIOUS
  <2> QED
    BY <2>1
<1>3. PICK e \in 0..255, g \in Nat : d = g * 256 + e
  <2>1. d % 256 \in 0..255 /\ d \div 256 \in Nat /\ d = (d \div 256) * 256 + (d % 256)
    OBVIOUS
  <2> QED
    BY <2>1
<1>4. 2^8 = 256 /\ 2^16 = 65536 /\ 2^24 = 16777216 /\ 2^29 = 536870912
  OBVIOUS
<1>5. n = g * 16777216 + e * 65536 + c * 256 + a
  BY <1>1, <1>2, <1>3
<1>6. n \div 256 = b /\ n % 256 = a
  BY <1>1
<1>7. n \div 65536 = d
  BY <1>1, <1>2
<1>8. n \div 16777216 = g /\ g <= 31
  BY <1>4, <1>5 DEF Small
<1>9. b % 256 = c /\ d % 256 = e
  BY <1>2, <1>3
<1> QED
  BY <1>3, <1>4, <1>5, <1>6, <1>7, <1>8, <1>9

\* A compressed integer says how long it is and what it stands for.
LEMMA CompressedRoundTrip ==
    ASSUME NEW n \in Small
    PROVE  LET c == CompressedUint(n)
           IN c \in Bytes /\ Len(c) \in 1..4 /\ CompressedLength(c[1]) = Len(c) /\ CompressedValue(c) = n
<1> DEFINE c == CompressedUint(n)
<1>1. c \in Bytes /\ Len(c) \in {1, 2, 4}
  BY CompressedIs DEF Small
<1>2. 2^7 = 128 /\ 2^8 = 256 /\ 2^14 = 16384
  OBVIOUS
<1>3. CASE n < 2^7
  <2>1. c = <<n>>
    BY <1>3 DEF CompressedUint
  <2>2. Len(c) = 1 /\ c[1] = n /\ n < 128 /\ n \in Nat
    BY <1>2, <1>3, <2>1 DEF Small
  <2> HIDE DEF c
  <2>3. CompressedLength(c[1]) = 1
    BY <2>2, SMT DEF CompressedLength
  <2>4. CompressedValue(c) = n
    BY <2>2, SMT DEF CompressedValue
  <2> QED
    BY <1>1, <2>2, <2>3, <2>4 DEF c
<1>4. CASE ~(n < 2^7) /\ n < 2^14
  <2>1. c = <<128 + (n \div 2^8), n % 2^8>>
    BY <1>4 DEF CompressedUint
  <2>2. Len(c) = 2 /\ c[1] = 128 + (n \div 256) /\ c[2] = n % 256
    BY <1>2, <2>1
  <2>3. n \div 256 \in 0..63 /\ (n \div 256) * 256 + (n % 256) = n
    BY <1>2, <1>4 DEF Small
  <2> HIDE DEF c
  <2>4. c[1] \in 128..191 /\ ~(c[1] < 128)
    BY <2>2, <2>3
  <2>5. CompressedLength(c[1]) = 2
    BY <2>4, SMT DEF CompressedLength
  <2>6. CompressedValue(c) = (c[1] - 128) * 2^8 + c[2]
    BY <2>2, SMT DEF CompressedValue
  <2>7. CompressedValue(c) = n
    BY <1>2, <2>2, <2>3, <2>6
  <2> QED
    BY <1>1, <2>2, <2>5, <2>7 DEF c
<1>5. CASE ~(n < 2^7) /\ ~(n < 2^14)
  <2>1. c = <<192 + (n \div 2^24), (n \div 2^16) % 2^8, (n \div 2^8) % 2^8, n % 2^8>>
    BY <1>5 DEF CompressedUint
  <2>2. /\ Len(c) = 4 /\ c[1] = 192 + (n \div 2^24) /\ c[2] = (n \div 2^16) % 2^8
        /\ c[3] = (n \div 2^8) % 2^8 /\ c[4] = n % 2^8
    BY <2>1
  <2>3. n \div 2^24 \in 0..31
    BY DigitsOf
  <2> HIDE DEF c
  <2>4. c[1] \in 192..223 /\ ~(c[1] < 128) /\ c[1] \notin 128..191 /\ c[1] - 192 = n \div 2^24
    BY <2>2, <2>3
  <2>5. CompressedLength(c[1]) = 4
    BY <2>4, SMT DEF CompressedLength
  <2>6. CompressedValue(c) = (c[1] - 192) * 2^24 + c[2] * 2^16 + c[3] * 2^8 + c[4]
    BY <2>2, SMT DEF CompressedValue
  <2>7. CompressedValue(c) = n
    <3>1. (n \div 2^24) * 2^24 + ((n \div 2^16) % 2^8) * 2^16 + ((n \div 2^8) % 2^8) * 2^8
              + (n % 2^8) = n
      BY DigitsOf
    <3>2. (c[1] - 192) * 2^24 + c[2] * 2^16 + c[3] * 2^8 + c[4] = n
      BY <2>2, <2>4, <3>1
    <3> QED
      BY <2>6, <3>2
  <2> QED
    BY <1>1, <2>2, <2>5, <2>7 DEF c
<1> QED
  BY <1>3, <1>4, <1>5

\* It is read where it is, if the reader has all of it.
LEMMA ReadUintIs ==
    ASSUME NEW heap \in Bytes, NEW h \in Bytes, Begins(h, heap), NEW pos, NEW n \in Small,
           Holds(heap, pos, CompressedUint(n))
    PROVE  /\ ReadCompressedUint(h, pos)
                  \in {Nothing, Something(n, pos + Len(CompressedUint(n)))}
           /\ Len(h) = Len(heap) => ReadCompressedUint(h, pos) # Nothing
<1>1. PICK c \in Bytes : /\ c = CompressedUint(n) /\ Len(c) \in 1..4
                         /\ CompressedLength(c[1]) = Len(c) /\ CompressedValue(c) = n
  BY CompressedRoundTrip
<1>2. PICK a \in Nat, b \in Nat : a = Len(h) /\ b = Len(heap)
  BY DEF Bytes
<1>3. pos \in Nat /\ pos + Len(c) <= b /\ heap[pos + 1] = c[1]
  BY <1>1, <1>2 DEF Holds
<1>4. /\ ReadBytes(h, pos, Len(c)) \in {Nothing, Something(c, pos + Len(c))}
      /\ Len(h) = Len(heap) => ReadBytes(h, pos, Len(c)) = Something(c, pos + Len(c))
  BY <1>1, ReadBytesIs
<1>5. CASE pos < a
  <2>1. h[pos + 1] = c[1]
    <3>1. pos + 1 \in 1..a
      BY <1>3, <1>5
    <3> QED
      BY <1>2, <1>3, <3>1 DEF Begins
  <2>2. ReadCompressedUint(h, pos) =
            IF Len(c) > 0 /\ ReadBytes(h, pos, Len(c)).ok
            THEN Something(CompressedValue(ReadBytes(h, pos, Len(c)).value), ReadBytes(h, pos, Len(c)).next)
            ELSE Nothing
    BY <1>1, <1>2, <1>5, <2>1 DEF ReadCompressedUint
  <2>3. CASE ReadBytes(h, pos, Len(c)) = Nothing
    <3>1. ~ReadBytes(h, pos, Len(c)).ok
      BY <2>3 DEF Nothing
    <3>2. Nothing # Something(c, pos + Len(c))
      <4>1. ~Nothing.ok /\ Something(c, pos + Len(c)).ok
        BY DEF Nothing, Something
      <4> QED
        BY <4>1
    <3> QED
      BY <1>4, <2>2, <2>3, <3>1, <3>2
  <2>4. CASE ReadBytes(h, pos, Len(c)) = Something(c, pos + Len(c))
    <3>1. /\ ReadBytes(h, pos, Len(c)).ok /\ ReadBytes(h, pos, Len(c)).value = c
          /\ ReadBytes(h, pos, Len(c)).next = pos + Len(c)
      BY <2>4 DEF Something
    <3>2. ReadCompressedUint(h, pos) = Something(n, pos + Len(c))
      BY <1>1, <2>2, <3>1
    <3>3. ~Nothing.ok /\ Something(n, pos + Len(c)).ok
      BY DEF Nothing, Something
    <3>4. ReadCompressedUint(h, pos) # Nothing
      BY <3>2, <3>3
    <3> QED
      BY <1>1, <3>2, <3>4
  <2> QED
    BY <1>4, <2>3, <2>4
<1>6. CASE ~(pos < a)
  <2>1. ReadCompressedUint(h, pos) = Nothing
    BY <1>2, <1>6 DEF ReadCompressedUint
  <2>2. Len(h) # Len(heap)
    BY <1>1, <1>2, <1>3, <1>6
  <2> QED
    BY <2>1, <2>2
<1> QED
  BY <1>5, <1>6

\* So is a blob.
LEMMA ReadBlobIs ==
    ASSUME NEW heap \in Bytes, NEW h \in Bytes, Begins(h, heap), Len(heap) < 2^29,
           NEW pos, NEW s \in Bytes, Holds(heap, pos, CompressedUint(Len(s)) \o s)
    PROVE  /\ readBlob(h, pos)
                  \in {Nothing, Something(s, pos + Len(CompressedUint(Len(s))) + Len(s))}
           /\ Len(h) = Len(heap) => readBlob(h, pos) # Nothing
<1> DEFINE good == Something(s, pos + Len(CompressedUint(Len(s))) + Len(s))
<1>1. PICK n \in Nat : n = Len(s)
  BY DEF Bytes
<1>2. PICK c \in Bytes : c = CompressedUint(n) /\ Len(c) \in Nat
  BY <1>1, CompressedIs DEF Bytes
<1>3. Holds(heap, pos, c) /\ Holds(heap, pos + Len(c), s)
  BY <1>1, <1>2, HoldsBoth
<1>4. pos \in Nat /\ n \in Small
  <2>1. pos \in Nat /\ pos + Len(c) \in Nat /\ (pos + Len(c)) + n <= Len(heap) /\ Len(heap) \in Nat
    BY <1>1, <1>3 DEF Holds, Bytes
  <2>2. n <= Len(heap) /\ Len(heap) <= 2^29 - 1
    BY <2>1
  <2> QED
    BY <2>1, <2>2 DEF Small
<1>5. /\ ReadCompressedUint(h, pos) \in {Nothing, Something(n, pos + Len(c))}
      /\ Len(h) = Len(heap) => ReadCompressedUint(h, pos) # Nothing
  <2>1. Holds(heap, pos, CompressedUint(n)) /\ Len(c) = Len(CompressedUint(n))
    BY <1>2, <1>3
  <2>2. /\ ReadCompressedUint(h, pos) \in {Nothing, Something(n, pos + Len(CompressedUint(n)))}
        /\ Len(h) = Len(heap) => ReadCompressedUint(h, pos) # Nothing
    BY <1>4, <2>1, ReadUintIs
  <2> QED
    BY <2>1, <2>2
<1>6. /\ ReadBytes(h, pos + Len(c), n) \in {Nothing, Something(s, (pos + Len(c)) + n)}
      /\ Len(h) = Len(heap) => ReadBytes(h, pos + Len(c), n) = Something(s, (pos + Len(c)) + n)
  BY <1>1, <1>3, ReadBytesIs
<1>7. ASSUME NEW v, NEW next PROVE ~Nothing.ok /\ Something(v, next).ok /\ Something(v, next) # Nothing
  <2>1. ~Nothing.ok /\ Something(v, next).ok
    BY DEF Nothing, Something
  <2> QED
    BY <2>1
<1>8. CASE ReadCompressedUint(h, pos) = Nothing
  <2>1. readBlob(h, pos) = Nothing
    BY <1>7, <1>8 DEF readBlob
  <2> QED
    BY <1>5, <1>7, <1>8, <2>1
<1>9. CASE ReadCompressedUint(h, pos) = Something(n, pos + Len(c))
  <2>1. LET ref == ReadCompressedUint(h, pos)
        IN ref.ok /\ ref.value = n /\ ref.next = pos + Len(c)
    BY <1>9 DEF Something
  <2>2. readBlob(h, pos) = ReadBytes(h, pos + Len(c), n)
    BY <2>1 DEF readBlob
  <2> QED
    BY <1>1, <1>2, <1>6, <1>7, <2>2
<1> QED
  BY <1>5, <1>8, <1>9

-----------------------------------------------------------------------------
(* The name of a document.                                                *)

\* What is decoded of a name after k parts: the parts with a glue between them, and
\* where the references to them end.
Glue(d) == IF Separator(d) # 0 THEN <<Separator(d)>> ELSE <<>>
NameUpTo(d, k) == Join(Glue(d), Parts(d), k)
RefsUpTo(before, d, k) == Join(<<>>, Refs(before, d), k)
Decoded(before, d, k) == Something(NameUpTo(d, k), Len(RefsUpTo(before, d, k)))

\* The references, one after the other.
LEMMA RefsAre ==
    ASSUME NEW before \in Bytes, NEW d \in Doc, NEW p, p = Len(Parts(d))
    PROVE  /\ p \in Nat \ {0}
           /\ \A k \in 0..p : RefsUpTo(before, d, k) \in Bytes
           /\ Len(RefsUpTo(before, d, 0)) = 0
           /\ \A k \in 1..p :
                  /\ RefsUpTo(before, d, k) = RefsUpTo(before, d, k - 1) \o Refs(before, d)[k]
                  /\ Len(RefsUpTo(before, d, k - 1)) < Len(RefsUpTo(before, d, k))
<1>1. p \in Nat \ {0}
  BY PartsAre
<1>2. \A k \in 1..p : Refs(before, d)[k] \in Bytes /\ Len(Refs(before, d)[k]) > 0
  <2> TAKE k \in 1..p
  <2>1. /\ RefTo(before, Parts(d), k) \in Nat
        /\ Refs(before, d)[k] = CompressedUint(RefTo(before, Parts(d), k))
    BY NameBlobIs
  <2>2. PICK c : c = Refs(before, d)[k]
    OBVIOUS
  <2>3. c \in Bytes /\ Len(c) \in {1, 2, 4}
    BY <2>1, <2>2, CompressedIs
  <2> QED
    BY <2>2, <2>3
<1>3. <<>> \in Bytes
  BY DEF Bytes
<1> DEFINE R(k) == RefsUpTo(before, d, k)
<1>4. ASSUME NEW k \in 0..p
      PROVE  /\ R(k) \in Bytes /\ (k = 0 => R(k) = <<>>)
             /\ k > 0 => /\ R(k - 1) \in Bytes
                         /\ R(k) = R(k - 1) \o (IF k > 1 THEN <<>> ELSE <<>>) \o Refs(before, d)[k]
  <2>1. k \in Nat /\ \A i \in 1..k : i \in 1..p
    OBVIOUS
  <2>2. \A i \in 1..k : Refs(before, d)[i] \in Bytes
    BY <1>2, <2>1
  <2> QED
    BY <1>3, <2>1, <2>2, JoinIs DEF RefsUpTo
<1>5. 0 \in 0..p /\ \A k \in 1..p : k \in 0..p /\ k > 0
  BY <1>1
<1> HIDE DEF R
<1>6. ASSUME NEW k \in 1..p
      PROVE  R(k) = R(k - 1) \o Refs(before, d)[k] /\ Len(R(k - 1)) < Len(R(k))
  <2>1. PICK a \in Bytes, b \in Bytes :
            a = R(k - 1) /\ b = Refs(before, d)[k] /\ Len(b) > 0
    BY <1>2, <1>4, <1>5
  <2>2. R(k) = a \o (IF k > 1 THEN <<>> ELSE <<>>) \o b
    BY <1>4, <1>5, <2>1
  <2>3. a \o (IF k > 1 THEN <<>> ELSE <<>>) = a \o <<>>
    OBVIOUS
  <2>4. a \o <<>> = a
    BY <2>1 DEF Bytes
  <2>5. R(k) = a \o b
    BY <2>2, <2>3, <2>4
  <2>6. Len(a \o b) = Len(a) + Len(b) /\ Len(a) \in Nat /\ Len(b) \in Nat
    BY <2>1 DEF Bytes
  <2>7. Len(R(k - 1)) = Len(a) /\ Len(R(k)) = Len(a) + Len(b)
    BY <2>1, <2>5, <2>6
  <2>8. Len(R(k - 1)) < Len(R(k))
    <3>1. PICK x \in Nat, y \in Nat : x = Len(a) /\ y = Len(b)
      BY <2>6
    <3>2. y > 0
      BY <2>1, <3>1
    <3> HIDE DEF R
    <3>3. Len(R(k - 1)) = x /\ Len(R(k)) = x + y
      BY <2>7, <3>1
    <3> QED
      BY <3>1, <3>2, <3>3
  <2> QED
    BY <2>1, <2>5, <2>8
<1>7. Len(R(0)) = 0
  <2>1. R(0) = <<>>
    BY <1>4, <1>5
  <2> QED
    BY <2>1
<1> QED
  BY <1>1, <1>4, <1>6, <1>7 DEF R

\* Each reference is where the one before ends; there is one byte at least for each.
LEMMA RefsHold ==
    ASSUME NEW before \in Bytes, NEW d \in Doc, NEW p, p = Len(Parts(d)),
           NEW refs, refs = RefsUpTo(before, d, p)
    PROVE  /\ p <= Len(refs)
           /\ \A k \in 0..(p - 1) : Len(RefsUpTo(before, d, k)) < Len(refs)
           /\ \A k \in 1..p : Holds(refs, Len(RefsUpTo(before, d, k - 1)), Refs(before, d)[k])
<1> DEFINE R(k) == RefsUpTo(before, d, k)
<1>1. /\ p \in Nat \ {0} /\ Len(R(0)) = 0
      /\ \A k \in 0..p : R(k) \in Bytes
      /\ \A k \in 1..p : R(k) = R(k - 1) \o Refs(before, d)[k] /\ Len(R(k - 1)) < Len(R(k))
  BY RefsAre
<1>2. \A k \in 0..p : Len(R(k)) \in Nat
  BY <1>1 DEF Bytes
<1>3. \A k \in 1..p : Refs(before, d)[k] \in Bytes
  BY NameBlobIs
<1>4. \A k \in 1..p : k - 1 \in 0..p /\ k \in 0..p
  BY <1>1
<1>5. \A k \in 1..p : Begins(R(k - 1), R(k)) /\ Holds(R(k), Len(R(k - 1)), Refs(before, d)[k])
  <2> HIDE DEF R
  <2> QED
    <3> TAKE k \in 1..p
    <3>1. R(k - 1) \in Bytes /\ Refs(before, d)[k] \in Bytes /\ R(k) = R(k - 1) \o Refs(before, d)[k]
      BY <1>1, <1>3, <1>4
    <3> QED
      BY <3>1, HoldsAppended
<1> HIDE DEF R
<1> DEFINE N == {m \in 0..p : /\ m <= Len(R(m))
                              /\ \A k \in 0..m : Begins(R(k), R(m)) /\ Len(R(k)) <= Len(R(m))}
<1>6. 0 \in N
  <2>1. \A k \in 0..0 : k = 0
    OBVIOUS
  <2>2. 0 \in 0..p /\ R(0) \in Bytes /\ Begins(R(0), R(0))
    BY <1>1, BeginsItself
  <2> QED
    BY <1>1, <2>1, <2>2
<1>7. ASSUME NEW m \in 1..p, m - 1 \in N PROVE m \in N
  <2>1. m - 1 \in 0..p /\ m \in 0..p
    BY <1>4
  <2>2. /\ R(m - 1) \in Bytes /\ R(m) \in Bytes /\ Begins(R(m - 1), R(m)) /\ Begins(R(m), R(m))
        /\ Len(R(m - 1)) < Len(R(m)) /\ m - 1 <= Len(R(m - 1))
    BY <1>1, <1>5, <1>7, <2>1, BeginsItself
  <2>3. ASSUME NEW k \in 0..m PROVE Begins(R(k), R(m)) /\ Len(R(k)) <= Len(R(m))
    <3>1. CASE k = m
      BY <1>2, <2>1, <2>2, <3>1
    <3>2. CASE k # m
      <4>1. k \in 0..(m - 1) /\ k \in 0..p
        BY <3>2
      <4>2. Begins(R(k), R(m - 1)) /\ R(k) \in Bytes /\ Len(R(k)) <= Len(R(m - 1))
        BY <1>1, <1>7, <4>1
      <4>3. Len(R(k)) <= Len(R(m))
        BY <1>2, <2>1, <2>2, <4>1, <4>2
      <4> QED
        BY <2>2, <4>2, <4>3, BeginsOn
    <3> QED
      BY <3>1, <3>2
  <2>4. m <= Len(R(m))
    BY <1>2, <2>1, <2>2
  <2> QED
    BY <2>1, <2>3, <2>4
<1> HIDE DEF N
<1>8. \A m \in 0..p : m \in N
  BY <1>1, <1>6, <1>7, Induction
<1>9. p \in 0..p /\ p \in N /\ R(p) = refs
  BY <1>1, <1>8 DEF R
<1>10. p <= Len(refs) /\ \A k \in 0..p : Begins(R(k), refs) /\ Len(R(k)) <= Len(refs)
  BY <1>9 DEF N
<1>11. ASSUME NEW k \in 0..(p - 1) PROVE Len(R(k)) < Len(refs)
  <2>1. k + 1 \in 1..p /\ k + 1 \in 0..p /\ k \in 0..p /\ (k + 1) - 1 = k
    BY <1>1
  <2>2. Len(R(k)) < Len(R(k + 1)) /\ Len(R(k + 1)) <= Len(refs)
    BY <1>1, <1>10, <2>1
  <2> QED
    BY <1>2, <1>9, <2>1, <2>2
<1>12. ASSUME NEW k \in 1..p PROVE Holds(refs, Len(R(k - 1)), Refs(before, d)[k])
  <2>1. R(k) \in Bytes /\ refs \in Bytes /\ Begins(R(k), refs)
    BY <1>1, <1>4, <1>9, <1>10
  <2> QED
    BY <1>3, <1>5, <2>1, HoldsOn
<1> QED
  BY <1>10, <1>11, <1>12 DEF R

\* What is decoded, part by part.
LEMMA NamesUpTo ==
    ASSUME NEW d \in Doc, NEW p, p = Len(Parts(d))
    PROVE  /\ \A k \in 0..p : NameUpTo(d, k) \in Bytes
           /\ NameUpTo(d, 0) = <<>>
           /\ \A k \in 1..p :
                  NameUpTo(d, k) = NameUpTo(d, k - 1) \o (IF k > 1 THEN Glue(d) ELSE <<>>) \o Parts(d)[k]
<1>1. p \in Nat /\ \A k \in 1..p : Parts(d)[k] \in Bytes
  BY PartsAre
<1>2. Glue(d) \in Bytes
  BY PartsAre DEF Glue, Bytes, Slash, Backslash
<1>3. ASSUME NEW k \in 0..p
      PROVE  /\ NameUpTo(d, k) \in Bytes /\ (k = 0 => NameUpTo(d, k) = <<>>)
             /\ k > 0 => NameUpTo(d, k) =
                             NameUpTo(d, k - 1) \o (IF k > 1 THEN Glue(d) ELSE <<>>) \o Parts(d)[k]
  <2>1. k \in Nat /\ \A i \in 1..k : i \in 1..p
    OBVIOUS
  <2>2. \A i \in 1..k : Parts(d)[i] \in Bytes
    BY <1>1, <2>1
  <2> QED
    BY <1>2, <2>1, <2>2, JoinIs DEF NameUpTo
<1>4. 0 \in 0..p /\ \A k \in 1..p : k \in 0..p /\ k > 0
  BY <1>1
<1> QED
  BY <1>3, <1>4

\* Something is not nothing.
LEMMA SomethingIs ==
    ASSUME NEW v, NEW next
    PROVE  /\ ~Nothing.ok /\ Something(v, next) # Nothing
           /\ LET x == Something(v, next) IN x.ok /\ x.value = v /\ x.next = next
<1>1. ~Nothing.ok /\ Something(v, next).ok
  BY DEF Nothing, Something
<1>2. Something(v, next).value = v /\ Something(v, next).next = next
  BY DEF Something
<1> QED
  BY <1>1, <1>2

\* A turn of the loop decodes one part more, or nothing where the heap is cut off.
LEMMA TurnIs ==
    ASSUME NEW heap \in Bytes, NEW h \in Bytes, Begins(h, heap), Len(heap) < 2^29,
           NEW before \in Bytes, NEW d \in Doc, NEW p, p = Len(Parts(d)),
           \A i \in 1..p : Holds(heap, RefTo(before, Parts(d), i),
                                 CompressedUint(Len(Parts(d)[i])) \o Parts(d)[i]),
           NEW refs, refs = RefsUpTo(before, d, p), NEW k \in 1..p
    PROVE  LET turn == NextPart(h, Separator(d), refs, Decoded(before, d, k - 1))
           IN /\ turn \in {Nothing, Decoded(before, d, k)}
              /\ Len(h) = Len(heap) => turn # Nothing
<1>1. PICK a \in Nat, b \in Nat :
          a = Len(RefsUpTo(before, d, k - 1)) /\ b = Len(RefsUpTo(before, d, k))
  <2>1. p \in Nat /\ k - 1 \in 0..p /\ k \in 0..p
    BY RefsAre
  <2>2. RefsUpTo(before, d, k - 1) \in Bytes /\ RefsUpTo(before, d, k) \in Bytes
    BY <2>1, RefsAre
  <2> QED
    BY <2>2 DEF Bytes
<1>2. PICK r \in Nat : /\ r = RefTo(before, Parts(d), k)
                       /\ Refs(before, d)[k] = CompressedUint(r)
  BY NameBlobIs
<1>3. PICK s \in Bytes : s = Parts(d)[k]
  BY PartsAre
<1>4. Holds(heap, r, CompressedUint(Len(s)) \o s)
  BY <1>2, <1>3
<1>5. r \in Small
  <2>1. PICK t \in Bytes : t = CompressedUint(Len(s)) \o s
    <3>1. Len(s) \in Nat
      BY <1>3 DEF Bytes
    <3>2. PICK c \in Bytes : c = CompressedUint(Len(s))
      BY <3>1, CompressedIs
    <3>3. c \o s \in Bytes
      BY <1>3, <3>2 DEF Bytes
    <3> QED
      BY <3>2, <3>3
  <2>2. r + Len(t) <= Len(heap) /\ Len(t) \in Nat /\ Len(heap) \in Nat
    BY <1>4, <2>1 DEF Holds, Bytes
  <2>3. r <= 2^29 - 1
    BY <1>2, <2>2
  <2> QED
    BY <1>2, <2>3 DEF Small
<1>6. /\ refs \in Bytes /\ Begins(refs, refs)
      /\ Holds(refs, a, CompressedUint(r)) /\ a < Len(refs)
      /\ (a > 0 <=> k > 1) /\ b = a + Len(CompressedUint(r))
  <2>1. p \in Nat /\ p \in 0..p /\ k - 1 \in 0..(p - 1) /\ k - 1 \in 0..p /\ k \in Nat
    BY RefsAre
  <2>2. refs \in Bytes
    BY <2>1, RefsAre
  <2>3. Holds(refs, a, CompressedUint(r)) /\ a < Len(refs)
    BY <1>1, <1>2, <2>1, RefsHold
  <2>4. b = a + Len(CompressedUint(r))
    <3>1. RefsUpTo(before, d, k) = RefsUpTo(before, d, k - 1) \o Refs(before, d)[k]
      <4>1. \A i \in 1..p : RefsUpTo(before, d, i) = RefsUpTo(before, d, i - 1) \o Refs(before, d)[i]
        BY RefsAre, ZenonT(30)
      <4> QED
        BY <4>1
    <3>2. RefsUpTo(before, d, k - 1) \in Bytes /\ Refs(before, d)[k] \in Bytes
      BY <2>1, RefsAre, NameBlobIs
    <3> QED
      BY <1>1, <1>2, <3>1, <3>2 DEF Bytes
  <2>5. a > 0 <=> k > 1
    <3>1. CASE k = 1
      <4>0. k - 1 = 0
        BY <3>1
      <4>1. Len(RefsUpTo(before, d, 0)) = 0
        BY RefsAre
      <4>2. a = 0
        BY <1>1, <4>0, <4>1
      <4> QED
        BY <3>1, <4>2
    <3>2. CASE k > 1
      <4>1. k - 1 \in 1..p /\ (k - 1) - 1 \in 0..p
        BY <2>1, <3>2
      <4>2. Len(RefsUpTo(before, d, (k - 1) - 1)) < a
        BY <1>1, <4>1, RefsAre
      <4>3. Len(RefsUpTo(before, d, (k - 1) - 1)) \in Nat
        <5>1. RefsUpTo(before, d, (k - 1) - 1) \in Bytes
          BY <4>1, RefsAre
        <5> QED
          BY <5>1 DEF Bytes
      <4>4. a > 0
        BY <1>1, <4>2, <4>3
      <4> QED
        BY <3>2, <4>4
    <3> QED
      BY <2>1, <3>1, <3>2
  <2> QED
    BY <2>2, <2>3, <2>4, <2>5, BeginsItself
<1>7. ReadCompressedUint(refs, a) = Something(r, b)
  <2>1. /\ ReadCompressedUint(refs, a) \in {Nothing, Something(r, a + Len(CompressedUint(r)))}
        /\ ReadCompressedUint(refs, a) # Nothing
    BY <1>5, <1>6, ReadUintIs
  <2> QED
    BY <1>6, <2>1
<1>8. PICK after : /\ readBlob(h, r) \in {Nothing, Something(s, after)}
                   /\ Len(h) = Len(heap) => readBlob(h, r) # Nothing
  BY <1>3, <1>4, ReadBlobIs
<1> DEFINE state == Decoded(before, d, k - 1)
           glue == IF a > 0 /\ Separator(d) # 0 THEN <<Separator(d)>> ELSE <<>>
           part == readBlob(h, r)
<1>9. state.ok /\ state.value = NameUpTo(d, k - 1) /\ state.next = a
  BY <1>1, SomethingIs DEF Decoded
<1>10. LET ref == ReadCompressedUint(refs, a) IN ref.ok /\ ref.value = r /\ ref.next = b
  BY <1>7, SomethingIs
<1>11. NextPart(h, Separator(d), refs, state) =
           IF part.ok THEN Something(state.value \o glue \o part.value, b) ELSE Nothing
  <2> HIDE DEF state
  <2>1. a # Len(refs)
    <3>1. Len(refs) \in Nat
      BY <1>6 DEF Bytes
    <3> QED
      BY <1>1, <1>6, <3>1
  <2> QED
    BY <1>9, <1>10, <2>1 DEF NextPart
<1>12. CASE part = Nothing
  BY <1>8, <1>11, <1>12, SomethingIs
<1>13. CASE part = Something(s, after)
  <2>1. part.ok /\ part.value = s
    BY <1>13, SomethingIs
  <2>2. state.value \o glue \o part.value = NameUpTo(d, k)
    <3>1. glue = IF k > 1 THEN Glue(d) ELSE <<>>
      BY <1>6 DEF Glue
    <3>2. NameUpTo(d, k) = NameUpTo(d, k - 1) \o (IF k > 1 THEN Glue(d) ELSE <<>>) \o s
      BY <1>3, NamesUpTo
    <3> HIDE DEF glue, state
    <3> QED
      BY <1>9, <2>1, <3>1, <3>2
  <2>3. NextPart(h, Separator(d), refs, state) = Decoded(before, d, k)
    <3> HIDE DEF glue, state
    <3> QED
      BY <1>1, <1>11, <2>1, <2>2 DEF Decoded
  <2>4. Decoded(before, d, k) # Nothing
    BY SomethingIs DEF Decoded
  <2> QED
    BY <2>3, <2>4
<1> QED
  BY <1>8, <1>12, <1>13

\* There is nothing to decode after the last part, or after nothing.
LEMMA LastTurnIs ==
    ASSUME NEW h, NEW before, NEW d, NEW p, NEW refs, refs = RefsUpTo(before, d, p)
    PROVE  /\ NextPart(h, Separator(d), refs, Decoded(before, d, p)) = Decoded(before, d, p)
           /\ NextPart(h, Separator(d), refs, Nothing) = Nothing
<1> DEFINE state == Decoded(before, d, p)
<1>1. state.next = Len(refs)
  BY SomethingIs DEF Decoded
<1> HIDE DEF state
<1>2. NextPart(h, Separator(d), refs, state) = state
  BY <1>1 DEF NextPart
<1>3. NextPart(h, Separator(d), refs, Nothing) = Nothing
  BY SomethingIs DEF NextPart
<1> QED
  BY <1>2, <1>3 DEF state

\* A turn of the loop, and where it ends.
Turn(h, separator, refs) ==
    LET next[state \in PartialNames] == NextPart(h, separator, refs, state) IN next
LastName(h, separator, refs) ==
    LET name[n \in 0..Len(refs)] ==
            IF n = 0 THEN Something(<<>>, 0)
            ELSE LET next[state \in PartialNames] == NextPart(h, separator, refs, state)
                 IN next[name[n - 1]]
    IN name[Len(refs)]

\* The function of a turn is NextPart.
LEMMA TurnsAre ==
    ASSUME NEW h, NEW separator, NEW refs, NEW state \in PartialNames
    PROVE  Turn(h, separator, refs)[state] = NextPart(h, separator, refs, state)
  BY DEF Turn

\* The loop as a function that goes on by turns.
LEMMA LoopIs ==
    ASSUME NEW h, NEW separator, NEW refs, Len(refs) \in Nat, NEW S,
           Something(<<>>, 0) \in S, \A x \in S : Turn(h, separator, refs)[x] \in S
    PROVE  LET n == Len(refs)
               next == [i \in 1..n |-> Turn(h, separator, refs)]
           IN \E u : Follows(u, n, S, Something(<<>>, 0), next) /\ LastName(h, separator, refs) = u[n]
<1> DEFINE n == Len(refs)
           T == Turn(h, separator, refs)
           base == Something(<<>>, 0)
           next == [i \in 1..n |-> T]
           Up(u) == [i \in 0..n |-> IF i = 0 THEN base ELSE T[u[i - 1]]]
           g == CHOOSE u : u = Up(u)
<1>1. LastName(h, separator, refs) = g[n]
  BY DEF LastName, Turn
<1>2. n \in Nat /\ base \in S /\ \A x \in S : T[x] \in S
  OBVIOUS
<1> HIDE DEF T, base, n
<1>3. \A i \in 1..n : next[i] = T
  OBVIOUS
<1> HIDE DEF next
<1>4. \A i \in 1..n : \A x \in S : next[i][x] \in S
  BY <1>2, <1>3
<1>5. PICK r : Follows(r, n, S, base, next)
  BY <1>2, <1>4, Recursion
<1>6. r = Up(r)
  <2>1. r \in [0..n -> S] /\ r[0] = base /\ \A i \in 1..n : r[i] = next[i][r[i - 1]]
    BY <1>5 DEF Follows
  <2>2. ASSUME NEW i \in 0..n PROVE r[i] = Up(r)[i]
    <3>1. CASE i = 0
      BY <2>1, <3>1
    <3>2. CASE i # 0
      <4>1. i \in 1..n
        BY <1>2, <3>2
      <4> QED
        BY <1>3, <2>1, <3>2, <4>1
    <3> QED
      BY <3>1, <3>2
  <2> QED
    BY <2>1, <2>2
<1>7. g = Up(g)
  <2> HIDE DEF Up
  <2> QED
    BY <1>6
<1> HIDE DEF g
<1>8. g[0] = base /\ g = [i \in 0..n |-> g[i]] /\ \A i \in 1..n : g[i] = T[g[i - 1]]
  <2>1. 0 \in 0..n /\ \A i \in 1..n : i \in 0..n /\ i # 0
    BY <1>2
  <2> QED
    BY <1>7, <2>1
<1>9. \A i \in 1..n : g[i - 1] \in S => g[i] = next[i][g[i - 1]]
  BY <1>3, <1>8
<1>10. Follows(g, n, S, base, next)
  BY <1>2, <1>4, <1>8, <1>9, Following
<1> QED
  BY <1>1, <1>10 DEF n, next, T, base

\* A decoded name is all of it, or nothing where the heap is cut off.
LEMMA LastNameIs ==
    ASSUME NEW heap \in Bytes, NEW h \in Bytes, Begins(h, heap), Len(heap) < 2^29,
           NEW before \in Bytes, NEW d \in Doc, NEW p, p = Len(Parts(d)),
           \A i \in 1..p : Holds(heap, RefTo(before, Parts(d), i),
                                 CompressedUint(Len(Parts(d)[i])) \o Parts(d)[i]),
           NEW refs, refs = RefsUpTo(before, d, p)
    PROVE  LET name == LastName(h, Separator(d), refs)
           IN /\ name \in {Nothing, Decoded(before, d, p)}
              /\ Len(h) = Len(heap) => name # Nothing
<1> DEFINE D(k) == Decoded(before, d, k)
           S == {Nothing} \cup {D(k) : k \in 0..p}
           T == Turn(h, Separator(d), refs)
<1>1. p \in Nat /\ p > 0
  <2>1. p \in Nat \ {0}
    BY RefsAre
  <2> QED
    BY <2>1
<1>2. D(0) = Something(<<>>, 0)
  <2>1. NameUpTo(d, 0) = <<>> /\ Len(RefsUpTo(before, d, 0)) = 0
    BY RefsAre, NamesUpTo
  <2> QED
    BY <2>1 DEF Decoded
<1>3. \A k \in 0..p : D(k) \in PartialNames
  <2> TAKE k \in 0..p
  <2>1. RefsUpTo(before, d, k) \in Bytes /\ NameUpTo(d, k) \in Bytes
    BY RefsAre, NamesUpTo
  <2>2. Len(RefsUpTo(before, d, k)) \in Nat /\ NameUpTo(d, k) \in Seq(Nat)
    BY <2>1 DEF Bytes
  <2> QED
    BY <2>2 DEF Decoded, Something, PartialNames
<1>4. Nothing \in PartialNames
  BY DEF PartialNames
<1>5. ASSUME NEW k \in 1..p
      PROVE  T[D(k - 1)] \in {Nothing, D(k)} /\ (Len(h) = Len(heap) => T[D(k - 1)] # Nothing)
  <2>1. k - 1 \in 0..p
    BY <1>1
  <2>2. D(k - 1) \in PartialNames
    BY <1>3, <2>1
  <2>3. T[D(k - 1)] = NextPart(h, Separator(d), refs, D(k - 1))
    <3> HIDE DEF D
    <3> QED
      BY <2>2, TurnsAre
  <2>4. /\ NextPart(h, Separator(d), refs, D(k - 1)) \in {Nothing, D(k)}
        /\ Len(h) = Len(heap) => NextPart(h, Separator(d), refs, D(k - 1)) # Nothing
    BY TurnIs
  <2> HIDE DEF D, T
  <2> QED
    BY <2>3, <2>4
<1>6. T[D(p)] = D(p) /\ T[Nothing] = Nothing
  <2>1. D(p) \in PartialNames
    BY <1>1, <1>3
  <2>2. /\ T[D(p)] = NextPart(h, Separator(d), refs, D(p))
        /\ T[Nothing] = NextPart(h, Separator(d), refs, Nothing)
    <3> HIDE DEF D
    <3> QED
      BY <1>4, <2>1, TurnsAre
  <2>3. /\ NextPart(h, Separator(d), refs, D(p)) = D(p)
        /\ NextPart(h, Separator(d), refs, Nothing) = Nothing
    BY LastTurnIs
  <2> HIDE DEF D, T
  <2> QED
    BY <2>2, <2>3
<1>7. D(p) # Nothing
  BY SomethingIs DEF Decoded
<1> HIDE DEF T, D
<1>8. \A x \in S : T[x] \in S
  <2> TAKE x \in S
  <2>1. CASE x = Nothing
    BY <1>6, <2>1
  <2>2. CASE x = D(p)
    BY <1>6, <2>2
  <2>3. ASSUME NEW k \in 0..p, x = D(k), k # p PROVE T[x] \in S
    <3>1. k + 1 \in 1..p /\ (k + 1) - 1 = k /\ k + 1 \in 0..p
      BY <1>1, <2>3
    <3>2. T[D((k + 1) - 1)] \in {Nothing, D(k + 1)}
      BY <1>5, <3>1
    <3>3. T[x] \in {Nothing, D(k + 1)}
      BY <2>3, <3>1, <3>2
    <3> QED
      BY <3>1, <3>3
  <2> QED
    BY <2>1, <2>2, <2>3
<1>9. D(0) \in S
  BY <1>1
<1>10. refs \in Bytes /\ Len(refs) \in Nat /\ p <= Len(refs)
  <2>0. p \in 0..p
    BY <1>1
  <2>1. refs \in Bytes
    BY <2>0, RefsAre
  <2> QED
    BY <2>1, RefsHold DEF Bytes
<1> DEFINE n == Len(refs)
           next == [i \in 1..n |-> T]
<1>11. PICK u : Follows(u, n, S, D(0), next) /\ LastName(h, Separator(d), refs) = u[n]
  <2> HIDE DEF S
  <2> QED
    BY <1>2, <1>8, <1>9, <1>10, LoopIs DEF T
<1>12. u[0] = D(0) /\ \A i \in 1..n : u[i] = T[u[i - 1]]
  BY <1>11 DEF Follows
<1> DEFINE Cap(i) == IF i <= p THEN i ELSE p
           N == {i \in 0..n : u[i] \in {Nothing, D(Cap(i))} /\ (Len(h) = Len(heap) => u[i] # Nothing)}
<1>13. D(0) # Nothing
  BY <1>2, SomethingIs
<1>14. 0 \in N
  BY <1>1, <1>10, <1>12, <1>13
<1>15. ASSUME NEW i \in 1..n, i - 1 \in N PROVE i \in N
  <2>1. /\ u[i] = T[u[i - 1]] /\ i \in 0..n /\ u[i - 1] \in {Nothing, D(Cap(i - 1))}
        /\ Len(h) = Len(heap) => u[i - 1] # Nothing
    BY <1>12, <1>15
  <2>2. CASE u[i - 1] = Nothing
    BY <1>6, <2>1, <2>2
  <2>3. CASE u[i - 1] # Nothing /\ i <= p
    <3>1. i \in 1..p /\ Cap(i) = i /\ Cap(i - 1) = i - 1
      BY <1>1, <2>3
    <3>2. u[i] = T[D(i - 1)]
      BY <2>1, <2>3, <3>1
    <3>3. T[D(i - 1)] \in {Nothing, D(i)} /\ (Len(h) = Len(heap) => T[D(i - 1)] # Nothing)
      BY <1>5, <3>1
    <3> QED
      BY <2>1, <3>1, <3>2, <3>3
  <2>4. CASE u[i - 1] # Nothing /\ ~(i <= p)
    <3>1. Cap(i) = p /\ Cap(i - 1) = p
      BY <1>1, <2>4
    <3> QED
      BY <1>6, <1>7, <2>1, <2>4, <3>1
  <2> QED
    BY <2>2, <2>3, <2>4
<1>16. n \in 0..n /\ (n <= p => n = p)
  BY <1>1, <1>10
<1>17. Cap(n) = p
  BY <1>16
<1> HIDE DEF N
<1>18. n \in N
  BY <1>10, <1>14, <1>15, <1>16, Induction
<1> HIDE DEF Cap
<1>19. u[n] \in {Nothing, D(p)} /\ (Len(h) = Len(heap) => u[n] # Nothing)
  BY <1>17, <1>18 DEF N
<1> QED
  BY <1>11, <1>19 DEF D

\* What decodeDocumentName makes of a name blob.
LEMMA DecodeIs ==
    ASSUME NEW heap \in Bytes, NEW h \in Bytes, Begins(h, heap), Len(heap) < 2^29,
           NEW before \in Bytes, NEW d \in Doc, NEW p, p = Len(Parts(d)),
           \A i \in 1..p : Holds(heap, RefTo(before, Parts(d), i),
                                 CompressedUint(Len(Parts(d)[i])) \o Parts(d)[i]),
           NEW pos, Holds(heap, pos, CompressedUint(Len(NameBlob(before, d))) \o NameBlob(before, d))
    PROVE  LET name == decodeDocumentName(h, pos)
           IN /\ name.ok => name.value = NameUpTo(d, p)
              /\ Len(h) = Len(heap) => name.ok
              /\ name.ok \in BOOLEAN
<1>1. PICK s \in Bytes : s = NameBlob(before, d)
  BY NameBlobIs
<1>2. PICK after : /\ readBlob(h, pos) \in {Nothing, Something(s, after)}
                   /\ Len(h) = Len(heap) => readBlob(h, pos) # Nothing
  BY <1>1, ReadBlobIs
<1>3. CASE readBlob(h, pos) = Nothing
  <2>1. decodeDocumentName(h, pos) = Nothing
    BY <1>3, SomethingIs DEF decodeDocumentName
  <2> QED
    BY <1>2, <1>3, <2>1 DEF Nothing
<1>4. CASE readBlob(h, pos) = Something(s, after)
  <2>1. PICK refs \in Bytes : refs = RefsUpTo(before, d, p)
    BY NameBlobIs DEF RefsUpTo
  <2>2. PICK x \in Nat : x = Separator(d) /\ x <= 127
    BY PartsAre DEF Slash, Backslash
  <2>3. s = <<x>> \o refs
    BY <1>1, <2>1, <2>2 DEF NameBlob, RefsUpTo
  <2>4. s # <<>> /\ s[1] = x /\ Tail(s) = refs
    <3>1. s # <<>> /\ s \in Seq(Nat) /\ Len(s) = Len(refs) + 1 /\ Len(refs) \in Nat /\ s[1] = x
      BY <1>1, <2>1, <2>3 DEF Bytes
    <3>2. \A i \in 1..Len(refs) : s[i + 1] = refs[i]
      BY <2>1, <2>3 DEF Bytes
    <3>3. Tail(s) \in Seq(Nat) /\ Len(Tail(s)) = Len(s) - 1
      BY <3>1
    <3>4. Len(Tail(s)) = Len(refs)
      BY <3>1, <3>3
    <3>5. \A i \in 1..Len(refs) : Tail(s)[i] = s[i + 1]
      BY <3>1, <3>4
    <3>6. Tail(s) = refs
      <4>1. Tail(s) \in Seq(Nat) /\ refs \in Seq(Nat)
        BY <2>1, <3>3 DEF Bytes
      <4>2. \A i \in 1..Len(Tail(s)) : Tail(s)[i] = refs[i]
        BY <3>2, <3>4, <3>5
      <4> QED
        BY <3>4, <4>1, <4>2, SeqEqual
    <3> QED
      BY <3>1, <3>6
  <2>5. readBlob(h, pos).ok /\ readBlob(h, pos).value = s
    BY <1>4, SomethingIs
  <2>6. decodeDocumentName(h, pos) = LastName(h, x, refs)
    <3>1. decodeDocumentName(h, pos) =
              LET content == readBlob(h, pos)
              IN IF ~content.ok THEN Nothing
                 ELSE IF content.value = <<>> THEN Something(<<>>, content.next)
                 ELSE IF content.value[1] > 127 THEN Nothing
                 ELSE LastName(h, content.value[1], Tail(content.value))
      BY DEF decodeDocumentName, LastName
    <3>2. ~(x > 127)
      BY <2>2
    <3> QED
      BY <2>4, <2>5, <3>1, <3>2
  <2>7. /\ LastName(h, x, refs) \in {Nothing, Decoded(before, d, p)}
        /\ Len(h) = Len(heap) => LastName(h, x, refs) # Nothing
    BY <2>1, <2>2, LastNameIs
  <2>8. ~Nothing.ok /\ Nothing.ok \in BOOLEAN
    BY DEF Nothing
  <2>9. /\ Decoded(before, d, p).ok /\ Decoded(before, d, p).value = NameUpTo(d, p)
        /\ Decoded(before, d, p).ok \in BOOLEAN
    <3>1. Decoded(before, d, p).ok = TRUE
      BY DEF Decoded, Something
    <3> QED
      BY <3>1, SomethingIs DEF Decoded
  <2> QED
    BY <2>6, <2>7, <2>8, <2>9
<1> QED
  BY <1>2, <1>3, <1>4

-----------------------------------------------------------------------------
(* The path of a name.                                                    *)

\* A name with slashes for backslashes.
Slashed(name) == [i \in DOMAIN name |-> IF name[i] = Backslash THEN Slash ELSE name[i]]

\* It has the length of the name, and is the name where that has no backslash.
LEMMA SlashedIs ==
    ASSUME NEW s \in Bytes
    PROVE  /\ Slashed(s) \in Bytes /\ Len(Slashed(s)) = Len(s)
           /\ \A i \in 1..Len(s) : Slashed(s)[i] = IF s[i] = Backslash THEN Slash ELSE s[i]
           /\ (\A i \in 1..Len(s) : s[i] # Backslash) => Slashed(s) = s
<1>1. PICK n \in Nat : n = Len(s) /\ DOMAIN s = 1..n /\ s \in Seq(Nat)
  BY DEF Bytes
<1> DEFINE t == Slashed(s)
<1>2. t = [i \in 1..n |-> t[i]] /\ \A i \in 1..n : t[i] = IF s[i] = Backslash THEN Slash ELSE s[i]
  BY <1>1 DEF Slashed
<1> HIDE DEF t
<1>3. \A i \in 1..n : t[i] \in Nat
  BY <1>1, <1>2 DEF Slash
<1>4. t \in Seq(Nat) /\ Len(t) = n
  BY <1>2, <1>3, SeqOfFunction
<1>5. ASSUME \A i \in 1..n : s[i] # Backslash PROVE t = s
  <2>1. \A i \in 1..n : t[i] = s[i]
    BY <1>2, <1>5
  <2> QED
    BY <1>1, <1>4, <2>1, SeqEqual
<1> QED
  BY <1>1, <1>2, <1>4, <1>5 DEF t, Bytes

\* Of two names together it is both with slashes.
LEMMA SlashedBoth ==
    ASSUME NEW a \in Bytes, NEW b \in Bytes
    PROVE  Slashed(a \o b) = Slashed(a) \o Slashed(b)
<1>1. PICK n \in Nat, m \in Nat : n = Len(a) /\ m = Len(b)
  BY DEF Bytes
<1>2. PICK c \in Bytes, l \in Nat : /\ c = a \o b /\ Len(c) = l /\ l = n + m
                                    /\ \A i \in 1..l : c[i] = IF i <= n THEN a[i] ELSE b[i - n]
  <2>1. /\ a \o b \in Seq(Nat) /\ Len(a \o b) = Len(a) + Len(b)
        /\ \A i \in 1..(Len(a) + Len(b)) : (a \o b)[i] = IF i <= Len(a) THEN a[i] ELSE b[i - Len(a)]
    BY ConcatProperties DEF Bytes
  <2>2. PICK c \in Bytes : c = a \o b
    BY <2>1 DEF Bytes
  <2>3. Len(c) = n + m /\ \A i \in 1..(n + m) : c[i] = IF i <= n THEN a[i] ELSE b[i - n]
    BY <1>1, <2>1, <2>2
  <2>4. PICK l \in Nat : l = n + m
    OBVIOUS
  <2> QED
    BY <2>2, <2>3, <2>4
<1>3. PICK x \in Bytes : /\ x = Slashed(a) /\ Len(x) = n
                         /\ \A i \in 1..n : x[i] = IF a[i] = Backslash THEN Slash ELSE a[i]
  BY <1>1, SlashedIs
<1>4. PICK y \in Bytes : /\ y = Slashed(b) /\ Len(y) = m
                         /\ \A i \in 1..m : y[i] = IF b[i] = Backslash THEN Slash ELSE b[i]
  BY <1>1, SlashedIs
<1>5. PICK z \in Bytes : /\ z = Slashed(c) /\ Len(z) = l
                         /\ \A i \in 1..l : z[i] = IF c[i] = Backslash THEN Slash ELSE c[i]
  <2>1. Len(c) = l
    BY <1>2
  <2> QED
    BY <2>1, SlashedIs
<1>6. PICK w \in Bytes : /\ w = x \o y /\ Len(w) = l
                         /\ \A i \in 1..l : w[i] = IF i <= n THEN x[i] ELSE y[i - n]
  <2>1. /\ x \o y \in Seq(Nat) /\ Len(x \o y) = Len(x) + Len(y)
        /\ \A i \in 1..(Len(x) + Len(y)) : (x \o y)[i] = IF i <= Len(x) THEN x[i] ELSE y[i - Len(x)]
    BY ConcatProperties DEF Bytes
  <2>2. PICK w \in Bytes : w = x \o y
    BY <2>1 DEF Bytes
  <2>3. Len(w) = n + m /\ \A i \in 1..(n + m) : w[i] = IF i <= n THEN x[i] ELSE y[i - n]
    BY <1>3, <1>4, <2>1, <2>2
  <2> QED
    BY <1>2, <2>2, <2>3
<1>7. \A i \in 1..l : z[i] = w[i]
  <2> TAKE i \in 1..l
  <2>1. CASE i <= n
    <3>1. i \in 1..n
      BY <2>1
    <3>2. z[i] = IF c[i] = Backslash THEN Slash ELSE c[i]
      BY <1>5
    <3>3. c[i] = a[i] /\ w[i] = x[i]
      BY <1>2, <1>6, <2>1, <3>1
    <3> QED
      BY <1>3, <3>1, <3>2, <3>3
  <2>2. CASE ~(i <= n)
    <3>1. i - n \in 1..m
      BY <1>2, <2>2
    <3>2. PICK k \in 1..m : k = i - n
      BY <3>1
    <3>3. c[i] = b[k] /\ w[i] = y[k]
      BY <1>2, <1>6, <2>2, <3>2
    <3> QED
      BY <1>4, <1>5, <3>3
  <2> QED
    BY <2>1, <2>2
<1>8. z = w
  BY <1>5, <1>6, <1>7, SameBytes
<1> QED
  BY <1>2, <1>3, <1>4, <1>5, <1>6, <1>8

\* The parts with slashes between them, whichever their glue was.
LEMMA SlashedJoin ==
    ASSUME NEW n \in Nat, NEW glue \in Bytes, Slashed(glue) = <<Slash>>, NEW parts,
           \A i \in 1..n : parts[i] \in Bytes /\ Slashed(parts[i]) = parts[i]
    PROVE  Slashed(Join(glue, parts, n)) = Join(<<Slash>>, parts, n)
<1> DEFINE A(k) == Join(glue, parts, k)
           B(k) == Join(<<Slash>>, parts, k)
           N == {k \in 0..n : Slashed(A(k)) = B(k)}
<1>1. <<Slash>> \in Bytes /\ <<>> \in Bytes
  BY DEF Slash, Bytes
<1>2. ASSUME NEW k \in 0..n
      PROVE  /\ A(k) \in Bytes /\ (k = 0 => A(k) = <<>> /\ B(k) = <<>>)
             /\ k > 0 => /\ A(k - 1) \in Bytes
                         /\ A(k) = A(k - 1) \o (IF k > 1 THEN glue ELSE <<>>) \o parts[k]
                         /\ B(k) = B(k - 1) \o (IF k > 1 THEN <<Slash>> ELSE <<>>) \o parts[k]
  <2>1. k \in Nat /\ \A i \in 1..k : parts[i] \in Bytes
    OBVIOUS
  <2> QED
    BY <1>1, <2>1, JoinIs
<1> HIDE DEF A, B
<1>3. Slashed(<<>>) = <<>>
  <2>1. Len(<<>>) = 0 /\ \A i \in 1..0 : <<>>[i] # Backslash
    OBVIOUS
  <2> QED
    BY <1>1, <2>1, SlashedIs
<1>4. 0 \in N
  <2>1. 0 \in 0..n
    OBVIOUS
  <2> QED
    BY <1>2, <1>3, <2>1
<1>5. ASSUME NEW k \in 1..n, k - 1 \in N PROVE k \in N
  <2>1. k \in 0..n /\ k > 0
    OBVIOUS
  <2>2. PICK a \in Bytes, g \in Bytes, s \in Bytes, x \in {B(k - 1)} :
            /\ a = A(k - 1) /\ g = (IF k > 1 THEN glue ELSE <<>>) /\ s = parts[k]
            /\ x = B(k - 1) /\ Slashed(a) = x
    BY <1>1, <1>2, <1>5, <2>1
  <2>3. Slashed(g) = (IF k > 1 THEN <<Slash>> ELSE <<>>) /\ Slashed(s) = s
    BY <1>3, <2>2
  <2>4. A(k) = a \o g \o s /\ B(k) = x \o Slashed(g) \o s
    BY <1>2, <2>1, <2>2, <2>3
  <2>5. Slashed(a \o g \o s) = Slashed(a) \o Slashed(g) \o Slashed(s)
    <3>1. a \o g \in Bytes
      BY DEF Bytes
    <3>2. Slashed(a \o g) = Slashed(a) \o Slashed(g)
      BY SlashedBoth
    <3>3. Slashed((a \o g) \o s) = Slashed(a \o g) \o Slashed(s)
      BY <3>1, SlashedBoth
    <3> QED
      BY <3>2, <3>3
  <2>6. Slashed(A(k)) = B(k)
    BY <2>2, <2>3, <2>4, <2>5
  <2> QED
    BY <2>1, <2>6
<1> HIDE DEF N
<1>6. n \in N
  <2>1. n \in 0..n
    OBVIOUS
  <2> QED
    BY <1>4, <1>5, <2>1, Induction
<1> QED
  BY <1>6 DEF N, A, B

\* However a name was taken apart, it is the same with slashes.
LEMMA NameIs ==
    ASSUME NEW d \in Doc, NEW p, p = Len(Parts(d))
    PROVE  Slashed(NameUpTo(d, p)) = Joined(Rooted(d))
<1>1. PICK n \in Nat : /\ n = Len(Rooted(d)) /\ \A i \in 1..n : Rooted(d)[i] \in Bytes
  BY RootedIs
<1>2. \A i \in 1..n : Slashed(Rooted(d)[i]) = Rooted(d)[i]
  <2> TAKE i \in 1..n
  <2>1. PICK r \in Nat, m \in Nat : r = d.roots /\ m = Len(d.segments) /\ n = r + m
    BY <1>1, RootedIs
  <2>2. CASE i <= r
    <3>1. Rooted(d)[i] = <<>>
      BY <2>1, <2>2, RootedIs
    <3>2. <<>> \in Bytes /\ Len(<<>>) = 0 /\ \A j \in 1..0 : <<>>[j] # Backslash
      BY DEF Bytes
    <3>3. Slashed(<<>>) = <<>>
      BY <3>2, SlashedIs
    <3> QED
      BY <3>1, <3>3
  <2>3. CASE ~(i <= r)
    <3>1. i - r \in 1..m /\ r + (i - r) = i
      BY <2>1, <2>3, SMTT(30)
    <3>2. PICK s \in Segment : s = d.segments[i - r] /\ Rooted(d)[i] = s
      <4>1. d.segments[i - r] \in Segment /\ Rooted(d)[r + (i - r)] = d.segments[i - r]
        BY <2>1, <3>1, RootedIs
      <4> QED
        BY <3>1, <4>1
    <3>3. s \in Bytes /\ \A j \in 1..Len(s) : s[j] # Backslash
      BY SegmentIs
    <3> QED
      BY <3>2, <3>3, SlashedIs
  <2> QED
    BY <2>2, <2>3
<1>3. ASSUME NEW c \in {Slash, Backslash} PROVE <<c>> \in Bytes /\ Slashed(<<c>>) = <<Slash>>
  <2>1. <<c>> \in Bytes /\ Len(<<c>>) = 1 /\ <<c>>[1] = c /\ 1 \in 1..1
    BY DEF Slash, Backslash, Bytes
  <2>2. PICK t \in Bytes : t = Slashed(<<c>>) /\ Len(t) = 1 /\ t[1] = Slash
    BY <2>1, SlashedIs
  <2>3. t = <<Slash>>
    BY <2>2 DEF Bytes
  <2> QED
    BY <2>1, <2>2, <2>3
<1>4. CASE d.encoding # "path"
  <2>1. Parts(d) = Rooted(d) /\ p = n
    BY <1>1, <1>4 DEF Parts
  <2>2. Separator(d) \in {Slash, Backslash}
    BY <1>4 DEF Separator, Doc
  <2>3. Glue(d) = <<Separator(d)>>
    BY <2>2 DEF Glue, Slash, Backslash
  <2>4. NameUpTo(d, p) = Join(Glue(d), Rooted(d), n)
    BY <2>1 DEF NameUpTo
  <2>5. Slashed(Join(Glue(d), Rooted(d), n)) = Join(<<Slash>>, Rooted(d), n)
    BY <1>1, <1>2, <1>3, <2>2, <2>3, SlashedJoin
  <2> QED
    BY <1>1, <2>4, <2>5 DEF Joined
<1>5. CASE d.encoding = "path"
  <2>1. PICK j \in Bytes : j = Joined(Rooted(d))
    <3>1. Join(<<Slash>>, Rooted(d), n) \in Bytes
      BY <1>1, <1>3, JoinIs
    <3> QED
      BY <1>1, <3>1 DEF Joined
  <2>2. Parts(d) = <<j>>
    BY <1>5, <2>1 DEF Parts
  <2>3. p = 1 /\ Parts(d)[1] = j /\ 1 - 1 = 0 /\ 1 \in 1..p
    BY <2>2
  <2>4. NameUpTo(d, 1) = NameUpTo(d, 1 - 1) \o (IF 1 > 1 THEN Glue(d) ELSE <<>>) \o Parts(d)[1]
    BY <2>3, NamesUpTo
  <2>a. NameUpTo(d, 0) = <<>> /\ (IF 1 > 1 THEN Glue(d) ELSE <<>>) = <<>>
    <3>1. NameUpTo(d, 0) = <<>>
      BY NamesUpTo
    <3>2. ~(1 > 1)
      OBVIOUS
    <3> QED
      BY <3>1, <3>2
  <2>5. NameUpTo(d, 1) = <<>> \o <<>> \o j
    BY <2>3, <2>4, <2>a
  <2>6. NameUpTo(d, 1) = j
    BY <2>5 DEF Bytes
  <2>7. Slashed(j) = j
    <3>1. Slashed(Join(<<Slash>>, Rooted(d), n)) = Join(<<Slash>>, Rooted(d), n)
      BY <1>1, <1>2, <1>3, SlashedJoin
    <3> QED
      BY <1>1, <2>1, <3>1 DEF Joined
  <2> QED
    BY <2>1, <2>3, <2>6, <2>7
<1> QED
  BY <1>4, <1>5

\* What a concatenation has, by lengths that are named.
LEMMA BothAre ==
    ASSUME NEW a \in Bytes, NEW b \in Bytes, NEW n \in Nat, n = Len(a), NEW m \in Nat, m = Len(b)
    PROVE  /\ a \o b \in Bytes /\ Len(a \o b) = n + m
           /\ \A i \in 1..n : (a \o b)[i] = a[i]
           /\ \A i \in 1..m : (a \o b)[n + i] = b[i]
<1>1. Begins(a, a \o b) /\ Holds(a \o b, Len(a), b) /\ a \o b \in Bytes
  BY HoldsAppended
<1>2. Len(a \o b) = Len(a) + Len(b)
  BY ConcatProperties DEF Bytes
<1> QED
  BY <1>1, <1>2 DEF Begins, Holds

\* The slashes of some roots.
Slashes(n) == [i \in 1..n |-> Slash]

\* How many they are.
LEMMA SlashesIs ==
    ASSUME NEW n \in Nat
    PROVE  /\ Slashes(n) \in Bytes /\ Len(Slashes(n)) = n /\ (n = 0 => Slashes(n) = <<>>)
           /\ \A i \in 1..n : Slashes(n)[i] = Slash
<1> DEFINE s == Slashes(n)
<1>1. s = [i \in 1..n |-> s[i]] /\ \A i \in 1..n : s[i] = Slash
  BY DEF Slashes
<1> HIDE DEF s
<1>2. s \in Seq(Nat) /\ Len(s) = n
  <2>1. \A i \in 1..n : s[i] \in Nat
    BY <1>1 DEF Slash
  <2> QED
    BY <1>1, <2>1, SeqOfFunction
<1>3. n = 0 => s = <<>>
  BY <1>2
<1> QED
  BY <1>1, <1>2, <1>3 DEF s, Bytes

\* One after the others.
LEMMA OneMoreSlash ==
    ASSUME NEW n \in Nat, n > 0
    PROVE  Slashes(n - 1) \o <<Slash>> = Slashes(n)
<1>1. PICK k \in Nat : n = k + 1 /\ k = n - 1
  OBVIOUS
<1>2. PICK a \in Bytes : a = Slashes(k) /\ Len(a) = k /\ \A i \in 1..k : a[i] = Slash
  BY SlashesIs
<1>3. PICK b \in Bytes : b = <<Slash>> /\ Len(b) = 1 /\ b[1] = Slash
  <2>1. <<Slash>> \in Bytes
    BY DEF Slash, Bytes
  <2>2. PICK b \in Bytes : b = <<Slash>>
    BY <2>1
  <2> QED
    BY <2>2
<1>4. PICK c \in Bytes : c = Slashes(n) /\ Len(c) = n /\ \A i \in 1..n : c[i] = Slash
  BY SlashesIs
<1>5. PICK s \in Bytes : /\ s = a \o b /\ Len(s) = k + 1
                         /\ \A i \in 1..k : s[i] = a[i]
                         /\ \A i \in 1..1 : s[k + i] = b[i]
  <2>0. a \o b \in Bytes
    BY HoldsAppended
  <2>1. \A i \in 1..k : (a \o b)[i] = a[i]
    BY <1>2, HoldsAppended DEF Begins
  <2>3. Len(a \o b) = k + 1
    BY <1>2, <1>3, BothAre
  <2>2. \A i \in 1..1 : (a \o b)[k + i] = b[i]
    BY <1>2, <1>3, BothAre
  <2> QED
    BY <2>0, <2>1, <2>2, <2>3
<1>6. \A i \in 1..n : s[i] = Slash
  <2> TAKE i \in 1..n
  <2>1. CASE i = k + 1
    <3>1. 1 \in 1..1
      OBVIOUS
    <3> QED
      BY <1>3, <1>5, <2>1, <3>1
  <2>2. CASE i # k + 1
    <3>1. i \in 1..k
      BY <1>1, <2>2
    <3> QED
      BY <1>2, <1>5, <3>1
  <2> QED
    BY <2>1, <2>2
<1>7. s = c
  <2>1. Len(s) = Len(c) /\ \A i \in 1..Len(s) : s[i] = c[i]
    BY <1>1, <1>4, <1>5, <1>6
  <2> QED
    BY <2>1, SeqEqual DEF Bytes
<1> QED
  BY <1>1, <1>2, <1>3, <1>4, <1>5, <1>7

\* A path that was joined begins with its first segment.
LEMMA JoinedIs ==
    ASSUME NEW m \in Nat, NEW segments, \A i \in 1..m : segments[i] \in Segment
    PROVE  /\ \A k \in 0..m : Join(<<Slash>>, segments, k) \in Bytes
           /\ \A k \in 1..m :
                  /\ Len(Join(<<Slash>>, segments, k)) >= 1
                  /\ Join(<<Slash>>, segments, k)[1] # Slash
                  /\ k = 1 => Join(<<Slash>>, segments, k) = segments[k]
                  /\ k > 1 => Join(<<Slash>>, segments, k)
                                  = Join(<<Slash>>, segments, k - 1) \o <<Slash>> \o segments[k]
<1> DEFINE J(k) == Join(<<Slash>>, segments, k)
<1>1. <<Slash>> \in Bytes
  BY DEF Slash, Bytes
<1>2. ASSUME NEW k \in 0..m
      PROVE  /\ J(k) \in Bytes /\ (k = 0 => J(k) = <<>>)
             /\ k > 0 => /\ J(k - 1) \in Bytes
                         /\ J(k) = J(k - 1) \o (IF k > 1 THEN <<Slash>> ELSE <<>>) \o segments[k]
  <2>1. k \in Nat /\ \A i \in 1..k : segments[i] \in Bytes
    BY SegmentIs
  <2> QED
    BY <1>1, <2>1, JoinIs
<1> HIDE DEF J
<1>3. ASSUME NEW k \in 1..m, k = 1 PROVE J(k) = segments[k]
  <2>1. k \in 0..m /\ k > 0 /\ 0 \in 0..m /\ k - 1 = 0 /\ ~(k > 1)
    BY <1>3
  <2>2. PICK s \in Bytes : s = segments[k]
    BY SegmentIs
  <2>3. J(k) = <<>> \o <<>> \o s
    BY <1>2, <2>1, <2>2
  <2> QED
    BY <2>2, <2>3 DEF Bytes
<1>4. ASSUME NEW k \in 1..m, k > 1 PROVE J(k) = J(k - 1) \o <<Slash>> \o segments[k]
  <2>1. k \in 0..m /\ k > 0
    OBVIOUS
  <2> QED
    BY <1>2, <1>4, <2>1
<1> DEFINE N == {k \in 0..m : k > 0 => Len(J(k)) >= 1 /\ J(k)[1] # Slash}
<1>5. 0 \in N
  OBVIOUS
<1>6. ASSUME NEW k \in 1..m, k - 1 \in N PROVE k \in N
  <2>1. PICK s \in Bytes : s = segments[k] /\ Len(s) >= 1 /\ s[1] # Slash
    <3>1. PICK s \in Segment : s = segments[k]
      OBVIOUS
    <3>2. s \in Bytes /\ Len(s) >= 1 /\ \A i \in 1..Len(s) : s[i] \in Byte \ {Slash, Backslash}
      BY SegmentIs
    <3>3. Len(s) \in Nat
      BY <3>2 DEF Bytes
    <3>4. 1 \in 1..Len(s)
      BY <3>2, <3>3
    <3> QED
      BY <3>1, <3>2, <3>4
  <2>2. CASE k = 1
    <3>1. J(k) = s
      BY <1>3, <2>1, <2>2
    <3> QED
      BY <2>1, <3>1
  <2>3. CASE k # 1
    <3>0. k > 1 /\ k - 1 \in 0..m /\ k - 1 > 0
      BY <2>3
    <3>1. PICK a \in Bytes, n \in Nat : a = J(k - 1) /\ n = Len(a) /\ n >= 1 /\ a[1] # Slash
      <4>1. J(k - 1) \in Bytes /\ Len(J(k - 1)) >= 1 /\ J(k - 1)[1] # Slash
        BY <1>2, <1>6, <3>0
      <4> QED
        BY <4>1 DEF Bytes
    <3>2. PICK b \in Bytes, l \in Nat : b = <<Slash>> \o s /\ l = Len(b)
      <4>1. PICK b \in Bytes : b = <<Slash>> \o s
        BY <1>1, <2>1, HoldsAppended
      <4>2. PICK l \in Nat : l = Len(b)
        BY DEF Bytes
      <4> QED
        BY <4>1, <4>2
    <3>3. J(k) = a \o b
      <4>1. J(k) = a \o <<Slash>> \o s
        BY <1>4, <2>1, <3>0, <3>1
      <4>2. PICK g \in Bytes : g = <<Slash>>
        BY <1>1
      <4>3. (a \o g) \o s = a \o (g \o s)
        <5>1. a \in Bytes /\ g \in Bytes /\ s \in Bytes
          BY <2>1, <3>1, <4>2
        <5>2. Associates(a, g, s)
          BY <5>1, BytesAssociate
        <5> QED
          BY <5>2 DEF Associates
      <4> QED
        BY <3>2, <4>1, <4>2, <4>3
    <3>4. Len(a \o b) = n + l /\ (a \o b)[1] = a[1]
      <4>1. 1 \in 1..n
        BY <3>1
      <4> QED
        BY <3>1, <3>2, <4>1, BothAre
    <3>5. n + l >= 1
      BY <3>1
    <3> QED
      BY <3>1, <3>3, <3>4, <3>5
  <2> QED
    BY <2>2, <2>3
<1>7. \A k \in 0..m : k \in N
  <2> HIDE DEF N
  <2> QED
    BY <1>5, <1>6, Induction
<1>8. \A k \in 1..m : Len(J(k)) >= 1 /\ J(k)[1] # Slash
  BY <1>7
<1> QED
  BY <1>2, <1>3, <1>4, <1>8 DEF J

\* A rooted path is the path after its roots.
LEMMA RootsAre ==
    ASSUME NEW d \in Doc
    PROVE  Joined(Rooted(d)) = Slashes(d.roots) \o Joined(d.segments)
<1>1. PICK r \in Nat, m \in Nat : /\ r = d.roots /\ m = Len(d.segments) /\ m > 0
                                  /\ Len(Rooted(d)) = r + m
  <2>1. d.roots \in Nat /\ Len(d.segments) \in Nat \ {0} /\ Len(Rooted(d)) = d.roots + Len(d.segments)
    BY RootedIs
  <2> QED
    BY <2>1
<1>2. <<Slash>> \in Bytes /\ <<>> \in Bytes
  BY DEF Slash, Bytes
<1> DEFINE A(k) == Join(<<Slash>>, Rooted(d), k)
           J(k) == Join(<<Slash>>, d.segments, k)
<1>3. ASSUME NEW k \in 0..(r + m)
      PROVE  /\ A(k) \in Bytes /\ (k = 0 => A(k) = <<>>)
             /\ k > 0 => A(k) = A(k - 1) \o (IF k > 1 THEN <<Slash>> ELSE <<>>) \o Rooted(d)[k]
  <2>1. k \in Nat /\ \A i \in 1..k : i \in 1..(r + m)
    OBVIOUS
  <2>2. \A i \in 1..k : Rooted(d)[i] \in Bytes
    BY <1>1, <2>1, RootedIs
  <2> QED
    BY <1>2, <2>1, <2>2, JoinIs
<1>4. /\ \A k \in 0..m : J(k) \in Bytes
      /\ \A k \in 1..m : /\ k = 1 => J(k) = d.segments[k]
                         /\ k > 1 => J(k) = J(k - 1) \o <<Slash>> \o d.segments[k]
                         /\ d.segments[k] \in Bytes
  <2>1. \A i \in 1..m : d.segments[i] \in Segment /\ d.segments[i] \in Bytes
    BY <1>1, RootedIs
  <2> QED
    BY <2>1, JoinedIs
<1>5. /\ \A i \in 1..r : Rooted(d)[i] = <<>>
      /\ \A i \in 1..m : Rooted(d)[r + i] = d.segments[i]
  BY <1>1, RootedIs
<1> HIDE DEF A, J
<1> DEFINE N == {k \in 0..r : k > 0 => A(k) = Slashes(k - 1)}
<1>6. 0 \in N
  OBVIOUS
<1>7. ASSUME NEW k \in 1..r, k - 1 \in N PROVE k \in N
  <2>1. k \in 0..(r + m) /\ k > 0 /\ k \in 0..r /\ k - 1 \in Nat
    OBVIOUS
  <2>2. A(k) = A(k - 1) \o (IF k > 1 THEN <<Slash>> ELSE <<>>) \o <<>>
    BY <1>3, <1>5, <2>1
  <2>3. CASE k = 1
    <3>1. k - 1 = 0 /\ ~(k > 1) /\ 0 \in 0..(r + m)
      BY <2>3
    <3>2. A(0) = <<>> /\ Slashes(0) = <<>>
      BY <1>3, <3>1, SlashesIs
    <3>3. A(k) = <<>> \o <<>> \o <<>>
      BY <2>2, <3>1, <3>2
    <3>4. <<>> \o <<>> \o <<>> = <<>>
      BY <1>2 DEF Bytes
    <3> QED
      BY <2>1, <3>1, <3>2, <3>3, <3>4
  <2>4. CASE k # 1
    <3>1. k > 1 /\ k - 1 > 0 /\ (k - 1) - 1 \in Nat
      BY <2>4
    <3>2. A(k - 1) = Slashes((k - 1) - 1)
      BY <1>7, <3>1
    <3>3. PICK s \in Bytes : s = Slashes((k - 1) - 1)
      BY <3>1, SlashesIs
    <3>4. A(k) = s \o <<Slash>> \o <<>>
      BY <2>2, <3>1, <3>2, <3>3
    <3>5. (s \o <<Slash>>) \o <<>> = s \o <<Slash>>
      BY <1>2 DEF Bytes
    <3>6. Slashes((k - 1) - 1) \o <<Slash>> = Slashes(k - 1)
      BY <2>1, <3>1, OneMoreSlash
    <3> QED
      BY <2>1, <3>3, <3>4, <3>5, <3>6
  <2> QED
    BY <2>3, <2>4
<1>8. \A k \in 0..r : k \in N
  <2> HIDE DEF N
  <2> QED
    BY <1>6, <1>7, Induction
<1>9. PICK t \in Bytes : t = Slashes(r)
  BY SlashesIs
<1>10. A(r + 1) = t \o J(1)
  <2>1. r + 1 \in 0..(r + m) /\ r + 1 > 0 /\ (r + 1) - 1 = r /\ 1 \in 1..m
    BY <1>1
  <2>2. PICK s \in Bytes : s = d.segments[1] /\ J(1) = s /\ Rooted(d)[r + 1] = s
    BY <1>4, <1>5, <2>1
  <2>3. A(r + 1) = A(r) \o (IF r + 1 > 1 THEN <<Slash>> ELSE <<>>) \o s
    BY <1>3, <2>1, <2>2
  <2>4. CASE r = 0
    <3>1. ~(r + 1 > 1) /\ 0 \in 0..(r + m)
      BY <2>4
    <3>2. A(r) = <<>> /\ t = <<>>
      BY <1>3, <1>9, <2>4, <3>1, SlashesIs
    <3>3. A(r + 1) = <<>> \o <<>> \o s
      BY <2>3, <3>1, <3>2
    <3>4. (<<>> \o <<>>) \o s = <<>> \o s
      BY <1>2 DEF Bytes
    <3> QED
      BY <2>2, <3>2, <3>3, <3>4
  <2>5. CASE r # 0
    <3>1. r + 1 > 1 /\ r \in 0..r /\ r > 0 /\ r - 1 \in Nat
      BY <2>5
    <3>2. A(r) = Slashes(r - 1)
      BY <1>8, <3>1
    <3>3. A(r + 1) = Slashes(r - 1) \o <<Slash>> \o s
      BY <2>3, <3>1, <3>2
    <3>4. Slashes(r - 1) \o <<Slash>> = t
      BY <1>9, <3>1, OneMoreSlash
    <3> QED
      BY <2>2, <3>3, <3>4
  <2> QED
    BY <2>4, <2>5
<1> DEFINE M == {k \in 0..m : k > 0 => A(r + k) = t \o J(k)}
<1>11. 0 \in M
  OBVIOUS
<1>12. ASSUME NEW k \in 1..m, k - 1 \in M PROVE k \in M
  <2>1. k \in 0..m
    OBVIOUS
  <2>2. CASE k = 1
    BY <1>10, <2>1, <2>2
  <2>3. CASE k # 1
    <3>1. k > 1 /\ k - 1 > 0 /\ k - 1 \in 0..m
      BY <2>3
    <3>2. r + k \in 0..(r + m) /\ r + k > 0 /\ r + k > 1 /\ (r + k) - 1 = r + (k - 1)
      BY <3>1
    <3>3. A(r + (k - 1)) = t \o J(k - 1)
      BY <1>12, <3>1
    <3>4. A(r + k) = A(r + (k - 1)) \o <<Slash>> \o Rooted(d)[r + k]
      BY <1>3, <3>2
    <3>5. PICK s \in Bytes, j \in Bytes : s = d.segments[k] /\ Rooted(d)[r + k] = s /\ j = J(k - 1)
      BY <1>4, <1>5, <3>1
    <3>6. J(k) = j \o <<Slash>> \o s
      BY <1>4, <3>1, <3>5
    <3>7. A(r + k) = (t \o j) \o <<Slash>> \o s
      BY <3>3, <3>4, <3>5
    <3>8. (t \o j) \o <<Slash>> \o s = t \o (j \o <<Slash>> \o s)
      <4>1. PICK b \in Bytes : b = <<Slash>>
        BY <1>2
      <4>2. (t \o j) \o b = t \o (j \o b) /\ j \o b \in Bytes
        <5>1. Associates(t, j, b)
          BY <1>9, <3>5, <4>1, BytesAssociate
        <5>2. j \o b \in Bytes
          BY <3>5, <4>1, HoldsAppended
        <5> QED
          BY <5>1, <5>2 DEF Associates
      <4>3. (t \o (j \o b)) \o s = t \o ((j \o b) \o s)
        <5>1. Associates(t, j \o b, s)
          BY <1>9, <3>5, <4>2, BytesAssociate
        <5> QED
          BY <5>1 DEF Associates
      <4> QED
        BY <4>1, <4>2, <4>3
    <3>9. A(r + k) = t \o J(k)
      BY <3>6, <3>7, <3>8
    <3> QED
      BY <2>1, <3>9
  <2> QED
    BY <2>2, <2>3
<1>13. A(r + m) = t \o J(m)
  <2>1. m \in 0..m
    OBVIOUS
  <2>2. m \in M
    <3> HIDE DEF M
    <3> QED
      BY <1>11, <1>12, <2>1, Induction
  <2> QED
    BY <1>1, <2>2
<1> QED
  BY <1>1, <1>9, <1>13 DEF A, J, Joined

\* The least number of a set that has one.
LEMMA MinIs ==
    ASSUME NEW S, NEW m \in S, S \subseteq Nat, \A k \in S : m <= k
    PROVE  Min(S) = m
<1>1. Min(S) \in S /\ \A k \in S : Min(S) <= k
  <2>1. \E x \in S : \A y \in S : x <= y
    OBVIOUS
  <2> QED
    BY <2>1 DEF Min
<1>2. PICK x \in Nat, y \in Nat : x = Min(S) /\ y = m
  BY <1>1
<1>3. x <= y /\ y <= x
  BY <1>1, <1>2
<1> QED
  BY <1>2, <1>3

\* The path of a name is what follows its slashes.
LEMMA RelPathIs ==
    ASSUME NEW name \in Bytes, NEW r \in Nat, NEW j \in Bytes, Len(j) >= 1, j[1] # Slash,
           Slashed(name) = Slashes(r) \o j
    PROVE  RelPath(name) = j
<1>1. PICK l \in Nat, m \in Nat : l = Len(name) /\ m = Len(j) /\ m >= 1 /\ DOMAIN name = 1..l
  BY DEF Bytes
<1>2. PICK t \in Bytes : t = Slashes(r) /\ Len(t) = r /\ \A i \in 1..r : t[i] = Slash
  BY SlashesIs
<1>3. PICK s \in Bytes : s = Slashed(name) /\ Len(s) = l
  BY <1>1, SlashedIs
<1>4. s = t \o j
  BY <1>2, <1>3
<1>5. l = r + m
  <2>0. r = Len(t) /\ m = Len(j) /\ t \in Bytes /\ m \in Nat
    BY <1>1, <1>2
  <2>1. Len(t \o j) = r + m
    BY <2>0, BothAre
  <2> QED
    BY <1>3, <1>4, <2>1
<1>6. \A i \in 1..r : s[i] = Slash
  <2>1. \A i \in 1..r : s[i] = t[i]
    BY <1>2, <1>4, HoldsAppended DEF Begins
  <2> QED
    BY <1>2, <2>1
<1>7. \A i \in 1..m : s[r + i] = j[i]
  <2>0. r = Len(t) /\ m = Len(j) /\ t \in Bytes /\ m \in Nat
    BY <1>1, <1>2
  <2>1. \A i \in 1..m : (t \o j)[r + i] = j[i]
    BY <2>0, BothAre
  <2> QED
    BY <1>4, <2>1
<1> DEFINE first == {i \in 1..l : s[i] # Slash}
<1>8. Min(first) = r + 1 /\ first # {}
  <2>1. r + 1 \in first
    <3>1. 1 \in 1..m /\ r + 1 \in 1..l
      BY <1>1, <1>5
    <3> QED
      BY <1>7, <3>1
  <2>2. \A k \in first : r + 1 <= k
    <3> SUFFICES ASSUME NEW k \in first, ~(r + 1 <= k) PROVE FALSE
      OBVIOUS
    <3>1. k \in 1..r /\ s[k] # Slash
      OBVIOUS
    <3> QED
      BY <1>6, <3>1
  <2>3. first \subseteq Nat
    OBVIOUS
  <2> HIDE DEF first
  <2> QED
    BY <2>1, <2>2, <2>3, MinIs
<1>9. RelPath(name) = SubSeq(s, r + 1, l)
  <2>1. RelPath(name) = IF first = {} THEN <<>> ELSE SubSeq(s, Min(first), Len(name))
    BY <1>1, <1>3 DEF RelPath, Slashed
  <2> HIDE DEF first
  <2> QED
    BY <1>1, <1>8, <2>1
<1>10. SubSeq(s, r + 1, l) = j
  <2>1. \A i \in (r + 1)..l : s[i] \in Nat
    <3>1. \A i \in (r + 1)..l : i \in 1..l
      OBVIOUS
    <3> QED
      BY <1>3, <3>1, BytesAre
  <2> DEFINE u == SubSeq(s, r + 1, l)
  <2>2. /\ u \in Seq(Nat) /\ Len(u) = IF r + 1 <= l THEN l - (r + 1) + 1 ELSE 0
        /\ \A i \in 1..(l - (r + 1) + 1) : u[i] = s[(r + 1) + i - 1]
    BY <2>1, SubSeqProperties
  <2> HIDE DEF u
  <2>3. Len(u) = m
    BY <1>1, <1>5, <2>2
  <2>4. \A i \in 1..m : u[i] = j[i]
    <3> TAKE i \in 1..m
    <3>1. i \in 1..(l - (r + 1) + 1) /\ (r + 1) + i - 1 = r + i
      BY <1>5
    <3> QED
      BY <1>7, <2>2, <3>1
  <2>5. u = j
    <3>1. u \in Bytes
      BY <2>2 DEF Bytes
    <3> QED
      BY <1>1, <2>3, <2>4, <3>1, SameBytes
  <2> QED
    BY <2>5 DEF u
<1> QED
  BY <1>9, <1>10

\* The path of a document is made of its segments, however it was named.
LEMMA PathIs ==
    ASSUME NEW d \in Doc, NEW p, p = Len(Parts(d))
    PROVE  RelPath(NameUpTo(d, p)) = Joined(d.segments)
<1>1. PICK m \in Nat : m = Len(d.segments) /\ m > 0 /\ \A i \in 1..m : d.segments[i] \in Segment
  <2>1. Len(d.segments) \in Nat \ {0} /\ \A i \in 1..Len(d.segments) : d.segments[i] \in Segment
    BY RootedIs
  <2> QED
    BY <2>1
<1>2. m \in 0..m /\ m \in 1..m
  BY <1>1
<1>3. PICK j \in Bytes : j = Joined(d.segments) /\ Len(j) >= 1 /\ j[1] # Slash
  <2>1. /\ Join(<<Slash>>, d.segments, m) \in Bytes
        /\ Len(Join(<<Slash>>, d.segments, m)) >= 1
        /\ Join(<<Slash>>, d.segments, m)[1] # Slash
    BY <1>1, <1>2, JoinedIs, ZenonT(30)
  <2> QED
    BY <1>1, <2>1 DEF Joined
<1>4. PICK name \in Bytes : name = NameUpTo(d, p)
  <2>1. p \in 0..p
    <3>1. Len(Parts(d)) \in Nat
      BY PartsAre
    <3> QED
      BY <3>1
  <2> QED
    BY <2>1, NamesUpTo
<1>5. Slashed(name) = Slashes(d.roots) \o j
  BY <1>3, <1>4, NameIs, RootsAre
<1>6. d.roots \in Nat
  BY RootedIs
<1> QED
  BY <1>3, <1>4, <1>5, <1>6, RelPathIs

-----------------------------------------------------------------------------
(* The segments of a path.                                                 *)

\* Segments so far, and what they are with a byte more of the path.
Splits == Seq(Bytes) \ {<<>>}
SplitMore(x, b) ==
    IF b = Slash THEN Append(x, <<>>) ELSE Append(Front(x), Append(Last(x), b))

\* Splitting goes on along a path.
SplitAlong(path, l, q) ==
    /\ q \in [0..l -> Splits] /\ q[0] = << <<>> >>
    /\ \A i \in 1..l : q[i] = SplitMore(q[i - 1], path[i])

\* The segments before the last and the last one.
LEMMA FrontLast ==
    ASSUME NEW a \in Seq(Bytes), NEW s \in Bytes
    PROVE  Append(a, s) \in Splits /\ Front(Append(a, s)) = a /\ Last(Append(a, s)) = s
<1>0. PICK n \in Nat : n = Len(a)
  OBVIOUS
<1>1. PICK x \in Seq(Bytes) : x = Append(a, s) /\ Len(x) = n + 1
  BY <1>0, AppendProperties
<1>2. x # <<>>
  BY <1>1, AppendProperties
<1>3. x[n + 1] = s /\ \A i \in 1..n : x[i] = a[i]
  BY <1>0, <1>1, AppendProperties
<1>4. Last(x) = s
  BY <1>1, <1>3 DEF Last
<1>5. Front(x) = SubSeq(x, 1, n)
  BY <1>1 DEF Front
<1>6. SubSeq(x, 1, n) = a
  <2>1. /\ SubSeq(x, 1, n) \in Seq(Bytes) /\ Len(SubSeq(x, 1, n)) = n
        /\ \A i \in 1..n : SubSeq(x, 1, n)[i] = x[i]
    BY <1>1
  <2> QED
    BY <1>0, <1>3, <2>1, SeqEqual
<1> QED
  BY <1>1, <1>2, <1>4, <1>5, <1>6 DEF Splits

\* With a byte more they are segments again.
LEMMA SplitMoreIs ==
    ASSUME NEW x \in Splits, NEW b \in Nat
    PROVE  SplitMore(x, b) \in Splits
<1>1. CASE b = Slash
  <2>1. <<>> \in Bytes /\ x \in Seq(Bytes)
    BY DEF Splits, Bytes
  <2> QED
    BY <1>1, <2>1, FrontLast DEF SplitMore
<1>2. CASE b # Slash
  <2>1. PICK n \in Nat : n = Len(x) /\ n >= 1 /\ x \in Seq(Bytes)
    <3>1. x \in Seq(Bytes) /\ x # <<>>
      BY DEF Splits
    <3>2. Len(x) \in Nat /\ Len(x) # 0
      BY <3>1, EmptySeq
    <3> QED
      BY <3>1, <3>2
  <2>2. x[n] \in Bytes
    BY <2>1
  <2>3. Last(x) \in Bytes
    BY <2>1, <2>2 DEF Last
  <2>4. Append(Last(x), b) \in Bytes
    BY <2>3 DEF Bytes
  <2>5. Front(x) \in Seq(Bytes)
    <3>1. \A i \in 1..(n - 1) : x[i] \in Bytes
      BY <2>1
    <3>2. SubSeq(x, 1, n - 1) \in Seq(Bytes)
      BY <2>1, <3>1, SubSeqProperties
    <3> QED
      BY <2>1, <3>2 DEF Front
  <2> QED
    BY <1>2, <2>4, <2>5, FrontLast DEF SplitMore
<1> QED
  BY <1>1, <1>2

\* Split is where this leads to.
LEMMA SplitIs ==
    ASSUME NEW path \in Bytes, NEW l \in Nat, l = Len(path)
    PROVE  \E q : SplitAlong(path, l, q) /\ Split(path) = q[l]
<1> DEFINE next == [i \in 1..l |-> [x \in Splits |-> SplitMore(x, path[i])]]
           base == << <<>> >>
           Up(u) == [i \in 0..l |-> IF i = 0 THEN base
                                    ELSE IF path[i] = Slash THEN Append(u[i - 1], <<>>)
                                    ELSE Append(Front(u[i - 1]), Append(Last(u[i - 1]), path[i]))]
<1>1. base \in Splits
  <2>1. <<>> \in Bytes
    BY DEF Bytes
  <2> QED
    BY <2>1 DEF Splits
<1>2. \A i \in 1..l : \A x \in Splits : next[i][x] = SplitMore(x, path[i])
  OBVIOUS
<1>3. \A i \in 1..l : path[i] \in Nat
  BY BytesAre
<1>4. \A i \in 1..l : \A x \in Splits : next[i][x] \in Splits
  BY <1>2, <1>3, SplitMoreIs
<1> HIDE DEF next, base
<1>5. PICK r : Follows(r, l, Splits, base, next)
  BY <1>1, <1>4, Recursion
<1>6. \A i \in 1..l : i - 1 \in 0..l /\ i \in 0..l /\ i # 0
  OBVIOUS
<1> DEFINE h == CHOOSE u : u = Up(u)
<1>7. r = Up(r)
  <2>1. r \in [0..l -> Splits] /\ r[0] = base /\ \A i \in 1..l : r[i] = next[i][r[i - 1]]
    BY <1>5 DEF Follows
  <2>2. ASSUME NEW i \in 0..l PROVE r[i] = Up(r)[i]
    <3>1. CASE i = 0
      BY <2>1, <3>1
    <3>2. CASE i # 0
      <4>1. i \in 1..l /\ i - 1 \in 0..l
        BY <3>2
      <4>2. r[i] = SplitMore(r[i - 1], path[i])
        BY <1>2, <2>1, <4>1
      <4> QED
        BY <3>2, <4>2 DEF SplitMore
    <3> QED
      BY <3>1, <3>2
  <2> QED
    BY <2>1, <2>2
<1>8. h = Up(h)
  <2> HIDE DEF Up
  <2> QED
    BY <1>7
<1>9. Split(path) = h[l]
  BY DEF Split, base
<1> HIDE DEF h
<1>10. h[0] = base /\ h = [i \in 0..l |-> h[i]]
  BY <1>8
<1>11. \A i \in 1..l : h[i] = SplitMore(h[i - 1], path[i])
  BY <1>6, <1>8 DEF SplitMore
<1>12. Follows(h, l, Splits, base, next)
  <2>1. \A i \in 1..l : h[i - 1] \in Splits => h[i] = next[i][h[i - 1]]
    BY <1>2, <1>11
  <2> QED
    BY <1>1, <1>4, <1>10, <2>1, Following
<1>13. SplitAlong(path, l, h)
  BY <1>10, <1>11, <1>12 DEF Follows, SplitAlong, base
<1> QED
  BY <1>9, <1>13

\* After k bytes of a path there were some segments, and a new one comes.
SegmentComes(path, l, q, k, before, s, m) ==
    /\ path \in Bytes /\ l \in Nat /\ SplitAlong(path, l, q)
    /\ k \in 0..l /\ before \in Seq(Bytes) /\ q[k] = Append(before, <<>>)
    /\ s \in Bytes /\ m = Len(s) /\ k + m <= l
    /\ \A i \in 1..m : s[i] # Slash /\ path[k + i] = s[i]

\* A segment of the path becomes the last one.
LEMMA SplitSegment ==
    ASSUME NEW path, NEW l, NEW q, NEW k, NEW before, NEW s, NEW m,
           SegmentComes(path, l, q, k, before, s, m)
    PROVE  q[k + m] = Append(before, s)
<1> DEFINE Up(i) == SubSeq(s, 1, i)
           N == {i \in 0..m : q[k + i] = Append(before, Up(i))}
<1>0. /\ l \in Nat /\ m \in Nat /\ m = Len(s) /\ k \in 0..l /\ k + m <= l /\ s \in Bytes
      /\ before \in Seq(Bytes) /\ q[k] = Append(before, <<>>)
      /\ \A i \in 1..l : q[i] = SplitMore(q[i - 1], path[i])
      /\ \A i \in 1..m : s[i] # Slash /\ path[k + i] = s[i]
  <2>1. m \in Nat
    BY DEF SegmentComes, Bytes
  <2> QED
    BY <2>1 DEF SegmentComes, SplitAlong
<1>1. Up(0) = <<>> /\ Up(m) = s
  <2>1. Up(0) = <<>>
    BY SubSeqEmpty
  <2>2. Up(m) = s
    BY <1>0, SubSeqFull DEF Bytes
  <2> QED
    BY <2>1, <2>2
<1>2. ASSUME NEW i \in 1..m
      PROVE  Up(i) = Append(Up(i - 1), s[i]) /\ Up(i - 1) \in Bytes
  <2>1. s \in Seq(Nat) /\ 1 \in 1..Len(s) /\ i \in 1..Len(s)
    BY <1>0 DEF Bytes
  <2>2. SubSeq(s, 1, i) = SubSeq(s, 1, i - 1) \o <<s[i]>>
    BY <2>1, SubSeqRecursiveSecond
  <2>3. SubSeq(s, 1, i - 1) \in Seq(Nat) /\ s[i] \in Nat
    BY <2>1
  <2>4. SubSeq(s, 1, i - 1) \o <<s[i]>> = Append(SubSeq(s, 1, i - 1), s[i])
    BY <2>3, AppendIsConcat
  <2> QED
    BY <2>2, <2>3, <2>4 DEF Bytes
<1> HIDE DEF Up
<1>3. 0 \in N
  <2>1. k + 0 = k /\ 0 \in 0..m
    BY <1>0
  <2> QED
    BY <1>0, <1>1, <2>1
<1>4. ASSUME NEW i \in 1..m, i - 1 \in N PROVE i \in N
  <2>1. /\ k + i \in 1..l /\ (k + i) - 1 = k + (i - 1) /\ i \in 0..m
        /\ s[i] # Slash /\ path[k + i] = s[i]
    BY <1>0
  <2>2. q[k + i] = SplitMore(q[k + (i - 1)], s[i])
    BY <1>0, <2>1
  <2>3. q[k + (i - 1)] = Append(before, Up(i - 1))
    BY <1>4
  <2>4. Front(Append(before, Up(i - 1))) = before /\ Last(Append(before, Up(i - 1))) = Up(i - 1)
    BY <1>0, <1>2, FrontLast
  <2>5. q[k + i] = Append(before, Append(Up(i - 1), s[i]))
    BY <2>1, <2>2, <2>3, <2>4 DEF SplitMore
  <2> QED
    BY <1>2, <2>1, <2>5
<1>5. m \in N
  <2>1. m \in 0..m
    BY <1>0
  <2> HIDE DEF N
  <2> QED
    BY <1>0, <1>3, <1>4, <2>1, Induction
<1> QED
  BY <1>1, <1>5

\* A segment alone.
LEMMA SplitOne ==
    ASSUME NEW s \in Segment
    PROVE  Split(s) = <<s>>
<1>1. PICK m \in Nat : m = Len(s) /\ s \in Bytes /\ \A i \in 1..m : s[i] # Slash
  <2>1. s \in Bytes /\ \A i \in 1..Len(s) : s[i] # Slash
    BY SegmentIs
  <2> QED
    BY <2>1 DEF Bytes
<1>2. PICK q : SplitAlong(s, m, q) /\ Split(s) = q[m]
  BY <1>1, SplitIs
<1>3. PICK k \in 0..m, before \in Seq(Bytes) : k = 0 /\ before = <<>> /\ k + m = m
  <2>1. 0 \in 0..m /\ 0 + m = m
    OBVIOUS
  <2>2. <<>> \in Seq(Bytes)
    OBVIOUS
  <2> QED
    BY <2>1, <2>2
<1>4. q[k] = Append(before, <<>>)
  BY <1>2, <1>3 DEF SplitAlong
<1>5. q[k + m] = Append(before, s)
  <2>1. \A i \in 1..m : s[i] # Slash /\ s[k + i] = s[i]
    BY <1>1, <1>3
  <2>2. k + m <= m
    BY <1>3
  <2>3. SegmentComes(s, m, q, k, before, s, m)
    BY <1>1, <1>2, <1>4, <2>1, <2>2 DEF SegmentComes
  <2> QED
    BY <2>3, SplitSegment
<1> QED
  BY <1>2, <1>3, <1>5

\* A path with a segment more.
LEMMA SplitAppended ==
    ASSUME NEW a \in Bytes, NEW s \in Segment
    PROVE  Split(a \o <<Slash>> \o s) = Append(Split(a), s) /\ Split(a) \in Seq(Bytes)
<1>1. PICK n \in Nat, m \in Nat, b \in Bytes :
          n = Len(a) /\ m = Len(s) /\ s \in Bytes /\ b = <<Slash>> /\ Len(b) = 1 /\ b[1] = Slash
  <2>1. s \in Bytes /\ <<Slash>> \in Bytes /\ Len(<<Slash>>) = 1 /\ <<Slash>>[1] = Slash
    BY SegmentIs DEF Slash, Bytes
  <2>2. Len(a) \in Nat /\ Len(s) \in Nat
    BY <2>1 DEF Bytes
  <2> QED
    BY <2>1, <2>2
<1>2. \A i \in 1..m : s[i] # Slash
  BY <1>1, SegmentIs
<1>3. PICK e \in Bytes, k \in Nat : e = a \o b /\ k = Len(e) /\ k = n + 1
  <2>1. a \o b \in Bytes
    BY HoldsAppended
  <2>2. Len(a \o b) = n + 1
    BY <1>1, BothAre
  <2>3. n + 1 \in Nat
    OBVIOUS
  <2> QED
    BY <2>1, <2>2, <2>3
<1>4. (\A i \in 1..n : e[i] = a[i]) /\ e[k] = Slash
  <2>1. \A i \in 1..n : e[i] = a[i]
    BY <1>1, <1>3, HoldsAppended DEF Begins
  <2>2. e[n + 1] = b[1]
    <3>1. \A i \in 1..1 : (a \o b)[n + i] = b[i]
      BY <1>1, BothAre
    <3>2. 1 \in 1..1
      OBVIOUS
    <3> QED
      BY <1>3, <3>1, <3>2
  <2> QED
    BY <1>1, <1>3, <2>1, <2>2
<1>5. PICK c \in Bytes, l \in Nat : c = e \o s /\ l = Len(c) /\ l = k + m
  <2>1. e \o s \in Bytes
    BY <1>1, HoldsAppended
  <2>2. Len(e \o s) = k + m
    BY <1>1, <1>3, BothAre
  <2>3. k + m \in Nat
    OBVIOUS
  <2> QED
    BY <2>1, <2>2, <2>3
<1>6. (\A i \in 1..k : c[i] = e[i]) /\ (\A i \in 1..m : c[k + i] = s[i])
  <2>1. \A i \in 1..k : c[i] = e[i]
    BY <1>1, <1>3, <1>5, HoldsAppended DEF Begins
  <2>2. \A i \in 1..m : (e \o s)[k + i] = s[i]
    BY <1>1, <1>3, BothAre
  <2> QED
    BY <1>5, <2>1, <2>2
<1>7. \A i \in 1..n : c[i] = a[i]
  <2> TAKE i \in 1..n
  <2>1. i \in 1..k
    BY <1>3
  <2> QED
    BY <1>4, <1>6, <2>1
<1>8. c[k] = Slash
  <2>1. k \in 1..k
    BY <1>3
  <2> QED
    BY <1>4, <1>6, <2>1
<1>9. PICK q : SplitAlong(c, l, q) /\ Split(c) = q[l]
  BY <1>5, SplitIs
<1>10. PICK u : SplitAlong(a, n, u) /\ Split(a) = u[n]
  BY <1>1, SplitIs
<1>11. q[n] = u[n] /\ u[n] \in Splits
  <2> DEFINE N == {i \in 0..n : q[i] = u[i]}
  <2>1. 0 \in N
    BY <1>9, <1>10 DEF SplitAlong
  <2>2. ASSUME NEW i \in 1..n, i - 1 \in N PROVE i \in N
    <3>0. i \in 1..l /\ i \in 0..n
      BY <1>3, <1>5
    <3>1. q[i - 1] = u[i - 1] /\ c[i] = a[i]
      BY <1>7, <2>2
    <3>2. q[i] = SplitMore(q[i - 1], c[i]) /\ u[i] = SplitMore(u[i - 1], a[i])
      BY <1>9, <1>10, <3>0 DEF SplitAlong
    <3> QED
      BY <3>0, <3>1, <3>2
  <2>3. n \in 0..n
    OBVIOUS
  <2> HIDE DEF N
  <2>4. n \in N
    BY <2>1, <2>2, <2>3, Induction
  <2>5. u[n] \in Splits
    BY <1>10, <2>3 DEF SplitAlong
  <2> QED
    BY <2>4, <2>5 DEF N
<1>12. q[k] = Append(Split(a), <<>>) /\ Split(a) \in Seq(Bytes)
  <2>1. k \in 1..l /\ k - 1 = n
    BY <1>3, <1>5
  <2>2. q[k] = SplitMore(q[n], Slash)
    BY <1>8, <1>9, <2>1 DEF SplitAlong
  <2> QED
    BY <1>10, <1>11, <2>2 DEF SplitMore, Splits
<1>13. q[k + m] = Append(Split(a), s)
  <2>1. k \in 0..l /\ k + m <= l
    BY <1>3, <1>5
  <2>2. \A i \in 1..m : s[i] # Slash /\ c[k + i] = s[i]
    BY <1>2, <1>6
  <2>3. SegmentComes(c, l, q, k, Split(a), s, m)
    BY <1>1, <1>9, <1>12, <2>1, <2>2 DEF SegmentComes
  <2> QED
    BY <2>3, SplitSegment
<1> QED
  BY <1>1, <1>3, <1>5, <1>9, <1>12, <1>13

\* The path of a document splits into its segments.
LEMMA SplitJoined ==
    ASSUME NEW d \in Doc
    PROVE  Split(Joined(d.segments)) = d.segments
<1>1. PICK m \in Nat : /\ m = Len(d.segments) /\ m > 0 /\ DOMAIN d.segments = 1..m
                       /\ d.segments \in Seq(Bytes)
                       /\ \A i \in 1..m : d.segments[i] \in Segment /\ d.segments[i] \in Bytes
  <2>1. /\ Len(d.segments) \in Nat \ {0} /\ d.segments \in Seq(Segment)
        /\ \A i \in 1..Len(d.segments) : d.segments[i] \in Segment /\ d.segments[i] \in Bytes
    BY RootedIs
  <2>2. d.segments \in Seq(Bytes)
    BY <2>1, SeqOfElements
  <2> QED
    BY <2>1, <2>2
<1> DEFINE J(k) == Join(<<Slash>>, d.segments, k)
           Up(k) == [i \in 1..k |-> d.segments[i]]
           N == {k \in 0..m : k > 0 => Split(J(k)) = Up(k)}
<1>2. /\ \A k \in 0..m : J(k) \in Bytes
      /\ \A k \in 1..m : /\ k = 1 => J(k) = d.segments[k]
                         /\ k > 1 => J(k) = J(k - 1) \o <<Slash>> \o d.segments[k]
  BY <1>1, JoinedIs, ZenonT(30)
<1>3. \A k \in 0..m : Up(k) \in Seq(Bytes) /\ Len(Up(k)) = k /\ \A i \in 1..k : Up(k)[i] = d.segments[i]
  BY <1>1
<1> HIDE DEF J, Up
<1>4. 0 \in N
  OBVIOUS
<1>5. ASSUME NEW k \in 1..m, k - 1 \in N PROVE k \in N
  <2>1. k \in 0..m /\ d.segments[k] \in Segment /\ d.segments[k] \in Bytes
    BY <1>1
  <2>2. CASE k = 1
    <3>1. Split(J(k)) = <<d.segments[k]>>
      BY <1>2, <2>1, <2>2, SplitOne
    <3>2. <<d.segments[k]>> = Up(k)
      <4>1. PICK s \in Bytes : s = d.segments[k]
        BY <2>1
      <4>2. <<s>> \in Seq(Bytes) /\ Len(<<s>>) = 1 /\ <<s>>[1] = s
        OBVIOUS
      <4>3. Up(k) \in Seq(Bytes) /\ Len(Up(k)) = 1 /\ Up(k)[1] = s
        <5>1. 1 \in 1..1
          OBVIOUS
        <5> QED
          BY <1>3, <2>1, <2>2, <4>1, <5>1
      <4>4. \A i \in 1..1 : <<s>>[i] = Up(k)[i]
        BY <4>2, <4>3
      <4> QED
        BY <4>1, <4>2, <4>3, <4>4, SeqEqual
    <3> QED
      BY <2>1, <3>1, <3>2
  <2>3. CASE k # 1
    <3>1. k > 1 /\ k - 1 > 0 /\ k - 1 \in 0..m
      BY <2>3
    <3>2. J(k) = J(k - 1) \o <<Slash>> \o d.segments[k]
      BY <1>2, <3>1
    <3>3. Split(J(k)) = Append(Split(J(k - 1)), d.segments[k])
      BY <1>2, <2>1, <3>1, <3>2, SplitAppended
    <3>4. Split(J(k - 1)) = Up(k - 1)
      BY <1>5, <3>1
    <3>5. PICK u \in Seq(Bytes), s \in Bytes, v \in Seq(Bytes) :
              u = Up(k - 1) /\ s = d.segments[k] /\ v = Up(k)
      BY <1>3, <2>1, <3>1
    <3>6. /\ Len(u) = k - 1 /\ Len(v) = k /\ v[k] = s
          /\ \A i \in 1..(k - 1) : v[i] = u[i]
      <4>1. k \in 1..k /\ \A i \in 1..(k - 1) : i \in 1..k
        OBVIOUS
      <4> QED
        BY <1>3, <2>1, <3>1, <3>5, <4>1
    <3>7. Append(u, s) \in Seq(Bytes) /\ Len(Append(u, s)) = k /\ \A i \in 1..k : Append(u, s)[i] = v[i]
      BY <3>6
    <3>8. Append(u, s) = v
      BY <3>6, <3>7, SeqEqual
    <3> QED
      BY <2>1, <3>3, <3>4, <3>5, <3>8
  <2> QED
    BY <2>2, <2>3
<1>6. m \in N
  <2>1. m \in 0..m
    OBVIOUS
  <2> HIDE DEF N
  <2> QED
    BY <1>4, <1>5, <2>1, Induction
<1>7. Up(m) = d.segments
  <2>1. m \in 0..m
    OBVIOUS
  <2> QED
    BY <1>1, <1>3, <2>1, SeqEqual
<1> QED
  BY <1>1, <1>6, <1>7 DEF J, Joined

-----------------------------------------------------------------------------
(* The blob of a source.                                                  *)

\* The four bytes of a size are those of the same size.
LEMMA SizeRoundTrip ==
    ASSUME NEW n \in Sizes, NEW b,
           \A i \in 1..4 : b[i] = (n \div 256^(i - 1)) % 256
    PROVE  Int32(b) = n
<1>0. /\ 2^8 = 256 /\ 2^16 = 65536 /\ 2^24 = 16777216 /\ 2^30 = 64 * 16777216
      /\ 256^0 = 1 /\ 256^1 = 256 /\ 256^2 = 65536 /\ 256^3 = 16777216
  OBVIOUS
<1>1. n \in Int /\ n >= -(128 * 16777216) /\ n < 128 * 16777216
  BY <1>0 DEF Sizes
<1>2. PICK p \in 0..255, q \in Int : n = q * 256 + p
  <2>1. n % 256 \in 0..255 /\ n \div 256 \in Int /\ n = (n \div 256) * 256 + (n % 256)
    BY <1>1
  <2> QED
    BY <2>1
<1>3. PICK c \in 0..255, d \in Int : q = d * 256 + c
  <2>1. q % 256 \in 0..255 /\ q \div 256 \in Int /\ q = (q \div 256) * 256 + (q % 256)
    OBVIOUS
  <2> QED
    BY <2>1
<1>4. PICK e \in 0..255, g \in Int : d = g * 256 + e
  <2>1. d % 256 \in 0..255 /\ d \div 256 \in Int /\ d = (d \div 256) * 256 + (d % 256)
    OBVIOUS
  <2> QED
    BY <2>1
<1>5. n = g * 16777216 + e * 65536 + c * 256 + p
  BY <1>2, <1>3, <1>4
<1>6. g \in -128..127
  BY <1>1, <1>5
<1>7. n \div 1 = n /\ n \div 256 = q /\ n \div 65536 = d /\ n \div 16777216 = g
  BY <1>1, <1>2, <1>3, <1>4, <1>5
<1>8. n % 256 = p /\ q % 256 = c /\ d % 256 = e
  BY <1>2, <1>3, <1>4
<1>9. g % 256 = IF g >= 0 THEN g ELSE g + 256
  BY <1>6
<1>10. b[1] = p /\ b[2] = c /\ b[3] = e /\ b[4] = IF g >= 0 THEN g ELSE g + 256
  <2>1. /\ b[1] = (n \div 256^(1 - 1)) % 256 /\ b[2] = (n \div 256^(2 - 1)) % 256
        /\ b[3] = (n \div 256^(3 - 1)) % 256 /\ b[4] = (n \div 256^(4 - 1)) % 256
    <3>1. 1 \in 1..4 /\ 2 \in 1..4 /\ 3 \in 1..4 /\ 4 \in 1..4
      OBVIOUS
    <3> QED
      BY <3>1
  <2>2. 1 - 1 = 0 /\ 2 - 1 = 1 /\ 3 - 1 = 2 /\ 4 - 1 = 3
    OBVIOUS
  <2>3. /\ b[1] = (n \div 1) % 256 /\ b[2] = (n \div 256) % 256
        /\ b[3] = (n \div 65536) % 256 /\ b[4] = (n \div 16777216) % 256
    BY <1>0, <2>1, <2>2
  <2> QED
    BY <1>7, <1>8, <1>9, <2>3
<1>11. (IF b[4] < 128 THEN b[4] ELSE b[4] - 256) = g
  BY <1>6, <1>10
<1>12. Int32(b) = p + c * 256 + e * 65536 + g * 16777216
  BY <1>0, <1>10, <1>11 DEF Int32
<1> QED
  BY <1>5, <1>12

\* What is inflated of a stream: all of it, or what comes before the damage.
LEMMA InflateIs ==
    ASSUME NEW s \in Seq(Byte)
    PROVE  /\ Inflate(Deflate(s)) = s
           /\ Inflate([Deflate(s) EXCEPT ![2] = Corrupt]) = <<>>
<1>1. PICK n \in Nat : n = Len(s) /\ \A i \in 1..n : s[i] \in Byte
  OBVIOUS
<1>2. \A i \in 1..n : s[i] \notin {StreamEnd, Corrupt}
  <2>1. \A b \in Byte : b # StreamEnd /\ b # Corrupt
    BY DEF Byte, StreamEnd, Corrupt
  <2> QED
    BY <1>1, <2>1
<1>3. PICK t \in Seq(Nat) : /\ t = Deflate(s) /\ Len(t) = n + 2 /\ t[1] = StreamStart
                            /\ t[n + 2] = StreamEnd
                            /\ \A i \in 1..n : t[i + 1] = s[i]
  <2>1. PICK t \in Seq(Nat) : t = Deflate(s)
    BY DeflateIs DEF Bytes
  <2> QED
    BY <1>1, <2>1, DeflateIs
<1>4. Inflate(t) = s
  <2> DEFINE stops == {i \in 2..Len(t) : t[i] \in {StreamEnd, Corrupt}}
  <2>1. Min(stops) = n + 2 /\ stops # {}
    <3>1. n + 2 \in stops
      BY <1>3
    <3>2. \A k \in stops : n + 2 <= k
      <4> SUFFICES ASSUME NEW k \in stops, ~(n + 2 <= k) PROVE FALSE
        OBVIOUS
      <4>1. k - 1 \in 1..n /\ (k - 1) + 1 = k
        BY <1>3
      <4> QED
        BY <1>2, <1>3, <4>1
    <3>3. stops \subseteq Nat
      BY <1>3
    <3> HIDE DEF stops
    <3> QED
      BY <3>1, <3>2, <3>3, MinIs
  <2>2. t # <<>> /\ (n + 2) - 1 = n + 1
    BY <1>3
  <2>3. Inflate(t) = SubSeq(t, 2, n + 1)
    <3>1. Inflate(t) = IF t = <<>> \/ t[1] # StreamStart THEN <<>>
                       ELSE SubSeq(t, 2, (IF stops = {} THEN Len(t) + 1 ELSE Min(stops)) - 1)
      BY DEF Inflate
    <3> HIDE DEF stops
    <3> QED
      BY <1>3, <2>1, <2>2, <3>1
  <2>4. SubSeq(t, 2, n + 1) = s
    <3>1. \A i \in 2..(n + 1) : t[i] \in Nat
      BY <1>3
    <3> DEFINE u == SubSeq(t, 2, n + 1)
    <3>2. /\ u \in Seq(Nat) /\ Len(u) = IF 2 <= n + 1 THEN (n + 1) - 2 + 1 ELSE 0
          /\ \A i \in 1..((n + 1) - 2 + 1) : u[i] = t[2 + i - 1]
      BY <3>1, SubSeqProperties
    <3> HIDE DEF u
    <3>3. Len(u) = n
      BY <3>2
    <3>4. \A i \in 1..n : u[i] = s[i]
      <4> TAKE i \in 1..n
      <4>1. i \in 1..((n + 1) - 2 + 1) /\ 2 + i - 1 = i + 1
        OBVIOUS
      <4> QED
        BY <1>3, <3>2, <4>1
    <3>5. s \in Seq(Nat)
      <4>1. \A i \in 1..Len(s) : s[i] \in Nat
        <5>1. \A b \in Byte : b \in Nat
          BY DEF Byte
        <5> QED
          BY <1>1, <5>1
      <4> QED
        BY <4>1, SeqOfElements
    <3>6. u = s
      BY <1>1, <3>2, <3>3, <3>4, <3>5, SeqEqual
    <3> QED
      BY <3>6 DEF u
  <2> QED
    BY <2>3, <2>4
<1> DEFINE x == [t EXCEPT ![2] = Corrupt]
<1>5. x \in Seq(Nat) /\ Len(x) = n + 2 /\ x[1] = StreamStart /\ x[2] = Corrupt
  <2>1. Corrupt \in Nat /\ 2 \in 1..Len(t) /\ 1 \in 1..Len(t)
    BY <1>3 DEF Corrupt
  <2> QED
    BY <1>3, <2>1
<1> HIDE DEF x
<1>6. Inflate(x) = <<>>
  <2> DEFINE stops == {i \in 2..Len(x) : x[i] \in {StreamEnd, Corrupt}}
  <2>1. Min(stops) = 2 /\ stops # {}
    <3>1. 2 \in stops
      BY <1>5
    <3>2. stops \subseteq Nat /\ \A k \in stops : 2 <= k
      BY <1>5
    <3> HIDE DEF stops
    <3> QED
      BY <3>1, <3>2, MinIs
  <2>2. x # <<>> /\ 2 - 1 = 1
    BY <1>5
  <2>3. Inflate(x) = SubSeq(x, 2, 1)
    <3>1. Inflate(x) = IF x = <<>> \/ x[1] # StreamStart THEN <<>>
                       ELSE SubSeq(x, 2, (IF stops = {} THEN Len(x) + 1 ELSE Min(stops)) - 1)
      BY DEF Inflate
    <3> HIDE DEF stops
    <3> QED
      BY <1>5, <2>1, <2>2, <3>1
  <2> QED
    BY <2>3, SubSeqEmpty
<1> QED
  BY <1>3, <1>4, <1>6 DEF x

\* The source of a row, to its size.
SourceIn(info) == IF info.size = 0 THEN info.content ELSE SubSeq(info.content, 1, info.size)

\* decompressEmbeddedSource by the size at the beginning and the rest.
LEMMA DecompressIs ==
    ASSUME NEW blob, Len(blob) \in Nat, Len(blob) >= 4, NEW size \in Int, Int32(blob) = size,
           NEW rest, SubSeq(blob, 5, Len(blob)) = rest
    PROVE  decompressEmbeddedSource(blob) =
               IF size = 0 THEN [outcome |-> "ok", source |-> rest]
               ELSE IF size < 0 THEN [outcome |-> "panic"]
               ELSE IF Len(Inflate(rest)) >= size
                    THEN [outcome |-> "ok", source |-> SubSeq(Inflate(rest), 1, size)]
                    ELSE [outcome |-> "error"]
<1> DEFINE good == Len(Inflate(rest)) >= size
           all == [outcome |-> "ok", source |-> rest]
           part == [outcome |-> "ok", source |-> SubSeq(Inflate(rest), 1, size)]
           bad == [outcome |-> "error"]
           panic == [outcome |-> "panic"]
<1>1. decompressEmbeddedSource(blob) =
          CASE Len(blob) < 4 -> bad
            [] Len(blob) >= 4 /\ size = 0 -> all
            [] Len(blob) >= 4 /\ size < 0 -> panic
            [] Len(blob) >= 4 /\ size > 0 -> IF good THEN part ELSE bad
  BY DEF decompressEmbeddedSource
<1> HIDE DEF all, part, bad, panic, good
<1>2. ~(Len(blob) < 4)
  OBVIOUS
<1>3. CASE size = 0
  BY <1>1, <1>2, <1>3, SMT DEF all
<1>4. CASE size < 0
  BY <1>1, <1>2, <1>4, SMT DEF panic
<1>5. CASE size > 0
  <2>1. decompressEmbeddedSource(blob) = IF good THEN part ELSE bad
    BY <1>1, <1>2, <1>5, SMT
  <2> QED
    BY <1>5, <2>1 DEF good, part, bad
<1> QED
  BY <1>3, <1>4, <1>5

\* A source comes out as it went in, to its size, unless the blob was damaged.
LEMMA SourceRoundTrip ==
    ASSUME NEW info \in Info
    PROVE  \/ /\ decompressEmbeddedSource(SourceBlob(info)) = [outcome |-> "ok", source |-> SourceIn(info)]
           \/ /\ decompressEmbeddedSource(SourceBlob(info)) = [outcome |-> "panic"]
              /\ info.size < 0
           \/ /\ decompressEmbeddedSource(SourceBlob(info)) = [outcome |-> "error"]
              /\ info.fault # "none" \/ info.size > Len(info.content)
<1>1. info.size \in Sizes /\ info.content \in Seq(Byte) /\ info.fault \in {"none", "corrupt", "short"}
  BY DEF Info
<1>2. info.size \in Int
  BY <1>1 DEF Sizes
<1>3. CASE info.fault = "short"
  <2>1. SourceBlob(info) = <<0, 0, 0>>
    BY <1>3 DEF SourceBlob
  <2>2. Len(<<0, 0, 0>>) < 4 /\ ~(Len(<<0, 0, 0>>) >= 4)
    OBVIOUS
  <2>3. decompressEmbeddedSource(<<0, 0, 0>>) = [outcome |-> "error"]
    BY <2>2, SMT DEF decompressEmbeddedSource
  <2> QED
    BY <1>3, <2>1, <2>3
<1>4. CASE info.fault # "short"
  <2> DEFINE head == [i \in 1..4 |-> (info.size \div 256^(i - 1)) % 256]
             rest == CASE info.size = 0 -> info.content
                       [] info.size # 0 /\ info.fault = "corrupt" ->
                              [Deflate(info.content) EXCEPT ![2] = Corrupt]
                       [] info.size # 0 /\ info.fault # "corrupt" -> Deflate(info.content)
             blob == head \o rest
  <2>1. SourceBlob(info) = blob
    BY <1>4 DEF SourceBlob
  <2>2. head \in Bytes /\ Len(head) = 4 /\ rest \in Bytes
    BY SourceBlobParts
  <2>3. \A i \in 1..4 : head[i] = (info.size \div 256^(i - 1)) % 256
    OBVIOUS
  <2>4. rest = IF info.size = 0 THEN info.content
               ELSE IF info.fault = "corrupt" THEN [Deflate(info.content) EXCEPT ![2] = Corrupt]
               ELSE Deflate(info.content)
    BY SMT
  <2> HIDE DEF head, rest
  <2>5. PICK l \in Nat : l = Len(rest)
    BY <2>2 DEF Bytes
  <2>6. /\ blob \in Bytes /\ Len(blob) = 4 + l /\ \A i \in 1..4 : blob[i] = head[i]
        /\ \A i \in 1..l : blob[4 + i] = rest[i]
    <3>1. 4 \in Nat /\ 4 = Len(head) /\ head \in Bytes /\ rest \in Bytes
      BY <2>2
    <3>a. PICK k \in Nat : k = 4
      OBVIOUS
    <3>b. k = Len(head) /\ l = Len(rest)
      BY <2>5, <3>1, <3>a
    <3>2. Len(head \o rest) = k + l
      BY <3>1, <3>b, BothAre
    <3>3. \A i \in 1..l : (head \o rest)[k + i] = rest[i]
      BY <3>1, <3>b, BothAre
    <3>4. blob \in Bytes /\ \A i \in 1..4 : blob[i] = head[i]
      <4>1. blob \in Bytes /\ Begins(head, blob)
        BY <3>1, HoldsAppended
      <4> QED
        BY <3>1, <4>1 DEF Begins
    <3> QED
      BY <3>2, <3>3, <3>4, <3>a
  <2> HIDE DEF blob
  <2>7. Int32(blob) = info.size
    <3>1. \A i \in 1..4 : blob[i] = (info.size \div 256^(i - 1)) % 256
      BY <2>3, <2>6, ZenonT(30)
    <3> QED
      BY <1>1, <3>1, SizeRoundTrip
  <2>8. SubSeq(blob, 5, Len(blob)) = rest
    <3>1. \A i \in 5..(4 + l) : blob[i] \in Nat
      BY <2>6 DEF Bytes
    <3> DEFINE u == SubSeq(blob, 5, 4 + l)
    <3>2. /\ u \in Seq(Nat) /\ Len(u) = IF 5 <= 4 + l THEN (4 + l) - 5 + 1 ELSE 0
          /\ \A i \in 1..((4 + l) - 5 + 1) : u[i] = blob[5 + i - 1]
      BY <3>1, SubSeqProperties
    <3> HIDE DEF u
    <3>3. Len(u) = l
      BY <3>2
    <3>4. \A i \in 1..l : u[i] = rest[i]
      <4> TAKE i \in 1..l
      <4>1. i \in 1..((4 + l) - 5 + 1) /\ 5 + i - 1 = 4 + i
        OBVIOUS
      <4> QED
        BY <2>6, <3>2, <4>1
    <3>5. u = rest
      BY <2>2, <2>5, <3>2, <3>3, <3>4, SeqEqual DEF Bytes
    <3> QED
      BY <2>6, <3>5 DEF u
  <2>9. decompressEmbeddedSource(blob) =
            IF info.size = 0 THEN [outcome |-> "ok", source |-> rest]
            ELSE IF info.size < 0 THEN [outcome |-> "panic"]
            ELSE IF Len(Inflate(rest)) >= info.size
                 THEN [outcome |-> "ok", source |-> SubSeq(Inflate(rest), 1, info.size)]
                 ELSE [outcome |-> "error"]
    <3>1. Len(blob) \in Nat /\ Len(blob) >= 4
      BY <2>6
    <3> QED
      BY <1>2, <2>7, <2>8, <3>1, DecompressIs
  <2>10. CASE info.size = 0
    <3>1. decompressEmbeddedSource(blob) = [outcome |-> "ok", source |-> rest]
      BY <2>9, <2>10
    <3> QED
      BY <2>1, <2>4, <2>10, <3>1 DEF SourceIn
  <2>11. CASE info.size < 0
    <3>1. decompressEmbeddedSource(blob) = [outcome |-> "panic"]
      BY <1>2, <2>9, <2>11
    <3> QED
      BY <2>1, <2>11, <3>1
  <2>12. CASE info.size > 0
    <3>1. decompressEmbeddedSource(blob) =
              IF Len(Inflate(rest)) >= info.size
              THEN [outcome |-> "ok", source |-> SubSeq(Inflate(rest), 1, info.size)]
              ELSE [outcome |-> "error"]
      BY <1>2, <2>9, <2>12
    <3>2. CASE info.fault = "corrupt"
      <4>1. Inflate(rest) = <<>>
        BY <1>1, <2>4, <2>12, <3>2, InflateIs
      <4>2. ~(Len(<<>>) >= info.size)
        BY <1>2, <2>12
      <4> QED
        BY <2>1, <3>1, <3>2, <4>1, <4>2
    <3>3. CASE info.fault # "corrupt"
      <4>1. Inflate(rest) = info.content
        <5>1. rest = Deflate(info.content)
          BY <1>2, <2>4, <2>12, <3>3
        <5> QED
          BY <1>1, <5>1, InflateIs
      <4>2. CASE Len(info.content) >= info.size
        <5>1. decompressEmbeddedSource(blob) =
                  [outcome |-> "ok", source |-> SubSeq(info.content, 1, info.size)]
          BY <3>1, <4>1, <4>2
        <5>2. SourceIn(info) = SubSeq(info.content, 1, info.size)
          BY <1>2, <2>12 DEF SourceIn
        <5> QED
          BY <2>1, <5>1, <5>2
      <4>3. CASE ~(Len(info.content) >= info.size)
        <5>1. info.size > Len(info.content)
          BY <1>1, <1>2, <4>3
        <5> QED
          BY <2>1, <3>1, <4>1, <4>3, <5>1
      <4> QED
        BY <4>2, <4>3
    <3> QED
      BY <3>2, <3>3
  <2> QED
    BY <1>2, <2>10, <2>11, <2>12
<1> QED
  BY <1>3, <1>4

-----------------------------------------------------------------------------
(* The stream directory.                                                   *)

\* The size of an entry by the length of its name, up to the next.
EntrySize(n) == 8 + ((n + 1 + 3) \div 4) * 4
EntrySizes(file) == [k \in DOMAIN file.streams |-> EntrySize(file.streams[k].length)]

\* From a multiple of four to the next after an entry.
LEMMA NextEntryIs ==
    ASSUME NEW pos \in Nat, NEW q \in Nat, pos = 4 * q, NEW n \in Nat, NEW stream, stream.length = n
    PROVE  /\ NextEntry(pos, stream) = pos + EntrySize(n)
           /\ \E p \in Nat : pos + EntrySize(n) = 4 * p
           /\ EntrySize(n) \in Nat
<1>1. PICK a \in Nat, b \in 0..3 : n + 1 = 4 * a + b
  <2>1. (n + 1) % 4 \in 0..3 /\ (n + 1) \div 4 \in Nat /\ n + 1 = ((n + 1) \div 4) * 4 + ((n + 1) % 4)
    OBVIOUS
  <2> QED
    BY <2>1
<1>2. CASE b = 0
  <2>1. (n + 1 + 3) \div 4 = a
    BY <1>1, <1>2
  <2>2. EntrySize(n) = 8 + a * 4
    BY <2>1 DEF EntrySize
  <2>3. pos + 8 + n + 1 = 4 * (q + 2 + a)
    BY <1>1, <1>2
  <2>4. (pos + 8 + n + 1) % 4 = 0
    BY <2>3
  <2>5. NextEntry(pos, stream) = pos + 8 + n + 1
    BY <2>4 DEF NextEntry
  <2>6. q + 2 + a \in Nat
    OBVIOUS
  <2>7. pos + EntrySize(n) = 4 * (q + 2 + a)
    BY <2>2
  <2>8. 4 * (q + 2 + a) = pos + 8 + n + 1
    BY <2>3
  <2>9. 8 + a * 4 \in Nat
    OBVIOUS
  <2>10. \E p \in Nat : pos + EntrySize(n) = 4 * p
    BY <2>6, <2>7
  <2> QED
    BY <2>2, <2>5, <2>7, <2>8, <2>9, <2>10
<1>3. CASE b # 0
  <2>1. (n + 1 + 3) \div 4 = a + 1
    BY <1>1, <1>3
  <2>2. EntrySize(n) = 8 + (a + 1) * 4
    BY <2>1 DEF EntrySize
  <2>3. pos + 8 + n + 1 = 4 * (q + 2 + a) + b
    BY <1>1
  <2>4. (pos + 8 + n + 1) % 4 = b
    BY <2>3
  <2>5. NextEntry(pos, stream) = pos + 8 + n + 1 + 4 - b
    BY <1>3, <2>4 DEF NextEntry
  <2>6. q + 2 + a + 1 \in Nat
    OBVIOUS
  <2>7. pos + EntrySize(n) = 4 * (q + 2 + a + 1)
    BY <2>2
  <2>8. 4 * (q + 2 + a + 1) = pos + 8 + n + 1 + 4 - b
    BY <2>3
  <2>9. 8 + (a + 1) * 4 \in Nat
    OBVIOUS
  <2>10. \E p \in Nat : pos + EntrySize(n) = 4 * p
    BY <2>6, <2>7
  <2> QED
    BY <2>2, <2>5, <2>7, <2>8, <2>9, <2>10
<1> QED
  BY <1>2, <1>3

\* Each entry is where the one before ends, at a multiple of four.
LEMMA EntriesAre ==
    ASSUME NEW file, ContentsOK(file), NEW n, n = Len(file.streams)
    PROVE  /\ n \in Nat /\ DOMAIN file.streams = 1..n
           /\ n > 0 => Entry(file, 1) = 20 + file.version
           /\ \A i \in 2..n : Entry(file, i) = NextEntry(Entry(file, i - 1), file.streams[i - 1])
<1>1. file.streams \in Seq(Stream) /\ file.version \in Nat /\ file.version % 4 = 0
  BY DEF ContentsOK
<1>2. n \in Nat /\ DOMAIN file.streams = 1..n /\ \A i \in 1..n : file.streams[i].length \in Nat
  <2>1. n \in Nat /\ DOMAIN file.streams = 1..n
    BY <1>1
  <2>2. \A i \in 1..n : file.streams[i] \in Stream
    BY <1>1
  <2> QED
    BY <2>1, <2>2 DEF Stream
<1> DEFINE sizes == EntrySizes(file)
           E(i) == Entry(file, i)
<1>3. \A i \in 1..n : sizes[i] = EntrySize(file.streams[i].length)
  BY <1>2 DEF EntrySizes
<1>4. \A i \in 1..n : sizes[i] \in Nat
  <2> TAKE i \in 1..n
  <2>1. PICK l \in Nat : l = file.streams[i].length
    BY <1>2
  <2>2. 0 = 4 * 0 /\ 0 \in Nat
    OBVIOUS
  <2>3. EntrySize(l) \in Nat
    BY DEF EntrySize
  <2> QED
    BY <1>3, <2>1, <2>3
<1>5. \A i : E(i) = 20 + file.version + Total(sizes, i - 1)
  BY DEF Entry, EntrySizes, EntrySize
<1> HIDE DEF sizes, E
<1>6. ASSUME NEW i \in 0..n
      PROVE  /\ Total(sizes, i) \in Nat /\ (i = 0 => Total(sizes, i) = 0)
             /\ i > 0 => Total(sizes, i) = Total(sizes, i - 1) + sizes[i]
  <2>1. i \in Nat /\ \A k \in 1..i : k \in 1..n
    BY <1>2
  <2>2. \A k \in 1..i : sizes[k] \in Nat
    BY <1>4, <2>1
  <2> QED
    BY <2>1, <2>2, TotalIs
<1>7. E(1) = 20 + file.version
  <2>1. 1 - 1 = 0 /\ 0 \in 0..n
    BY <1>2
  <2>2. Total(sizes, 0) = 0
    BY <1>6, <2>1
  <2> QED
    BY <1>1, <1>5, <2>1, <2>2
<1> DEFINE N == {i \in 0..n : \E q \in Nat : E(i + 1) = 4 * q}
<1>8. 0 \in N
  <2>1. PICK v \in Nat : file.version = 4 * v
    <3>1. file.version \div 4 \in Nat /\ file.version = (file.version \div 4) * 4 + (file.version % 4)
      BY <1>1
    <3> QED
      BY <1>1, <3>1
  <2>2. E(0 + 1) = 4 * (5 + v) /\ 5 + v \in Nat
    BY <1>7, <2>1
  <2>3. \E q \in Nat : E(0 + 1) = 4 * q
    BY <2>2
  <2>4. 0 \in 0..n
    BY <1>2
  <2> QED
    BY <2>3, <2>4
<1>9. ASSUME NEW i \in 1..n, i - 1 \in N
      PROVE  i \in N /\ E(i + 1) = NextEntry(E(i), file.streams[i])
  <2>1. PICK q \in Nat : E((i - 1) + 1) = 4 * q
    BY <1>9
  <2>2. (i - 1) + 1 = i /\ (i + 1) - 1 = i /\ i \in 0..n /\ i > 0
    BY <1>2
  <2>3. PICK e \in Nat : e = E(i) /\ e = 4 * q
    BY <2>1, <2>2
  <2>4. PICK l \in Nat : l = file.streams[i].length
    BY <1>2
  <2>5. sizes[i] = EntrySize(l)
    BY <1>3, <2>4
  <2>6. /\ NextEntry(e, file.streams[i]) = e + EntrySize(l)
        /\ \E p \in Nat : e + EntrySize(l) = 4 * p
        /\ EntrySize(l) \in Nat
    BY <2>3, <2>4, NextEntryIs
  <2>7. E(i + 1) = E(i) + EntrySize(l)
    <3>1. PICK a \in Nat, b \in Nat, v \in Nat, s \in Nat :
              a = Total(sizes, i) /\ b = Total(sizes, i - 1) /\ v = file.version /\ s = EntrySize(l)
      <4>1. i - 1 \in 0..n
        BY <2>2
      <4>2. Total(sizes, i) \in Nat /\ Total(sizes, i - 1) \in Nat
        BY <1>6, <2>2, <4>1
      <4> QED
        BY <1>1, <2>6, <4>2
    <3>2. a = b + s
      BY <1>6, <2>2, <2>5, <3>1
    <3>3. E(i + 1) = 20 + v + a /\ E(i) = 20 + v + b
      BY <1>5, <2>2, <3>1
    <3>4. 20 + v + a = 20 + v + b + s
      BY <3>2
    <3> QED
      BY <3>1, <3>3, <3>4
  <2> QED
    BY <2>2, <2>3, <2>6, <2>7
<1>10. \A i \in 0..n : i \in N
  <2> HIDE DEF N
  <2> QED
    BY <1>2, <1>8, <1>9, Induction
<1>11. \A i \in 2..n : E(i) = NextEntry(E(i - 1), file.streams[i - 1])
  <2> TAKE i \in 2..n
  <2>1. i - 1 \in 1..n /\ (i - 1) - 1 \in 0..n /\ (i - 1) + 1 = i
    BY <1>2
  <2>2. (i - 1) - 1 \in N
    BY <1>10, <2>1
  <2> HIDE DEF N
  <2>3. E((i - 1) + 1) = NextEntry(E(i - 1), file.streams[i - 1])
    BY <1>9, <2>1, <2>2
  <2> QED
    BY <2>1, <2>3
<1> QED
  BY <1>2, <1>7, <1>11 DEF E

\* The reader comes to every entry.
LEMMA DirectoryIs ==
    ASSUME ContentsOK(f), ReadDirectory
    PROVE  found' = StreamNames(f)
<1> DEFINE n == Len(f.streams)
           Up(u) == [i \in 1..n |-> IF i = 1 THEN 20 + f.version ELSE NextEntry(u[i - 1], f.streams[i - 1])]
           g == CHOOSE u : u = Up(u)
           r == [i \in 1..n |-> Entry(f, i)]
<1>1. /\ n \in Nat /\ DOMAIN f.streams = 1..n
      /\ n > 0 => Entry(f, 1) = 20 + f.version
      /\ \A i \in 2..n : Entry(f, i) = NextEntry(Entry(f, i - 1), f.streams[i - 1])
  BY EntriesAre
<1>2. found' = {f.streams[i].name : i \in {k \in DOMAIN f.streams : g[k] = Entry(f, k)}}
  BY DEF ReadDirectory
<1> HIDE DEF n
<1>3. r = Up(r)
  <2>1. ASSUME NEW i \in 1..n PROVE r[i] = Up(r)[i]
    <3>1. CASE i = 1
      BY <1>1, <3>1
    <3>2. CASE i # 1
      <4>1. i \in 2..n /\ i - 1 \in 1..n
        BY <1>1, <3>2
      <4> QED
        BY <1>1, <3>2, <4>1
    <3> QED
      BY <3>1, <3>2
  <2> QED
    BY <2>1
<1>4. g = Up(g)
  <2> HIDE DEF Up
  <2> QED
    BY <1>3
<1> HIDE DEF g
<1>5. \A i \in 1..n : g[i] = IF i = 1 THEN 20 + f.version ELSE NextEntry(g[i - 1], f.streams[i - 1])
  BY <1>4
<1> DEFINE N == {i \in 0..n : i > 0 => g[i] = Entry(f, i)}
<1>6. 0 \in N
  BY <1>1
<1>7. ASSUME NEW i \in 1..n, i - 1 \in N PROVE i \in N
  <2>1. i \in 0..n
    BY <1>1
  <2>2. CASE i = 1
    BY <1>1, <1>5, <2>1, <2>2
  <2>3. CASE i # 1
    <3>1. i \in 2..n /\ i - 1 > 0
      BY <1>1, <2>3
    <3>2. g[i - 1] = Entry(f, i - 1)
      BY <1>7, <3>1
    <3>3. g[i] = NextEntry(g[i - 1], f.streams[i - 1])
      BY <1>5, <2>3
    <3>4. g[i] = Entry(f, i)
      BY <1>1, <3>1, <3>2, <3>3
    <3> QED
      BY <2>1, <3>4
  <2> QED
    BY <2>2, <2>3
<1>8. \A i \in 0..n : i \in N
  <2> HIDE DEF N
  <2> QED
    BY <1>1, <1>6, <1>7, Induction
<1>9. \A i \in 1..n : g[i] = Entry(f, i)
  <2> TAKE i \in 1..n
  <2>1. i \in 0..n /\ i > 0
    BY <1>1
  <2> QED
    BY <1>8, <2>1
<1>10. found' = {f.streams[i].name : i \in 1..n}
  BY <1>1, <1>2, <1>9
<1> QED
  BY <1>1, <1>10 DEF StreamNames, Range

-----------------------------------------------------------------------------
(* One document.                                                           *)

\* The reader has the heap of the file, or the beginning of it.
LEMMA ReaderIs ==
    ASSUME f \in Files, reader = MetadataReader
    PROVE  LET written == WrittenHeap(f)
           IN /\ reader.names = written.names /\ reader.values = written.values
              /\ written.blobHeap \in Bytes /\ reader.blobHeap \in Bytes
              /\ Begins(reader.blobHeap, written.blobHeap)
              /\ Len(written.blobHeap) < 2^29
              /\ f.heapCut \in Nat /\ (f.heapCut = 0 => Len(reader.blobHeap) = Len(written.blobHeap))
<1> DEFINE written == WrittenHeap(f)
           heap == written.blobHeap
<1>1. ContentsOK(f)
  BY ContentsAssumption
<1>2. heap \in Bytes
  BY <1>1, HeapIs
<1>3. f.heapCut \in Nat
  BY <1>1 DEF ContentsOK
<1>4. PICK l \in Nat, c \in Nat : l = Len(heap) /\ c = f.heapCut
  BY <1>2, <1>3 DEF Bytes
<1>5. Len(heap) \in f.heapCut..(2^29 - 1)
  BY HeapsAssumption
<1>6. c <= l /\ Len(heap) < 2^29
  BY <1>4, <1>5
<1>7. /\ reader.names = written.names /\ reader.values = written.values
      /\ reader.blobHeap = SubSeq(heap, 1, l - c)
  <2>1. \E b, n, v : written = [blobHeap |-> b, names |-> n, values |-> v]
    BY DEF WrittenHeap
  <2>2. reader = [written EXCEPT !.blobHeap = SubSeq(heap, 1, l - c)]
    BY <1>4 DEF MetadataReader
  <2> HIDE DEF written
  <2>3. PICK b, n, v : written = [blobHeap |-> b, names |-> n, values |-> v]
    BY <2>1
  <2>4. reader = [blobHeap |-> SubSeq(heap, 1, l - c), names |-> n, values |-> v]
    BY <2>2, <2>3
  <2> QED
    BY <2>3, <2>4
<1> HIDE DEF written
<1>8. /\ SubSeq(heap, 1, l - c) \in Bytes
      /\ Len(SubSeq(heap, 1, l - c)) = l - c
      /\ \A i \in 1..(l - c) : SubSeq(heap, 1, l - c)[i] = heap[i]
  <2>1. PICK k \in Nat : k = l - c
    BY <1>6
  <2>2. \A i \in 1..k : heap[i] \in Nat
    BY <1>2, <1>4, <2>1 DEF Bytes
  <2>3. /\ SubSeq(heap, 1, k) \in Seq(Nat)
        /\ Len(SubSeq(heap, 1, k)) = IF 1 <= k THEN k - 1 + 1 ELSE 0
        /\ \A i \in 1..(k - 1 + 1) : SubSeq(heap, 1, k)[i] = heap[1 + i - 1]
    BY <2>2, SubSeqProperties
  <2>4. Len(SubSeq(heap, 1, k)) = k
    BY <2>3
  <2>5. \A i \in 1..k : SubSeq(heap, 1, k)[i] = heap[i]
    BY <2>3
  <2> QED
    BY <2>1, <2>3, <2>4, <2>5 DEF Bytes
<1>9. Begins(reader.blobHeap, heap)
  BY <1>4, <1>6, <1>7, <1>8 DEF Begins
<1>10. f.heapCut = 0 => Len(reader.blobHeap) = Len(heap)
  BY <1>4, <1>7, <1>8
<1> QED
  BY <1>2, <1>3, <1>6, <1>7, <1>8, <1>9, <1>10 DEF written

\* The tag and the row of a parent are found in it again.
LEMMA ParentIs ==
    ASSUME NEW tag \in 0..MaxTag, NEW row \in Nat, NEW p, p = row * 32 + tag
    PROVE  (p % 32) = tag /\ p \div 32 = row
<1>1. tag \in 0..31
  BY DEF MaxTag
<1> QED
  BY <1>1

\* The reader's rows of a document are the writer's, and one of them is the first.
LEMMA RowsAre ==
    ASSUME f \in Files, NEW n \in Nat
    PROVE  /\ EmbeddedSourceRows(n) = SourceRows(n)
           /\ SourceRows(n) # {} =>
                  /\ Min(SourceRows(n)) \in 1..Len(f.infos)
                  /\ Min(SourceRows(n)) \in SourceRows(n)
                  /\ f.infos[Min(SourceRows(n))] \in Info
<1>1. f.infos \in Seq(Info)
  BY ContentsAssumption DEF ContentsOK
<1>2. DOMAIN f.infos = 1..Len(f.infos) /\ \A i \in 1..Len(f.infos) : f.infos[i] \in Info
  BY <1>1
<1>3. ASSUME NEW i \in 1..Len(f.infos)
      PROVE  IsOf(i, n) <=> f.infos[i].tag = DocumentTag /\ f.infos[i].row = n
  <2>1. f.infos[i].tag \in 0..MaxTag /\ f.infos[i].row \in Nat
    BY <1>2 DEF Info
  <2>2. ((ParentOf(i) % 32) = f.infos[i].tag) /\ (ParentOf(i) \div 32 = f.infos[i].row)
    <3>1. PICK tag \in 0..MaxTag, row \in Nat : tag = f.infos[i].tag /\ row = f.infos[i].row
      BY <2>1
    <3>2. ParentOf(i) = row * 32 + tag
      BY <3>1 DEF ParentOf
    <3>3. (ParentOf(i) % 32) = tag /\ ParentOf(i) \div 32 = row
      BY <3>2, ParentIs
    <3> QED
      BY <3>1, <3>3
  <2> QED
    BY <2>2 DEF IsOf
<1>4. EmbeddedSourceRows(n) = SourceRows(n)
  BY <1>2, <1>3 DEF EmbeddedSourceRows, SourceRows
<1>5. ASSUME SourceRows(n) # {} PROVE Min(SourceRows(n)) \in SourceRows(n)
  <2>1. SourceRows(n) \subseteq 1..Len(f.infos) /\ Len(f.infos) \in Nat
    BY <1>1, <1>2 DEF SourceRows
  <2>2. SourceRows(n) \in SUBSET Nat
    BY <2>1
  <2>3. PICK m \in SourceRows(n) : \A k \in SourceRows(n) : m <= k
    BY <1>5, <2>2, LeastElement
  <2> QED
    BY <2>2, <2>3, MinIs
<1> QED
  BY <1>2, <1>4, <1>5 DEF SourceRows

\* The name of a document is decoded, unless the heap was cut off.
LEMMA DocumentNameIs ==
    ASSUME f \in Files, reader = MetadataReader, NEW n \in 1..Len(f.docs)
    PROVE  /\ DocumentName(n).ok \in BOOLEAN
           /\ DocumentName(n).ok =>
                  /\ FullPath(RelPath(DocumentName(n).value)) = PathOf(n)
                  /\ (f.skipObj /\ isUnderObjDirectory(RelPath(DocumentName(n).value)) <=> InObj(n))
           /\ f.heapCut = 0 => DocumentName(n).ok
<1> DEFINE heap == WrittenHeap(f).blobHeap
           h == reader.blobHeap
           d == f.docs[n]
           before == WithNames(f, n - 1)
           p == Len(Parts(d))
           pos == WrittenHeap(f).names[n]
<1>1. ContentsOK(f)
  BY ContentsAssumption
<1>2. /\ d \in Doc /\ before \in Bytes
      /\ Holds(heap, pos, CompressedUint(Len(NameBlob(before, d))) \o NameBlob(before, d))
      /\ \A i \in 1..p : Holds(heap, RefTo(before, Parts(d), i),
                               CompressedUint(Len(Parts(d)[i])) \o Parts(d)[i])
  BY <1>1, HeapIs
<1>3. /\ heap \in Bytes /\ h \in Bytes /\ Begins(h, heap) /\ Len(heap) < 2^29
      /\ reader.names = WrittenHeap(f).names
      /\ f.heapCut = 0 => Len(h) = Len(heap)
  BY ReaderIs
<1>4. DocumentName(n) = decodeDocumentName(h, pos)
  BY <1>3 DEF DocumentName
<1>5. /\ PathOf(n) = Clean(TargetDir \o d.segments)
      /\ InObj(n) <=> f.skipObj /\ Obj \in Range(d.segments)
  BY DEF PathOf, InObj
<1> HIDE DEF heap, h, d, before, p, pos
<1>6. LET name == decodeDocumentName(h, pos)
      IN /\ name.ok => name.value = NameUpTo(d, p)
         /\ Len(h) = Len(heap) => name.ok
         /\ name.ok \in BOOLEAN
  BY <1>2, <1>3, DecodeIs DEF p
<1>7. RelPath(NameUpTo(d, p)) = Joined(d.segments)
  BY <1>2, PathIs DEF p
<1>8. /\ isUnderObjDirectory(Joined(d.segments)) <=> Obj \in Range(d.segments)
      /\ FullPath(Joined(d.segments)) = Clean(TargetDir \o d.segments)
  BY <1>2, SplitJoined DEF isUnderObjDirectory, FullPath
<1>9. DocumentName(n).ok => RelPath(DocumentName(n).value) = Joined(d.segments)
  BY <1>4, <1>6, <1>7
<1> QED
  BY <1>3, <1>4, <1>5, <1>6, <1>8, <1>9

\* The blob of a source is read, unless the heap was cut off.
LEMMA ValueIs ==
    ASSUME f \in Files, reader = MetadataReader, NEW i \in 1..Len(f.infos)
    PROVE  /\ \/ readBlob(reader.blobHeap, reader.values[i]) = Nothing
              \/ \E next : readBlob(reader.blobHeap, reader.values[i])
                               = Something(SourceBlob(f.infos[i]), next)
           /\ f.heapCut = 0 => readBlob(reader.blobHeap, reader.values[i]) # Nothing
<1> DEFINE heap == WrittenHeap(f).blobHeap
           h == reader.blobHeap
           blob == SourceBlob(f.infos[i])
           pos == WrittenHeap(f).values[i]
<1>1. ContentsOK(f)
  BY ContentsAssumption
<1>2. blob \in Bytes /\ Holds(heap, pos, CompressedUint(Len(blob)) \o blob)
  BY <1>1, HeapIs
<1>3. /\ heap \in Bytes /\ h \in Bytes /\ Begins(h, heap) /\ Len(heap) < 2^29
      /\ reader.values = WrittenHeap(f).values
      /\ f.heapCut = 0 => Len(h) = Len(heap)
  BY ReaderIs
<1>4. readBlob(reader.blobHeap, reader.values[i]) = readBlob(h, pos)
  BY <1>3
<1> HIDE DEF heap, h, blob, pos
<1>5. /\ readBlob(h, pos) \in {Nothing, Something(blob, pos + Len(CompressedUint(Len(blob))) + Len(blob))}
      /\ Len(h) = Len(heap) => readBlob(h, pos) # Nothing
  BY <1>2, <1>3, ReadBlobIs
<1> QED
  BY <1>3, <1>4, <1>5 DEF blob

\* What becomes of a document is what the writer said of it; only a file that was
\* damaged can end the run.
LEMMA ExtractionIs ==
    ASSUME f \in Files, reader = MetadataReader, NEW n \in 1..Len(f.docs),
           NEW result, result = Extraction(n)
    PROVE  \/ /\ result = [outcome |-> "error"]
              /\ f.heapCut > 0 \/ (HasSource(n) /\ Damaged(Min(SourceRows(n))))
           \/ result = [outcome |-> "obj"] /\ InObj(n)
           \/ result = [outcome |-> "none"] /\ ~InObj(n) /\ ~HasSource(n)
           \/ /\ result = [outcome |-> "panic"]
              /\ HasSource(n) /\ f.infos[Min(SourceRows(n))].size < 0
           \/ /\ result = [outcome |-> "ok", source |-> SourceOf(Min(SourceRows(n)))]
              /\ HasSource(n) /\ ~InObj(n) /\ FullPath(RelPath(DocumentName(n).value)) = PathOf(n)
<1> DEFINE name == DocumentName(n)
           rows == SourceRows(n)
           i == Min(rows)
           info == f.infos[i]
           blob == readBlob(reader.blobHeap, reader.values[i])
<1>1. f.heapCut \in Nat
  BY ReaderIs
<1>2. n \in Nat
  BY ContentsAssumption DEF ContentsOK
<1>3. EmbeddedSourceRows(n) = rows
  BY <1>2, RowsAre
<1>4. rows # {} => i \in 1..Len(f.infos) /\ info \in Info
  BY <1>2, RowsAre
<1>5. /\ name.ok \in BOOLEAN /\ (f.heapCut = 0 => name.ok)
      /\ name.ok => /\ FullPath(RelPath(name.value)) = PathOf(n)
                    /\ (f.skipObj /\ isUnderObjDirectory(RelPath(name.value)) <=> InObj(n))
  BY DocumentNameIs
<1>6. result = IF ~name.ok THEN [outcome |-> "error"]
               ELSE IF f.skipObj /\ isUnderObjDirectory(RelPath(name.value)) THEN [outcome |-> "obj"]
               ELSE IF rows = {} THEN [outcome |-> "none"]
               ELSE IF info.kind = "lost" \/ ~blob.ok THEN [outcome |-> "error"]
               ELSE decompressEmbeddedSource(blob.value)
  BY <1>3 DEF Extraction
<1>7. HasSource(n) <=> ~InObj(n) /\ rows # {}
  BY DEF HasSource
<1>8. info.kind = "lost" => Damaged(i)
  BY DEF Damaged
<1>9. info.fault # "none" \/ info.size > Len(info.content) => Damaged(i)
  BY DEF Damaged
<1>10. SourceOf(i) = SourceIn(info)
  BY DEF SourceOf, SourceIn
<1>11. rows # {} => \/ ~blob.ok /\ f.heapCut # 0
                    \/ blob.ok /\ blob.value = SourceBlob(info)
  <2> SUFFICES ASSUME rows # {} PROVE \/ ~blob.ok /\ f.heapCut # 0
                                      \/ blob.ok /\ blob.value = SourceBlob(info)
    OBVIOUS
  <2>1. \/ blob = Nothing
        \/ \E next : blob = Something(SourceBlob(info), next)
    BY <1>4, ValueIs
  <2>2. f.heapCut = 0 => blob # Nothing
    BY <1>4, ValueIs
  <2> HIDE DEF blob, info
  <2>3. CASE blob = Nothing
    BY <2>2, <2>3, SomethingIs
  <2>4. ASSUME NEW next, blob = Something(SourceBlob(info), next)
        PROVE  blob.ok /\ blob.value = SourceBlob(info)
    BY <2>4, SomethingIs
  <2> QED
    BY <2>1, <2>3, <2>4
<1> HIDE DEF name, rows, blob, info, i
<1>12. CASE ~name.ok
  <2>1. f.heapCut # 0
    BY <1>5, <1>12
  <2>2. f.heapCut > 0
    BY <1>1, <2>1
  <2>3. result = [outcome |-> "error"]
    BY <1>6, <1>12
  <2> QED
    BY <2>2, <2>3
<1>13. CASE name.ok /\ InObj(n)
  BY <1>5, <1>6, <1>13
<1>14. CASE name.ok /\ ~InObj(n) /\ rows = {}
  BY <1>5, <1>6, <1>7, <1>14
<1>15. CASE name.ok /\ ~InObj(n) /\ rows # {} /\ (info.kind = "lost" \/ ~blob.ok)
  <2>1. result = [outcome |-> "error"]
    BY <1>5, <1>6, <1>15
  <2>2. f.heapCut > 0 \/ Damaged(i)
    BY <1>1, <1>8, <1>11, <1>15
  <2>3. f.heapCut > 0 \/ (HasSource(n) /\ Damaged(Min(SourceRows(n))))
    BY <1>7, <1>15, <2>2 DEF i, rows
  <2> QED
    BY <2>1, <2>3
<1>16. CASE name.ok /\ ~InObj(n) /\ rows # {} /\ info.kind # "lost" /\ blob.ok
  <2>1. result = decompressEmbeddedSource(SourceBlob(info))
    BY <1>5, <1>6, <1>11, <1>16
  <2>2. \/ result = [outcome |-> "ok", source |-> SourceIn(info)]
        \/ result = [outcome |-> "panic"] /\ info.size < 0
        \/ result = [outcome |-> "error"] /\ (info.fault # "none" \/ info.size > Len(info.content))
    BY <1>4, <1>16, <2>1, SourceRoundTrip
  <2>3. HasSource(n) /\ ~InObj(n)
    BY <1>7, <1>16
  <2>4. CASE result = [outcome |-> "ok", source |-> SourceIn(info)]
    BY <1>5, <1>10, <1>16, <2>3, <2>4 DEF name, i, rows
  <2>5. CASE result = [outcome |-> "panic"] /\ info.size < 0
    BY <2>3, <2>5 DEF info, i, rows
  <2>6. CASE result = [outcome |-> "error"] /\ (info.fault # "none" \/ info.size > Len(info.content))
    BY <1>9, <2>3, <2>6 DEF i, rows
  <2> QED
    BY <2>2, <2>4, <2>5, <2>6
<1> QED
  BY <1>5, <1>12, <1>13, <1>14, <1>15, <1>16

\* The documents before the k-th that have a source, and those below obj/.
Before(k) == {n \in 1..(k - 1) : HasSource(n)}
ObjBefore(k) == {n \in 1..(k - 1) : InObj(n)}

\* The files written, and the counts, when Extract is at the k-th document.
WrittenAre(k, files) ==
    /\ DOMAIN files = {PathOf(n) : n \in Before(k)}
    /\ \A n \in Before(k) :
         (\A m \in Before(k) : m > n => PathOf(m) # PathOf(n))
            => files[PathOf(n)] = SourceOf(Min(SourceRows(n)))
CountsAre(k, c) == c = [ok |-> Cardinality(Before(k)), obj |-> Cardinality(ObjBefore(k))]

\* A document more with a source, or without.
LEMMA OneMoreBefore ==
    ASSUME NEW k \in Nat \ {0}
    PROVE  /\ HasSource(k) => Before(k + 1) = Before(k) \cup {k}
           /\ ~HasSource(k) => Before(k + 1) = Before(k)
           /\ InObj(k) => ObjBefore(k + 1) = ObjBefore(k) \cup {k}
           /\ ~InObj(k) => ObjBefore(k + 1) = ObjBefore(k)
           /\ k \notin Before(k) /\ k \notin ObjBefore(k)
           /\ \A n \in Before(k) : n \in Nat /\ k > n /\ ~(n > k)
<1>1. (k + 1) - 1 = k /\ 1..k = 1..(k - 1) \cup {k} /\ k \notin 1..(k - 1)
  OBVIOUS
<1> QED
  BY <1>1 DEF Before, ObjBefore

\* A file more is written.
LEMMA OneMoreWritten ==
    ASSUME NEW k \in Nat \ {0}, NEW files, WrittenAre(k, files), HasSource(k), NEW more,
           more = [p \in DOMAIN files \cup {PathOf(k)} |->
                     IF p = PathOf(k) THEN SourceOf(Min(SourceRows(k))) ELSE files[p]]
    PROVE  WrittenAre(k + 1, more)
<1>1. /\ Before(k + 1) = Before(k) \cup {k}
      /\ \A n \in Before(k) : k > n
  BY OneMoreBefore
<1>2. DOMAIN files = {PathOf(n) : n \in Before(k)}
  BY DEF WrittenAre
<1>3. DOMAIN more = {PathOf(n) : n \in Before(k + 1)}
  BY <1>1, <1>2
<1>4. ASSUME NEW n \in Before(k + 1), \A m \in Before(k + 1) : m > n => PathOf(m) # PathOf(n)
      PROVE  more[PathOf(n)] = SourceOf(Min(SourceRows(n)))
  <2>1. CASE n = k
    BY <2>1
  <2>2. CASE n # k
    <3>1. n \in Before(k) /\ k \in Before(k + 1)
      BY <1>1, <2>2
    <3>2. PathOf(n) # PathOf(k) /\ PathOf(n) \in DOMAIN files
      BY <1>1, <1>2, <1>4, <3>1
    <3>3. \A m \in Before(k) : m > n => PathOf(m) # PathOf(n)
      BY <1>1, <1>4
    <3>4. files[PathOf(n)] = SourceOf(Min(SourceRows(n)))
      BY <3>1, <3>3 DEF WrittenAre
    <3> QED
      BY <3>2, <3>4
  <2> QED
    BY <2>1, <2>2
<1> QED
  BY <1>3, <1>4 DEF WrittenAre

\* All the files before the k-th document could be written.
AllWritable(k) == \A n \in Before(k) : ~Unwritable(n, Before(k))

\* One more could.
LEMMA OneMoreWritable ==
    ASSUME NEW k \in Nat \ {0}, AllWritable(k), HasSource(k), ~Unwritable(k, Before(k))
    PROVE  AllWritable(k + 1)
<1>1. Before(k + 1) = Before(k) \cup {k}
  BY OneMoreBefore
<1>2. ~Clash(PathOf(k), PathOf(k))
  BY DEF Clash, IsStrictPrefix
<1>3. ASSUME NEW n \in Before(k) PROVE ~Clash(PathOf(k), PathOf(n))
  BY DEF Unwritable, Clash
<1> QED
  BY <1>1, <1>2, <1>3 DEF AllWritable, Unwritable

\* Why a document cannot be written.
LEMMA OccupiedIs ==
    ASSUME NEW k, WrittenAre(k, sources)
    PROVE  Unwritable(k, Before(k)) <=> k \in f.refused \/ Occupied(PathOf(k))
<1>1. DOMAIN sources = {PathOf(n) : n \in Before(k)}
  BY DEF WrittenAre
<1> QED
  BY <1>1 DEF Unwritable, Occupied, Clash

\* The files when the k-th document could not be written: of its source there may
\* be some in its place.
HalfWritten(k, files) ==
    /\ {PathOf(n) : n \in Before(k)} \subseteq DOMAIN files
    /\ \A p \in DOMAIN files :
         \/ /\ p \in {PathOf(n) : n \in Before(k)}
            /\ \A n \in Before(k) :
                 PathOf(n) = p /\ (\A m \in Before(k) : m > n => PathOf(m) # p)
                   => files[p] = SourceOf(Min(SourceRows(n)))
         \/ p = PathOf(k) /\ IsPrefix(files[p], SourceOf(Min(SourceRows(k))))

\* None of it is.
LEMMA HalfUnwritten ==
    ASSUME NEW k, NEW files, WrittenAre(k, files) PROVE HalfWritten(k, files)
  BY DEF WrittenAre, HalfWritten

\* A source is a sequence.
LEMMA SourceOfIs ==
    ASSUME f \in Files, NEW k \in Nat, HasSource(k)
    PROVE  \E S : SourceOf(Min(SourceRows(k))) \in Seq(S)
<1>1. PICK info \in Info : info = f.infos[Min(SourceRows(k))]
  BY RowsAre DEF HasSource
<1>2. info.content \in Seq(Byte) /\ info.size \in Sizes
  BY DEF Info
<1>3. info.size \in Int
  BY <1>2 DEF Sizes
<1>4. PICK c \in Seq(Byte), n \in Int : c = info.content /\ n = info.size
  BY <1>2, <1>3
<1> DEFINE S == {c[i] : i \in 1..n}
<1>5. SubSeq(c, 1, n) \in Seq(S)
  <2>1. \A i \in 1..n : c[i] \in S
    OBVIOUS
  <2> HIDE DEF S
  <2> QED
    BY <2>1, SubSeqProperties
<1> HIDE DEF S
<1> QED
  BY <1>1, <1>4, <1>5 DEF SourceOf

\* The beginning of a sequence.
LEMMA BeginningIs ==
    ASSUME NEW S, NEW s \in Seq(S), NEW n \in 0..Len(s)
    PROVE  IsPrefix(SubSeq(s, 1, n), s)
<1>1. SubSeq(s, 1, n) \in Seq(S) /\ Len(SubSeq(s, 1, n)) = n
  OBVIOUS
<1>2. SubSeq(SubSeq(s, 1, n), 1, n) = SubSeq(s, 1, n)
  BY <1>1, SubSeqFull
<1> QED
  BY <1>1, <1>2 DEF IsPrefix

\* The beginning of it is.
LEMMA HalfBegun ==
    ASSUME f \in Files, NEW k \in Nat, NEW files, WrittenAre(k, files), HasSource(k),
           NEW n \in 0..Len(SourceOf(Min(SourceRows(k)))), NEW more,
           more = [p \in DOMAIN files \cup {PathOf(k)} |->
                     IF p = PathOf(k) THEN SubSeq(SourceOf(Min(SourceRows(k))), 1, n) ELSE files[p]]
    PROVE  HalfWritten(k, more)
<1>1. DOMAIN files = {PathOf(m) : m \in Before(k)}
  BY DEF WrittenAre
<1>2. IsPrefix(SubSeq(SourceOf(Min(SourceRows(k))), 1, n), SourceOf(Min(SourceRows(k))))
  <2>1. PICK S : SourceOf(Min(SourceRows(k))) \in Seq(S)
    BY SourceOfIs
  <2> QED
    BY <2>1, BeginningIs
<1>3. ASSUME NEW p \in DOMAIN files, p # PathOf(k)
      PROVE  /\ p \in {PathOf(m) : m \in Before(k)}
             /\ \A i \in Before(k) :
                  PathOf(i) = p /\ (\A m \in Before(k) : m > i => PathOf(m) # p)
                    => more[p] = SourceOf(Min(SourceRows(i)))
  BY <1>1, <1>3 DEF WrittenAre
<1>4. more[PathOf(k)] = SubSeq(SourceOf(Min(SourceRows(k))), 1, n)
  OBVIOUS
<1>5. DOMAIN more = DOMAIN files \cup {PathOf(k)}
  OBVIOUS
<1> QED
  BY <1>1, <1>2, <1>3, <1>4, <1>5 DEF HalfWritten

\* How many they are.
LEMMA OneMoreCounted ==
    ASSUME NEW k \in Nat \ {0}
    PROVE  /\ Cardinality(Before(k)) \in Nat /\ Cardinality(ObjBefore(k)) \in Nat
           /\ HasSource(k) => Cardinality(Before(k + 1)) = Cardinality(Before(k)) + 1
           /\ InObj(k) => Cardinality(ObjBefore(k + 1)) = Cardinality(ObjBefore(k)) + 1
<1>1. IsFiniteSet(1..(k - 1))
  BY FS_Interval
<1>2. Before(k) \subseteq 1..(k - 1) /\ ObjBefore(k) \subseteq 1..(k - 1)
  BY DEF Before, ObjBefore
<1>3. IsFiniteSet(Before(k)) /\ IsFiniteSet(ObjBefore(k))
  BY <1>1, <1>2, FS_Subset
<1>4. k \notin Before(k) /\ k \notin ObjBefore(k)
  BY OneMoreBefore
<1>5. /\ Cardinality(Before(k)) \in Nat /\ Cardinality(ObjBefore(k)) \in Nat
      /\ Cardinality(Before(k) \cup {k}) = Cardinality(Before(k)) + 1
      /\ Cardinality(ObjBefore(k) \cup {k}) = Cardinality(ObjBefore(k)) + 1
  BY <1>3, <1>4, FS_CardinalityType, FS_AddElement
<1> QED
  BY <1>5, OneMoreBefore

-----------------------------------------------------------------------------
(* The run.                                                                *)

\* Where the run is, and what it found so far is what is in the file.
SourcesInv ==
    /\ f \in Files
    /\ stage \in {"directory", "tables", "rows", "done", "error", "unwritten", "panic"}
    /\ stage # "directory" => found = StreamNames(f)
    /\ stage \in {"directory", "tables"} => at = 1
    /\ stage = "rows" => reader = MetadataReader
    /\ at \in 1..(Len(f.docs) + 1)
    /\ IF stage = "unwritten" THEN HalfWritten(at, sources) ELSE WrittenAre(at, sources)
    /\ CountsAre(at, counts)
    /\ AllWritable(at)
    /\ stage = "unwritten" => HasSource(at) /\ Unwritable(at, Before(at))
    /\ stage = "error" =>
         \/ {"#~", "#-"} \cap StreamNames(f) = {} \/ ~({"#Blob", "#GUID"} \subseteq StreamNames(f))
         \/ err \/ f.heapCut > 0
         \/ at <= Len(f.docs) /\ HasSource(at) /\ Damaged(Min(SourceRows(at)))
    /\ stage = "panic" => HasSource(at) /\ f.infos[Min(SourceRows(at))].size < 0

\* What is said of the file stays so.
LEMMA FileStays ==
    ASSUME UNCHANGED f
    PROVE  /\ \A n : HasSource(n)' <=> HasSource(n)
           /\ \A n : SourceRows(n)' = SourceRows(n)
           /\ \A n : Damaged(n)' <=> Damaged(n)
           /\ \A n, files : WrittenAre(n, files)' <=> WrittenAre(n, files)
           /\ \A n, files : HalfWritten(n, files)' <=> HalfWritten(n, files)
           /\ \A n, c : CountsAre(n, c)' <=> CountsAre(n, c)
           /\ \A n : AllWritable(n)' <=> AllWritable(n)
           /\ \A n : Unwritable(n, Before(n))' <=> Unwritable(n, Before(n))
           /\ MetadataReader' = MetadataReader
  BY DEF HasSource, InObj, PathOf, SourceRows, SourceOf, Damaged, Before, ObjBefore,
         WrittenAre, HalfWritten, CountsAre, AllWritable, Unwritable, MetadataReader

\* Why a run may give up at the k-th document, why it may not write it, and why it
\* may panic.
MayFail(k, failed) ==
    \/ {"#~", "#-"} \cap StreamNames(f) = {} \/ ~({"#Blob", "#GUID"} \subseteq StreamNames(f))
    \/ failed \/ f.heapCut > 0
    \/ k <= Len(f.docs) /\ HasSource(k) /\ Damaged(Min(SourceRows(k)))
MayNotWrite(k) == HasSource(k) /\ Unwritable(k, Before(k))
MayPanic(k) == HasSource(k) /\ f.infos[Min(SourceRows(k))].size < 0

\* The invariant after a step that leaves the file alone.
LEMMA InvNext ==
    ASSUME f \in Files, UNCHANGED f,
           stage' \in {"directory", "tables", "rows", "done", "error", "unwritten", "panic"},
           stage' # "directory" => found' = StreamNames(f),
           stage' \in {"directory", "tables"} => at' = 1,
           stage' = "rows" => reader' = MetadataReader,
           at' \in 1..(Len(f.docs) + 1),
           IF stage' = "unwritten" THEN HalfWritten(at', sources') ELSE WrittenAre(at', sources'),
           CountsAre(at', counts'), AllWritable(at'),
           stage' = "unwritten" => MayNotWrite(at'),
           stage' = "error" => MayFail(at', err'),
           stage' = "panic" => MayPanic(at')
    PROVE  SourcesInv'
<1>1. MetadataReader' = MetadataReader
  BY FileStays
<1>2. (IF stage = "unwritten" THEN HalfWritten(at, sources) ELSE WrittenAre(at, sources))'
  <2>1. WrittenAre(at', sources') <=> WrittenAre(at, sources)'
    BY DEF WrittenAre, Before, HasSource, SourceRows, SourceOf, InObj, PathOf
  <2>2. HalfWritten(at', sources') <=> HalfWritten(at, sources)'
    BY DEF HalfWritten, Before, HasSource, SourceRows, SourceOf, InObj, PathOf
  <2> QED
    BY <2>1, <2>2
<1>3. CountsAre(at, counts)'
  BY DEF CountsAre, Before, ObjBefore, HasSource, SourceRows, InObj
<1>4. AllWritable(at)'
  BY DEF AllWritable, Unwritable, Before, HasSource, SourceRows, InObj, PathOf
<1>5. (stage = "unwritten" => MayNotWrite(at))'
  BY DEF MayNotWrite, Unwritable, Before, HasSource, SourceRows, InObj, PathOf
<1>6. (stage = "error" => MayFail(at, err))'
  BY DEF MayFail, HasSource, Damaged, SourceRows, InObj, StreamNames
<1>7. (stage = "panic" => MayPanic(at))'
  BY DEF MayPanic, HasSource, SourceRows, InObj
<1>8. (stage # "directory" => found = StreamNames(f))'
  BY DEF StreamNames
<1>9. (stage = "rows" => reader = MetadataReader)'
  BY <1>1
<1> QED
  BY <1>2, <1>3, <1>4, <1>5, <1>6, <1>7, <1>8, <1>9 DEF SourcesInv, MayFail, MayNotWrite, MayPanic

\* One document: what it leads to is written and counted.
LEMMA ExtractRowStep ==
    ASSUME SourcesInv, ExtractRow
    PROVE  SourcesInv'
<1> DEFINE n == Len(f.docs)
           result == Extraction(at)
           source == SourceOf(Min(SourceRows(at)))
           path == FullPath(RelPath(DocumentName(at).value))
<1>1. /\ f \in Files /\ stage = "rows" /\ found = StreamNames(f) /\ reader = MetadataReader
      /\ at \in 1..(n + 1) /\ WrittenAre(at, sources) /\ CountsAre(at, counts) /\ AllWritable(at)
  BY DEF SourcesInv, ExtractRow
<1>2. UNCHANGED <<f, found, reader, err>> /\ at <= n
  BY DEF ExtractRow, vars
<1>3. n \in Nat /\ at \in 1..n /\ at \in Nat \ {0} /\ at + 1 \in 1..(n + 1)
  <2>1. n \in Nat
    BY <1>1, ContentsAssumption DEF ContentsOK
  <2> HIDE DEF n
  <2> QED
    BY <1>1, <1>2, <2>1
<1>4. \/ SkipDocument(result.outcome)
      \/ GiveUp(result.outcome)
      \/ result.outcome = "ok" /\ WriteSource(path, result.source)
      \/ result.outcome = "ok" /\ WriteFails(path, result.source)
  BY DEF ExtractRow
<1>5. \/ /\ result = [outcome |-> "error"]
         /\ f.heapCut > 0 \/ (HasSource(at) /\ Damaged(Min(SourceRows(at))))
      \/ result = [outcome |-> "obj"] /\ InObj(at)
      \/ result = [outcome |-> "none"] /\ ~InObj(at) /\ ~HasSource(at)
      \/ /\ result = [outcome |-> "panic"]
         /\ HasSource(at) /\ f.infos[Min(SourceRows(at))].size < 0
      \/ /\ result = [outcome |-> "ok", source |-> source]
         /\ HasSource(at) /\ ~InObj(at) /\ path = PathOf(at)
  BY <1>1, <1>3, ExtractionIs
<1> HIDE DEF result, source, path
<1>6. PICK a \in Nat, b \in Nat : a = Cardinality(Before(at)) /\ b = Cardinality(ObjBefore(at))
  BY <1>3, OneMoreCounted
<1>7. counts = [ok |-> a, obj |-> b]
  BY <1>1, <1>6 DEF CountsAre
<1>8. ASSUME ~HasSource(at)
      PROVE  WrittenAre(at + 1, sources) /\ Cardinality(Before(at + 1)) = a /\ AllWritable(at + 1)
  <2>1. Before(at + 1) = Before(at)
    BY <1>3, <1>8, OneMoreBefore
  <2> QED
    BY <1>1, <1>6, <2>1 DEF WrittenAre, AllWritable
<1>9. ~InObj(at) => Cardinality(ObjBefore(at + 1)) = b
  BY <1>3, <1>6, OneMoreBefore
<1>10. ASSUME GiveUp(result.outcome),
              stage' = "error" => MayFail(at', err'), stage' = "panic" => MayPanic(at')
       PROVE  SourcesInv'
  <2>1. UNCHANGED <<at, sources, counts>> /\ stage' \in {"error", "panic"}
    BY <1>10 DEF GiveUp
  <2> HIDE DEF n
  <2>2. at' \in 1..(n + 1)
    BY <1>1, <2>1
  <2> QED
    BY <1>1, <1>2, <1>10, <2>1, <2>2, InvNext DEF n
<1>11. ASSUME stage' = stage, at' = at + 1,
              WrittenAre(at + 1, sources'), CountsAre(at + 1, counts'), AllWritable(at + 1)
       PROVE  SourcesInv'
  BY <1>1, <1>2, <1>3, <1>11, InvNext
<1>12. CASE /\ result = [outcome |-> "error"]
            /\ f.heapCut > 0 \/ (HasSource(at) /\ Damaged(Min(SourceRows(at))))
  <2>1. result.outcome = "error"
    BY <1>12
  <2>2. GiveUp(result.outcome) /\ at' = at /\ stage' = "error"
    BY <1>4, <2>1 DEF SkipDocument, GiveUp
  <2>3. MayFail(at', err')
    BY <1>2, <1>12, <2>2 DEF MayFail
  <2> QED
    BY <1>10, <2>2, <2>3
<1>13. CASE result = [outcome |-> "obj"] /\ InObj(at)
  <2>1. result.outcome = "obj" /\ ~HasSource(at)
    BY <1>13 DEF HasSource
  <2>2. /\ UNCHANGED <<stage, sources>> /\ at' = at + 1
        /\ counts' = [counts EXCEPT !.obj = @ + 1]
    BY <1>4, <2>1 DEF SkipDocument, GiveUp
  <2>3. counts' = [ok |-> a, obj |-> b + 1]
    <3>1. PICK c : c = counts
      OBVIOUS
    <3>2. [c EXCEPT !.obj = @ + 1] = [ok |-> a, obj |-> b + 1]
      BY <1>7, <3>1
    <3> QED
      BY <2>2, <3>1, <3>2
  <2>4. Cardinality(ObjBefore(at + 1)) = b + 1
    BY <1>3, <1>6, <1>13, OneMoreCounted
  <2>5. CountsAre(at + 1, counts')
    BY <1>8, <2>1, <2>3, <2>4 DEF CountsAre
  <2> QED
    BY <1>8, <1>11, <2>1, <2>2, <2>5
<1>14. CASE result = [outcome |-> "none"] /\ ~InObj(at) /\ ~HasSource(at)
  <2>1. result.outcome = "none"
    BY <1>14
  <2>2. UNCHANGED <<stage, sources, counts>> /\ at' = at + 1
    BY <1>4, <2>1 DEF SkipDocument, GiveUp
  <2>3. CountsAre(at + 1, counts')
    BY <1>7, <1>8, <1>9, <1>14, <2>2 DEF CountsAre
  <2> QED
    BY <1>8, <1>11, <1>14, <2>2, <2>3
<1>15. CASE /\ result = [outcome |-> "panic"]
            /\ HasSource(at) /\ f.infos[Min(SourceRows(at))].size < 0
  <2>1. result.outcome = "panic"
    BY <1>15
  <2>2. GiveUp(result.outcome) /\ at' = at /\ stage' = "panic"
    BY <1>4, <2>1 DEF SkipDocument, GiveUp
  <2>3. MayPanic(at')
    BY <1>15, <2>2 DEF MayPanic
  <2> QED
    BY <1>10, <2>2, <2>3
<1>16. CASE /\ result = [outcome |-> "ok", source |-> source]
            /\ HasSource(at) /\ ~InObj(at) /\ path = PathOf(at)
  <2>1. result.outcome = "ok" /\ result.source = source
    BY <1>16
  <2>2. WriteSource(PathOf(at), source) \/ WriteFails(PathOf(at), source)
    BY <1>4, <1>16, <2>1 DEF SkipDocument, GiveUp
  <2>3. Unwritable(at, Before(at)) <=> at \in f.refused \/ Occupied(PathOf(at))
    BY <1>1, OccupiedIs
  <2>4. CASE WriteSource(PathOf(at), source)
    <3>1. /\ sources' = Written(PathOf(at), source) /\ stage' = stage /\ at' = at + 1
          /\ counts' = [counts EXCEPT !.ok = @ + 1]
          /\ ~Unwritable(at, Before(at))
      BY <2>3, <2>4 DEF WriteSource
    <3>2. WrittenAre(at + 1, sources')
      BY <1>1, <1>3, <1>16, <3>1, OneMoreWritten DEF source, Written
    <3>3. counts' = [ok |-> a + 1, obj |-> b]
      <4>1. PICK c : c = counts
        OBVIOUS
      <4>2. [c EXCEPT !.ok = @ + 1] = [ok |-> a + 1, obj |-> b]
        BY <1>7, <4>1
      <4> QED
        BY <3>1, <4>1, <4>2
    <3>4. Cardinality(Before(at + 1)) = a + 1
      BY <1>3, <1>6, <1>16, OneMoreCounted
    <3>5. CountsAre(at + 1, counts')
      BY <1>9, <1>16, <3>3, <3>4 DEF CountsAre
    <3>6. AllWritable(at + 1)
      BY <1>1, <1>3, <1>16, <3>1, OneMoreWritable
    <3> QED
      BY <1>11, <3>1, <3>2, <3>5, <3>6
  <2>5. CASE WriteFails(PathOf(at), source)
    <3>1. stage' = "unwritten" /\ UNCHANGED <<at, counts>>
      BY <2>5 DEF WriteFails
    <3>2. MayNotWrite(at)
      BY <1>16, <2>3, <2>5 DEF WriteFails, MayNotWrite
    <3>3. \/ sources' = sources
          \/ \E i \in 0..Len(source) : sources' = Written(PathOf(at), SubSeq(source, 1, i))
      BY <2>5 DEF WriteFails
    <3>4. HalfWritten(at, sources')
      <4>1. CASE sources' = sources
        BY <1>1, <4>1, HalfUnwritten
      <4>2. ASSUME NEW i \in 0..Len(source), sources' = Written(PathOf(at), SubSeq(source, 1, i))
            PROVE  HalfWritten(at, sources')
        BY <1>1, <1>3, <1>16, <4>2, HalfBegun DEF source, Written
      <4> QED
        BY <3>3, <4>1, <4>2
    <3> QED
      BY <1>1, <1>2, <3>1, <3>2, <3>4, InvNext
  <2> QED
    BY <2>2, <2>4, <2>5
<1> QED
  BY <1>5, <1>12, <1>13, <1>14, <1>15, <1>16

\* What the run found, wrote and counted is always what was in the file.
THEOREM SourcesInvariance == SourcesSpec => []SourcesInv
<1>1. SourcesInit => SourcesInv
  <2> SUFFICES ASSUME SourcesInit PROVE SourcesInv
    OBVIOUS
  <2>1. f \in Files /\ stage = "directory" /\ at = 1 /\ sources = <<>> /\ counts = [ok |-> 0, obj |-> 0]
    BY DEF SourcesInit, Init
  <2>2. Len(f.docs) \in Nat
    BY <2>1, ContentsAssumption DEF ContentsOK
  <2>3. at \in 1..(Len(f.docs) + 1)
    BY <2>1, <2>2
  <2>4. Before(at) = {} /\ ObjBefore(at) = {}
    BY <2>1 DEF Before, ObjBefore
  <2>5. WrittenAre(at, sources)
    BY <2>1, <2>4 DEF WrittenAre
  <2>6. CountsAre(at, counts)
    BY <2>1, <2>4, FS_EmptySet DEF CountsAre
  <2>7. AllWritable(at)
    BY <2>4 DEF AllWritable
  <2> QED
    BY <2>1, <2>3, <2>5, <2>6, <2>7 DEF SourcesInv
<1>2. SourcesInv /\ [SourcesNext]_allVars => SourcesInv'
  <2> SUFFICES ASSUME SourcesInv, [SourcesNext]_allVars PROVE SourcesInv'
    OBVIOUS
  <2>1. f \in Files /\ ContentsOK(f)
    BY ContentsAssumption DEF SourcesInv
  <2>2. CASE ReadDirectory
    <3>1. found' = StreamNames(f)
      BY <2>1, <2>2, DirectoryIs
    <3> QED
      BY <2>1, <2>2, <3>1, InvNext DEF ReadDirectory, SourcesInv, vars
  <2>3. CASE LayOut
    <3>1. UNCHANGED f
      BY <2>3 DEF LayOut, Next, AbsentTable, SkipTable, UnsupportedTable, ReadTable
    <3>2. UNCHANGED sourceVars /\ stage = "tables"
      BY <2>3 DEF LayOut
    <3> QED
      BY <2>1, <3>1, <3>2, InvNext DEF SourcesInv, sourceVars
  <2>4. CASE StartExtract
    <3>1. UNCHANGED <<f, err, found, at, sources, counts>> /\ stage = "tables" /\ found = StreamNames(f)
      BY <2>4 DEF StartExtract, vars, SourcesInv
    <3>2. CASE StreamsFound /\ ~err
      <4>1. stage' = "rows" /\ reader' = MetadataReader
        BY <2>4, <3>2 DEF StartExtract
      <4> QED
        BY <2>1, <3>1, <4>1, InvNext DEF SourcesInv
    <3>3. CASE ~(StreamsFound /\ ~err)
      <4>1. stage' = "error"
        BY <2>4, <3>3 DEF StartExtract
      <4>2. MayFail(at', err')
        BY <3>1, <3>3 DEF MayFail, StreamsFound
      <4> QED
        BY <2>1, <3>1, <4>1, <4>2, InvNext DEF SourcesInv
    <3> QED
      BY <3>2, <3>3
  <2>5. CASE ExtractRow
    BY <2>5, ExtractRowStep
  <2>6. CASE Extracted
    BY <2>1, <2>6, InvNext DEF Extracted, SourcesInv, vars
  <2>7. CASE UNCHANGED allVars
    <3>1. UNCHANGED <<f, err, stage, found, reader, at, sources, counts>>
      BY <2>7 DEF allVars, vars, sourceVars
    <3> QED
      BY <2>1, <3>1, InvNext DEF SourcesInv, MayFail, MayNotWrite, MayPanic
  <2> QED
    BY <2>2, <2>3, <2>4, <2>5, <2>6, <2>7 DEF SourcesNext
<1> QED
  BY <1>1, <1>2, PTL DEF SourcesSpec

\* The files written are those of the documents so far: each where its segments
\* lead from the target directory, with the source the writer attached to the
\* document first, the last of several documents of one path; the counts add up
\* to them; Extract gives up only on a file that is damaged, and just on a
\* document that cannot be written; and it panics only on a source of a negative
\* size.
THEOREM SourcesAreTheWritersHolds == SourcesSpec => []SourcesAreTheWriters
<1>1. SourcesInv => SourcesAreTheWriters
  <2> SUFFICES ASSUME SourcesInv PROVE SourcesAreTheWriters
    OBVIOUS
  <2>1. HalfWritten(at, sources) /\ (stage # "unwritten" => WrittenAre(at, sources))
    BY HalfUnwritten DEF SourcesInv
  <2>2. stage # "unwritten" => DOMAIN sources = {PathOf(n) : n \in Before(at)}
    BY <2>1 DEF WrittenAre
  <2>3. \A p \in DOMAIN sources :
            \/ /\ p \in {PathOf(n) : n \in Before(at)}
               /\ \A n \in Before(at) :
                    PathOf(n) = p /\ (\A m \in Before(at) : m > n => PathOf(m) # p)
                      => sources[p] = SourceOf(Min(SourceRows(n)))
            \/ /\ stage = "unwritten" /\ p = PathOf(at)
               /\ IsPrefix(sources[p], SourceOf(Min(SourceRows(at))))
    BY <2>1, <2>2 DEF HalfWritten, WrittenAre
  <2> QED
    BY <2>1, <2>3 DEF SourcesInv, SourcesAreTheWriters, HalfWritten, AllWritable, CountsAre, Before, ObjBefore
<1> QED
  BY <1>1, SourcesInvariance, PTL
=============================================================================
