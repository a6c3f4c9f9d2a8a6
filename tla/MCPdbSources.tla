---------------------------- MODULE MCPdbSources ----------------------------
(* Files whose row counts are at the thresholds of the widths, and small    *)
(* files with contents: names in every form, sources in every state, heaps  *)
(* with references of one, two and four bytes.                              *)
EXTENDS PdbSources

NameLength == ("#~" :> 2) @@ ("#-" :> 2) @@ ("#US" :> 3) @@ ("#Pdb" :> 4) @@ ("#GUID" :> 5) @@ ("#Blob" :> 5)
Names(S) == {[name |-> n, length |-> NameLength[n]] : n \in S}
MCStreams == SetToSeq(Names({"#~", "#Blob", "#GUID", "#Pdb"}))
NoContents == [version |-> 12, streams |-> MCStreams, docs |-> <<>>, infos |-> <<>>,
               filler |-> 0, heapCut |-> 0, skipObj |-> FALSE, refused |-> {}]

MCBoundaries == {0, 2047, 2048, 65535, 65536}
Few(S) == [t \in S |-> 2]
FewRows == [t \in Tables |-> IF t \in TypeSystem THEN 0 ELSE 2]

\* The tables that have rows are present, and perhaps others.
With(rows, others) == [present |-> {t \in Tables : rows[t] > 0 \/ t \in others}, rows |-> rows]

\* One table at a boundary, with any heaps wide and with payloads that end early.
MCOne ==
    {With([FewRows EXCEPT ![d] = n], {})
        @@ [external |-> Few(TypeSystem), wide |-> w, cut |-> c] @@ NoContents :
         d \in DebugTables, n \in MCBoundaries, w \in SUBSET Heaps, c \in {0, 1, 200}}

\* Tables that are absent or empty, in a payload that ends anywhere.
MCAbsent ==
    {With([t \in Tables |-> IF t \in S THEN 2 ELSE 0], others)
        @@ [external |-> Few(TypeSystem), wide |-> {}, cut |-> c] @@ NoContents :
         S \in SUBSET {Document, LocalScope, LocalVariable, CustomDebugInformation},
         c \in {0, 1, 13, 40, 200}, others \in {{}, {Document}, {CustomDebugInformation}}}

\* Two of them, and rows of a type-system table in the file or outside it.
MCTwo ==
    {With([FewRows EXCEPT ![d] = n, ![Field] = k], Tables)
        @@ [external |-> [Few(TypeSystem) EXCEPT ![e] = m], wide |-> {"blob"}, cut |-> 0] @@ NoContents :
         d \in DebugTables, n \in MCBoundaries, e \in TypeSystem, m \in MCBoundaries, k \in {0, 1}}

\* A file with these documents and rows.
File(docs, infos) ==
    With([FewRows EXCEPT ![Document] = Len(docs), ![CustomDebugInformation] = Len(infos)], {})
        @@ [external |-> Few(TypeSystem), wide |-> {}, cut |-> 0, docs |-> docs, infos |-> infos]
        @@ NoContents

Named(segments, encoding, roots) == [segments |-> segments, encoding |-> encoding, roots |-> roots]
A == <<97>>
B == <<98, 98>>
Source(n, size) == [tag |-> DocumentTag, row |-> n, kind |-> "source", size |-> size,
                    content |-> <<104, 105, 48 + n>>, fault |-> "none"]
\* What is in the table besides: another kind, another table with the same row.
Others(n) == {[Source(n, 0) EXCEPT !.kind = "other"], [Source(n, 3) EXCEPT !.tag = 6]}
MCTwoDocs == <<Named(<<A, B>>, "slash", 1), Named(<<B>>, "backslash", 0)>>

\* Names, with obj and not quite obj in them, and two of the same path.
MCNames ==
    {[File(<<Named(<<A, s, B>>, e, r), Named(t, "slash", 0)>>, <<Source(2, 3), Source(1, 0)>>)
        EXCEPT !.skipObj = o] :
         s \in {A, Obj, Obj \o A, A \o Obj}, t \in {<<A, A, B>>, <<Obj>>, <<B, Obj>>},
         e \in {"slash", "backslash", "path"}, r \in 0..2, o \in BOOLEAN}

\* Two sources of which the places may be the same, one below the other, or at or
\* above the target directory, and which the system may refuse to write.
MCTargetDir == <<B, A>>
MCPlaces == {<<A>>, <<A, B>>, <<Dot, A>>, <<B, DotDot, A>>, <<A, Dot>>, <<DotDot, A>>, <<DotDot, B>>,
             <<DotDot, A, B>>, <<DotDot, DotDot, DotDot, A>>}
MCClashes ==
    {[File(<<Named(s, "slash", 0), Named(t, "path", 1)>>, <<Source(1, 3), Source(2, 0)>>)
        EXCEPT !.refused = refused] : s \in MCPlaces, t \in MCPlaces, refused \in SUBSET {1, 2}}

\* Rows in any order, sources of which the size or the rest is wrong.
MCRows ==
    {File(MCTwoDocs, <<x, y, z>>) :
         x \in Others(1) \cup {Source(1, 3), Source(2, 0)},
         y \in {[Source(n, size) EXCEPT !.fault = fault, !.kind = kind] :
                   n \in {1, 2}, size \in {-1, 0, 2, 3, 4}, kind \in {"source", "lost"},
                   fault \in {"none", "corrupt", "short"}},
         z \in Others(2) \cup {Source(1, 0)}}

\* References around the ends of their forms, and heaps that were cut off.
MCHeaps ==
    {[File(MCTwoDocs, <<Source(1, 3), Source(2, 0)>>) EXCEPT !.filler = n, !.heapCut = c] :
         n \in {0, 118, 125, 127, 128}, c \in 0..12}
    \cup {[File(MCTwoDocs, <<Source(1, 0)>>) EXCEPT !.filler = n] : n \in {16374, 16383, 16384}}

\* Directories: versions of some lengths, names of every length modulo four, a
\* stream missing.
MCDirectories ==
    LET Streams(S) == [File(MCTwoDocs, <<Source(2, 3)>>) EXCEPT
            !.streams = SetToSeq(Names(S)),
            !.external = [t \in TypeSystem |-> IF "#Pdb" \in S THEN 2 ELSE 0]]
    IN {[Streams(S) EXCEPT !.version = v] :
           v \in {0, 4, 12}, S \in SUBSET {"#~", "#US", "#Blob", "#GUID", "#Pdb"}}
       \cup {Streams({"#-", "#Blob", "#GUID"})}

MCFiles == MCOne \cup MCTwo \cup MCAbsent \cup MCNames \cup MCClashes \cup MCRows \cup MCHeaps
           \cup MCDirectories
=============================================================================
