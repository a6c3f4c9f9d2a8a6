----------------------------- MODULE PdbSources -----------------------------
(***************************************************************************)
(* From the streams of a pdb file to the sources embedded in it:           *)
(* parseStreams and NewMetadataReader, EmbeddedSource and Extract of       *)
(* internal/pdb, with the tables found by PdbLayout.                       *)
(*                                                                         *)
(* A file whose documents are given is laid out by a writer stated here,   *)
(* and the reader must find the names and the sources that went into it,   *)
(* or give up on a file that is damaged or on a source it cannot write.    *)
(***************************************************************************)
EXTENDS PdbLayout, PdbBytes

CONSTANT TargetDir   \* the directory to extract to, from the root, without links

Slash == 47
Backslash == 92
Segment == Seq(Byte \ {0, Slash, Backslash}) \ {<<>>}

\* Both callers of Extract make the directory before.  A path is its segments.
ASSUME TargetDirAssumption == TargetDir \in Seq(Segment)

Stream == [name : STRING, length : Nat]

\* The name of a document is segments below some roots, in parts or in one.
Doc == [segments : Seq(Segment) \ {<<>>}, encoding : {"slash", "backslash", "path"}, roots : Nat]

\* The numbers of 32 bits.
Sizes == (-(2^30) - 2^30)..((2^30 - 1) + 2^30)

\* A row of the CustomDebugInformation table.  It has a source of which the
\* recorded size, 0 for a source that is not compressed, and what is wrong with
\* the rest may be any; its kind may be lost with the end of the #GUID heap.
Info == [tag : 0..MaxTag, row : Nat, kind : {"source", "other", "lost"},
         size : Sizes, content : Seq(Byte),
         fault : {"none", "corrupt", "short"}]

StreamNames(file) == {s.name : s \in Range(file.streams)}

\* What is in a file besides PdbLayout: the length of the version, rounded up to a
\* multiple of four, and the lengths of the names of its streams; its documents
\* and rows; a blob of some length at the start of the heap, and by how much the
\* heap was cut off.  And what the run meets with: whether obj/ is skipped, and
\* the documents whose file the system refuses, for want of space or of rights,
\* or for what is in its place already.
ContentsOK(file) ==
    /\ file.version \in Nat /\ file.version % 4 = 0
    /\ file.streams \in Seq(Stream)
    /\ "#Pdb" \notin StreamNames(file) => file.external = [t \in TypeSystem |-> 0]
    /\ file.docs \in Seq(Doc) /\ file.infos \in Seq(Info)
    /\ {file.filler, file.heapCut} \subseteq Nat /\ file.skipObj \in BOOLEAN
    /\ file.refused \subseteq DOMAIN file.docs

ASSUME ContentsAssumption == \A file \in Files : ContentsOK(file)

VARIABLES
    stage,    \* where NewMetadataReader and Extract are
    found,    \* the streams in the directory
    reader,   \* the MetadataReader: its blobHeap and the references to it
    at,       \* Extract's row
    sources,  \* the files it has written
    counts    \* of extracted files and of those skipped below obj/

sourceVars == <<stage, found, reader, at, sources, counts>>
allVars == <<vars, sourceVars>>

-----------------------------------------------------------------------------
(* The writer.                                                             *)

Obj == <<111, 98, 106>>
DocumentTag == 22

CompressedUint(n) ==
    IF n < 2^7 THEN <<n>>
    ELSE IF n < 2^14 THEN <<128 + (n \div 2^8), n % 2^8>>
    ELSE <<192 + (n \div 2^24), (n \div 2^16) % 2^8, (n \div 2^8) % 2^8, n % 2^8>>

\* The first n of some parts in one, with a glue between them.
Join(glue, parts, n) ==
    LET joined[k \in 0..n] ==
            IF k = 0 THEN <<>>
            ELSE joined[k - 1] \o (IF k > 1 THEN glue ELSE <<>>) \o parts[k]
    IN joined[n]
Joined(parts) == Join(<<Slash>>, parts, Len(parts))

\* The parts of a name: its segments below the roots, or all of it in one.
Rooted(d) == [i \in 1..d.roots |-> <<>>] \o d.segments
Parts(d) == IF d.encoding = "path" THEN <<Joined(Rooted(d))>> ELSE Rooted(d)

Separator(d) == CASE d.encoding = "slash" -> Slash
                  [] d.encoding = "backslash" -> Backslash
                  [] d.encoding = "path" -> 0

\* The blob of a source: its size as a little-endian number, and the rest.
SourceBlob(info) ==
    LET stream == Deflate(info.content)
        rest == CASE info.size = 0 -> info.content
                  [] info.size # 0 /\ info.fault = "corrupt" -> [stream EXCEPT ![2] = Corrupt]
                  [] info.size # 0 /\ info.fault # "corrupt" -> stream
    IN IF info.fault = "short" THEN <<0, 0, 0>>
       ELSE [i \in 1..4 |-> (info.size \div 256^(i - 1)) % 256] \o rest

AddBlob(heap, blob) == heap \o CompressedUint(Len(blob)) \o blob

\* A heap with the first n of some blobs more, where the i-th is at RefTo.
AddBlobs(heap, blobs, n) ==
    LET grown[k \in 0..n] == IF k = 0 THEN heap ELSE AddBlob(grown[k - 1], blobs[k])
    IN grown[n]
RefTo(heap, blobs, i) == Len(AddBlobs(heap, blobs, i - 1))

\* The parts of a name, and then its separator and the references to them.
WithParts(heap, d) == AddBlobs(heap, Parts(d), Len(Parts(d)))
Refs(heap, d) == [i \in DOMAIN Parts(d) |-> CompressedUint(RefTo(heap, Parts(d), i))]
NameBlob(heap, d) == <<Separator(d)>> \o Join(<<>>, Refs(heap, d), Len(Parts(d)))

\* A heap with a name more, and one with the names of the first n documents.
WithName(heap, d) == AddBlob(WithParts(heap, d), NameBlob(heap, d))
WithNames(file, n) ==
    LET grown[k \in 0..n] ==
            IF k = 0 THEN AddBlob(<<0>>, [i \in 1..file.filler |-> 0])
            ELSE WithName(grown[k - 1], file.docs[k])
    IN grown[n]

\* The heap with the names of the documents, then the blobs of the table.
WrittenHeap(file) ==
    LET names == WithNames(file, Len(file.docs))
        infos == [i \in DOMAIN file.infos |-> SourceBlob(file.infos[i])]
    IN [blobHeap |-> AddBlobs(names, infos, Len(infos)),
        names |-> [n \in DOMAIN file.docs |-> Len(WithParts(WithNames(file, n - 1), file.docs[n]))],
        values |-> [i \in DOMAIN file.infos |-> RefTo(names, infos, i)]]

\* The references to a heap are compressed, and no more is cut off than there is.
ASSUME HeapsAssumption ==
    \A file \in Files : Len(WrittenHeap(file).blobHeap) \in file.heapCut..(2^29 - 1)

\* The i-th entry of the stream directory begins at a multiple of four.
Entry(file, i) ==
    LET Padded(n) == ((n + 3) \div 4) * 4
    IN 20 + file.version
         + Total([k \in DOMAIN file.streams |-> 8 + Padded(file.streams[k].length + 1)], i - 1)

-----------------------------------------------------------------------------
(* The reader.                                                             *)

\* An offset, a size and a name that ends with NUL; then Align4.
NextEntry(pos, stream) ==
    LET end == pos + 8 + stream.length + 1
    IN IF end % 4 = 0 THEN end ELSE end + 4 - (end % 4)

\* parseStreams: what it reads at the i-th entry is a stream if it is there.
ReadDirectory ==
    /\ stage = "directory"
    /\ LET pos[i \in 1..Len(f.streams)] ==
               IF i = 1 THEN 20 + f.version ELSE NextEntry(pos[i - 1], f.streams[i - 1])
       IN found' = {f.streams[i].name : i \in {k \in DOMAIN f.streams : pos[k] = Entry(f, k)}}
    /\ stage' = "tables"
    /\ UNCHANGED <<vars, reader, at, sources, counts>>

\* There is a stream of the tables, and requireStream.
StreamsFound == {"#~", "#-"} \cap found # {} /\ {"#Blob", "#GUID"} \subseteq found

\* computeDebugTableLayout, which comes before the heaps are looked at.
LayOut ==
    /\ stage = "tables" /\ {"#~", "#-"} \cap found # {}
    /\ Next
    /\ UNCHANGED sourceVars

\* The contents of the file are given, not only the sizes of its tables.
HasContents ==
    Len(f.docs) = f.rows[Document] /\ Len(f.infos) = f.rows[CustomDebugInformation]

MetadataReader ==
    LET written == WrittenHeap(f)
    IN [written EXCEPT !.blobHeap = SubSeq(@, 1, Len(@) - f.heapCut)]

StartExtract ==
    /\ stage = "tables"
    /\ \/ {"#~", "#-"} \cap found = {}
       \/ ~Walking
    /\ IF StreamsFound /\ ~err
       THEN HasContents /\ stage' = "rows" /\ reader' = MetadataReader
       ELSE stage' = "error" /\ UNCHANGED reader
    /\ UNCHANGED <<vars, found, at, sources, counts>>

\* The parent column, and its split into the tag and the row.
ParentOf(row) == f.infos[row].row * 32 + f.infos[row].tag
IsOf(row, docRow) == ParentOf(row) % 32 = DocumentTag /\ ParentOf(row) \div 32 = docRow

\* Mutant of EmbeddedSourceRows: the tag is not looked at.
EmbeddedSourceRowsOfAny(docRow) ==
    {row \in DOMAIN f.infos : ParentOf(row) \div 32 = docRow /\ f.infos[row].kind # "other"}

\* EmbeddedSource: the rows at which its search can end, of which it takes the
\* first: a source of the document, or a kind it cannot look up in the #GUID heap.
EmbeddedSourceRows(docRow) ==
    {row \in DOMAIN f.infos : IsOf(row, docRow) /\ f.infos[row].kind # "other"}

\* strings.TrimLeft(strings.ReplaceAll(name, "\\", "/"), "/")
RelPath(name) ==
    LET slashed == [i \in DOMAIN name |-> IF name[i] = Backslash THEN Slash ELSE name[i]]
        first == {i \in DOMAIN name : slashed[i] # Slash}
    IN IF first = {} THEN <<>> ELSE SubSeq(slashed, Min(first), Len(name))

\* strings.Split(path, "/")
Split(path) ==
    LET segments[n \in 0..Len(path)] ==
            IF n = 0 THEN << <<>> >>
            ELSE IF path[n] = Slash THEN Append(segments[n - 1], <<>>)
            ELSE Append(Front(segments[n - 1]), Append(Last(segments[n - 1]), path[n]))
    IN segments[Len(path)]

isUnderObjDirectory(path) == Obj \in Range(Split(path))

\* filepath.Clean of an absolute path: a segment that is empty or "." counts for
\* nothing, and ".." takes away the one before it, if there is one.
Dot == <<46>>
DotDot == <<46, 46>>
Clean(segments) ==
    LET cleaned[n \in 0..Len(segments)] ==
            IF n = 0 THEN <<>>
            ELSE IF segments[n] \in {<<>>, Dot} THEN cleaned[n - 1]
            ELSE IF segments[n] = DotDot
                 THEN IF cleaned[n - 1] = <<>> THEN <<>> ELSE Front(cleaned[n - 1])
            ELSE Append(cleaned[n - 1], segments[n])
    IN cleaned[Len(segments)]

\* filepath.Join
FullPath(relPath) == Clean(TargetDir \o Split(relPath))

DocumentName(n) == decodeDocumentName(reader.blobHeap, reader.names[n])

\* What becomes of the n-th document: its source, or why it has none.
Extraction(n) ==
    LET rows == EmbeddedSourceRows(n)
        blob == readBlob(reader.blobHeap, reader.values[Min(rows)])
    IN IF ~DocumentName(n).ok THEN [outcome |-> "error"]
       ELSE IF f.skipObj /\ isUnderObjDirectory(RelPath(DocumentName(n).value)) THEN [outcome |-> "obj"]
       ELSE IF rows = {} THEN [outcome |-> "none"]
       ELSE IF f.infos[Min(rows)].kind = "lost" \/ ~blob.ok THEN [outcome |-> "error"]
       ELSE decompressEmbeddedSource(blob.value)

\* os.WriteFile; a source written earlier is overwritten.
Written(path, source) ==
    [p \in DOMAIN sources \cup {path} |-> IF p = path THEN source ELSE sources[p]]

\* A file cannot be at this path: os.MkdirAll finds a file where it needs a
\* directory, or os.WriteFile a directory.
Occupied(path) ==
    \/ IsPrefix(path, Clean(TargetDir))
    \/ \E p \in DOMAIN sources : IsStrictPrefix(p, path) \/ IsStrictPrefix(path, p)

WriteSource(path, source) ==
    /\ ~Occupied(path) /\ at \notin f.refused
    /\ sources' = Written(path, source)
    /\ counts' = [counts EXCEPT !.ok = @ + 1]
    /\ at' = at + 1
    /\ UNCHANGED stage

\* Mutant of WriteFails: the errors are not looked at.
WriteFailsUnchecked(path, source) ==
    /\ Occupied(path) \/ at \in f.refused
    /\ at' = at + 1
    /\ UNCHANGED <<stage, sources, counts>>

\* An error of os.MkdirAll or os.WriteFile ends Extract.  What was written of the
\* file before it failed stays.
WriteFails(path, source) ==
    /\ \/ Occupied(path) /\ UNCHANGED sources
       \/ at \in f.refused /\ UNCHANGED sources
       \/ /\ at \in f.refused /\ ~Occupied(path)
          /\ \E n \in 0..Len(source) : sources' = Written(path, SubSeq(source, 1, n))
    /\ stage' = "unwritten"
    /\ UNCHANGED <<at, counts>>

SkipDocument(outcome) ==
    /\ outcome \in {"obj", "none"}
    /\ counts' = IF outcome = "obj" THEN [counts EXCEPT !.obj = @ + 1] ELSE counts
    /\ at' = at + 1
    /\ UNCHANGED <<stage, sources>>

GiveUp(outcome) ==
    /\ outcome \in {"error", "panic"}
    /\ stage' = outcome
    /\ UNCHANGED <<at, sources, counts>>

\* One row of the Document table.
ExtractRow ==
    /\ stage = "rows" /\ at <= Len(f.docs)
    /\ \E result \in {Extraction(at)} :
          \/ SkipDocument(result.outcome)
          \/ GiveUp(result.outcome)
          \/ /\ result.outcome = "ok"
             /\ LET path == FullPath(RelPath(DocumentName(at).value))
                IN WriteSource(path, result.source) \/ WriteFails(path, result.source)
    /\ UNCHANGED <<vars, found, reader>>

Extracted ==
    /\ stage = "rows" /\ at > Len(f.docs)
    /\ stage' = "done"
    /\ UNCHANGED <<vars, found, reader, at, sources, counts>>

SourcesInit ==
    /\ Init
    /\ stage = "directory" /\ found = {} /\ reader = <<>>
    /\ at = 1
    /\ sources = <<>>
    /\ counts = [ok |-> 0, obj |-> 0]

SourcesNext == ReadDirectory \/ LayOut \/ StartExtract \/ ExtractRow \/ Extracted

SourcesSpec == SourcesInit /\ [][SourcesNext]_allVars

-----------------------------------------------------------------------------
(* Properties.                                                             *)

InObj(n) == f.skipObj /\ Obj \in Range(f.docs[n].segments)

\* The rows the writer made for a source of a document.
SourceRows(n) ==
    {i \in DOMAIN f.infos :
        f.infos[i].tag = DocumentTag /\ f.infos[i].row = n /\ f.infos[i].kind # "other"}

\* The source of a row, to the size that is recorded for it.
SourceOf(i) ==
    LET info == f.infos[i]
    IN IF info.size = 0 THEN info.content ELSE SubSeq(info.content, 1, info.size)

HasSource(n) == ~InObj(n) /\ SourceRows(n) # {}

\* Where the segments of a document lead from the target directory.
PathOf(n) == Clean(TargetDir \o f.docs[n].segments)

\* What is wrong with the source of a row.
Damaged(i) ==
    LET info == f.infos[i]
    IN info.kind = "lost" \/ info.fault # "none" \/ info.size > Len(info.content)

\* Two files of which one would have to be a directory.
Clash(p, q) == IsStrictPrefix(p, q) \/ IsStrictPrefix(q, p)

\* The n-th document cannot be written after some others.
Unwritable(n, others) ==
    \/ n \in f.refused
    \/ IsPrefix(PathOf(n), Clean(TargetDir))
    \/ \E m \in others : Clash(PathOf(m), PathOf(n))

\* At every moment the documents before the current one have their files: at the
\* path made of its segments, however the name was taken apart, each has the
\* source the writer attached to that document first, and the last of several
\* documents of one path keeps it.  The counts add up to them.
\* Extract gives up only on a file that is damaged: a stream is not there, the
\* tables do not fit, the heap was cut off or the source of the document at
\* hand is not what its blob says; and, just then, on a file that cannot be
\* written, of which some of the source may be left at its path, and nowhere else.
\* The process panics on a source of a negative size, and on nothing else.
SourcesAreTheWriters ==
    LET before == {n \in 1..(at - 1) : HasSource(n)}
        paths == {PathOf(n) : n \in before}
        atRow == Min(SourceRows(at))
    IN /\ paths \subseteq DOMAIN sources
       /\ \A p \in DOMAIN sources :
            \/ /\ p \in paths
               /\ \A n \in before :
                    PathOf(n) = p /\ (\A m \in before : m > n => PathOf(m) # p)
                      => sources[p] = SourceOf(Min(SourceRows(n)))
            \/ stage = "unwritten" /\ p = PathOf(at) /\ IsPrefix(sources[p], SourceOf(atRow))
       /\ counts = [ok |-> Cardinality(before), obj |-> Cardinality({n \in 1..(at - 1) : InObj(n)})]
       /\ stage = "error" =>
            \/ {"#~", "#-"} \cap StreamNames(f) = {} \/ ~({"#Blob", "#GUID"} \subseteq StreamNames(f))
            \/ err \/ f.heapCut > 0
            \/ at <= Len(f.docs) /\ HasSource(at) /\ Damaged(atRow)
       /\ \A n \in before : ~Unwritable(n, before)
       /\ stage = "unwritten" => HasSource(at) /\ Unwritable(at, before)
       /\ stage = "panic" => HasSource(at) /\ f.infos[atRow].size < 0
=============================================================================
