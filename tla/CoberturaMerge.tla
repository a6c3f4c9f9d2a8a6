--------------------------- MODULE CoberturaMerge ---------------------------
(***************************************************************************)
(* internal/debugadmin/cobertura_merge.go:                                 *)
(* mergeCompilerGeneratedClassesIntoParents rewrites the cobertura file of *)
(* a run: packages that match an exclusion are dropped, and the classes    *)
(* that the C# compiler generated are merged into the classes they come    *)
(* from.                                                                   *)
(*                                                                         *)
(* A class is named by the type it belongs to and its part: the type       *)
(* itself, a helper (lambda cache or closure), or the state machine of the *)
(* async method of that name.  The lines of a class or of a method are a   *)
(* set of entries, in which a number may occur more than once.  Classes    *)
(* are numbered in document order.  A path is the sequence of its segments, *)
(* whichever separator stands between them.                                *)
(***************************************************************************)
EXTENDS Integers, SequencesExt, FiniteSetsExt

CONSTANTS Packages,     \* the packages a document may have
          AsyncMethods, \* the names of async methods
          MethodNames,  \* the names of all methods
          Segments,     \* of which the paths are made
          MaxHits,      \* the greatest int
          Documents,    \* bound: the documents that are cleaned
          Cached,       \* the paths of all extracted sources, sorted
          Lookups       \* what a lookup finds, see LookupsAssumption

Parts == {"self", "helper"} \cup AsyncMethods
Line == [number : Int, hits : 0..MaxHits]
Method == [name : MethodNames, lines : SUBSET Line]

\* What dotnet-coverage writes: the methods of a class have lines of the class, and
\* every line of a state machine is in a method of it.
ClassOK(c) ==
    LET linesOf(j) == c.methods[j].lines
    IN /\ c.package \in Packages /\ c.part \in Parts /\ c.file \in Seq(Segments)
       /\ c.lines \in SUBSET Line /\ c.methods \in Seq(Method)
       /\ \A j \in 1..Len(c.methods) : linesOf(j) \subseteq c.lines
       /\ c.part \in AsyncMethods => c.lines = UNION {linesOf(j) : j \in 1..Len(c.methods)}

DocumentsAssumption ==
    /\ MaxHits \in Nat /\ AsyncMethods \subseteq MethodNames
    /\ \A d \in Documents : Len(d) \in Nat /\ \A i \in 1..Len(d) : ClassOK(d[i])

ASSUME DocumentsAssumption

\* The file names that are on the disk and the sources that are in the index; it
\* is empty without -coverage.source.from.pdb, or if there are no pdb files.
LookupsAssumption ==
    /\ Cached \in Seq(Seq(Segments) \ {<<>>})
    /\ \A l \in Lookups : l.index \subseteq DOMAIN Cached

ASSUME LookupsAssumption

VARIABLES
    input,       \* the document that was read
    excluded,    \* the packages that match -coverage.exclude
    pc,
    classes,     \* classes[i]: the i-th class, as it is now
    live,        \* the classes that are in the document
    mainClasses, \* the index: the class of each key (filename, name) that has one
    next,        \* the class the loop is at
    modified,    \* the classes that were merged into
    lookup       \* what the lookup of sources finds

vars == <<input, excluded, pc, classes, live, mainClasses, next, modified, lookup>>

-----------------------------------------------------------------------------
(* Lines.                                                                  *)

\* coberturaLinesToMap: the hits of each line, the greatest of its entries.
LinesToMap(lines) ==
    [n \in {l.number : l \in lines} |-> Max({l.hits : l \in {k \in lines : k.number = n}})]

\* coberturaMapToLines
MapToLines(m) == {[number |-> n, hits |-> m[n]] : n \in DOMAIN m}

\* m[n] as Go reads it: zero for a line that is not there.
HitsAt(m, n) == IF n \in DOMAIN m THEN m[n] ELSE 0

\* if h > merged[n] { merged[n] = h }, for every line n of g.
MergeLines(m, g) ==
    LET greater == {n \in DOMAIN g : g[n] > HitsAt(m, n)}
    IN [n \in DOMAIN m \cup greater |-> IF n \in greater THEN g[n] ELSE m[n]]

\* The line rate: how many of the lines have hits.
RateOf(lines) ==
    LET m == LinesToMap(lines)
    IN [covered |-> Cardinality({n \in DOMAIN m : m[n] > 0}), valid |-> Cardinality(DOMAIN m)]

-----------------------------------------------------------------------------
(* Classes.                                                                *)

\* parseGeneratedClassName: the class is the compiler's.
IsGenerated(c) == c.part # "self"

\* Mutant of Key: the parent is looked for in all files.
KeyByType(c) == c.type

\* The key of the class itself, and of the parent of a generated one.
Key(c) == <<c.file, c.type>>

\* mergeGeneratedClassLines
WithLines(parent, generated) ==
    [parent EXCEPT !.lines =
        MapToLines(MergeLines(LinesToMap(parent.lines), LinesToMap(generated.lines)))]

\* Mutant of WithMethod: the lines of the first method are taken for those of
\* the whole state machine, and the parent's methods are replaced.
WithOnlyMethod(parent, generated) ==
    IF generated.methods = <<>> THEN parent
    ELSE [parent EXCEPT !.methods = <<[name |-> generated.part,
                                       lines |-> generated.methods[1].lines]>>]

\* addMergedAsyncMethod: a method that has the lines of all the methods of the
\* state machine, unless none of them was hit.
WithMethod(parent, generated) ==
    LET all == UNION {generated.methods[j].lines : j \in 1..Len(generated.methods)}
        hit == {l \in MapToLines(LinesToMap(all)) : l.hits > 0}
    IN IF hit = {} THEN parent
       ELSE [parent EXCEPT !.methods = Append(@, [name |-> generated.part, lines |-> hit])]

Merge(parent, generated) ==
    IF generated.part \in AsyncMethods
    THEN WithMethod(WithLines(parent, generated), generated)
    ELSE WithLines(parent, generated)

\* recomputeClassLineRate
WithRate(c) == IF c.lines = {} THEN c ELSE [c EXCEPT !.rate = RateOf(c.lines)]

-----------------------------------------------------------------------------
Init ==
    /\ input \in Documents
    /\ excluded \in SUBSET Packages
    /\ pc = "exclude"
    /\ classes = [i \in 1..Len(input) |->
                     [file |-> input[i].file, type |-> input[i].type, part |-> input[i].part,
                      package |-> input[i].package, lines |-> input[i].lines,
                      methods |-> input[i].methods, rate |-> RateOf(input[i].lines)]]
    /\ live = 1..Len(input)
    /\ mainClasses = <<>>
    /\ next = 1
    /\ modified = {}
    /\ lookup \in Lookups

\* The packages whose name is excluded are dropped.
Exclude ==
    /\ pc = "exclude"
    /\ live' = {i \in live : classes[i].package \notin excluded}
    /\ pc' = "index"
    /\ UNCHANGED <<input, excluded, classes, mainClasses, next, modified, lookup>>

\* Mutant of Index: the index is made from the document as it was read.
IndexOfInput ==
    /\ pc = "index"
    /\ LET mains == {i \in DOMAIN classes : ~IsGenerated(classes[i])}
       IN mainClasses' = [k \in {Key(classes[i]) : i \in mains} |->
                             Max({i \in mains : Key(classes[i]) = k})]
    /\ pc' = "merge"
    /\ UNCHANGED <<input, excluded, classes, live, next, modified, lookup>>

\* The index of the classes that are not generated: the last one of a key.
Index ==
    /\ pc = "index"
    /\ LET mains == {i \in live : ~IsGenerated(classes[i])}
       IN mainClasses' = [k \in {Key(classes[i]) : i \in mains} |->
                             Max({i \in mains : Key(classes[i]) = k})]
    /\ pc' = "merge"
    /\ UNCHANGED <<input, excluded, classes, live, next, modified, lookup>>

\* The loop has a class to look at.
AtClass == pc = "merge" /\ next <= Len(input)

Advance == next' = next + 1 /\ UNCHANGED <<input, excluded, pc, mainClasses, lookup>>

\* A class of the source, a generated class whose parent is not there, or one
\* that was excluded and is no part of the loop.
KeepClass ==
    /\ AtClass
    /\ \/ next \notin live
       \/ ~IsGenerated(classes[next])
       \/ Key(classes[next]) \notin DOMAIN mainClasses
    /\ Advance
    /\ UNCHANGED <<classes, live, modified>>

\* A generated class goes into its parent and out of the document.
MergeClass ==
    /\ AtClass
    /\ next \in live /\ IsGenerated(classes[next])
    /\ Key(classes[next]) \in DOMAIN mainClasses
    /\ LET parent == mainClasses[Key(classes[next])]
       IN /\ classes' = [classes EXCEPT ![parent] = Merge(@, classes[next])]
          /\ modified' = modified \cup {parent}
    /\ live' = live \ {next}
    /\ Advance

\* Mutant of Recompute: the rates are left as they were.
RecomputeNothing ==
    /\ pc = "merge" /\ next > Len(input)
    /\ pc' = "sources"
    /\ UNCHANGED <<input, excluded, classes, live, mainClasses, next, modified, lookup>>

\* The line rates of the classes that were merged into.
Recompute ==
    /\ pc = "merge" /\ next > Len(input)
    /\ classes' = [i \in DOMAIN classes |->
                      IF i \in modified THEN WithRate(classes[i]) ELSE classes[i]]
    /\ pc' = "sources"
    /\ UNCHANGED <<input, excluded, live, mainClasses, next, modified, lookup>>

-----------------------------------------------------------------------------
(* Sources.                                                                *)

\* collectMissingFilenames
Missing == {classes[i].file : i \in live} \ (lookup.present \cup {<<>>})

\* index[baseNameAnySeparator(file)]
Candidates(file) == {k \in lookup.index : Last(Cached[k]) = Last(file)}

\* commonPathSuffixLen: how many segments agree from the right.
commonPathSuffixLen(a, b) ==
    Max({n \in 0..Min({Len(a), Len(b)}) :
            \A i \in 0..(n - 1) : a[Len(a) - i] = b[Len(b) - i]})

\* Mutant of pickBestFilenameMatch: the first candidate is as good as any.
pickFirstFilename(file) == Cached[Min(Candidates(file))]

\* The candidate with the most segments of the name; the least of several.
pickBestFilenameMatch(file) ==
    LET Common(k) == commonPathSuffixLen(file, Cached[k])
    IN Cached[Min({k \in Candidates(file) : \A o \in Candidates(file) : Common(o) <= Common(k)})]

\* fixMissingSourceFilenamesFromPDB; the document is written.
FixFilenames ==
    /\ pc = "sources"
    /\ classes' = [i \in DOMAIN classes |->
           LET file == classes[i].file
           IN IF i \in live /\ file \in Missing /\ Candidates(file) # {}
              THEN [classes[i] EXCEPT !.file = pickBestFilenameMatch(file)]
              ELSE classes[i]]
    /\ pc' = "done"
    /\ UNCHANGED <<input, excluded, live, mainClasses, next, modified, lookup>>

Next == Exclude \/ Index \/ KeepClass \/ MergeClass \/ Recompute \/ FixFilenames

Spec == Init /\ [][Next]_vars

-----------------------------------------------------------------------------
(* Properties.                                                             *)

\* The hits of each line of file f in the classes I of the document c; the file
\* is the one that was read, whatever its name is now.
FileHits(c, I, f) == LinesToMap(UNION {c[i].lines : i \in {j \in I : input[j].file = f}})

Files == {input[i].file : i \in 1..Len(input)}
Kept == {i \in 1..Len(input) : input[i].package \notin excluded}

\* Every line of a source file that was hit shows the hits it had, the most in
\* any class of a package that is kept, and none shows hits from elsewhere,
\* whichever classes were merged, in one order or another, into which parent.
CoverageKept ==
    pc # "exclude" =>
        \A f \in Files :
            LET was == FileHits(input, Kept, f)
                now == FileHits(classes, live, f)
            IN \A n \in DOMAIN was \cup DOMAIN now : HitsAt(now, n) = HitsAt(was, n)

\* The report gets no generated class next to its parent, the pair that made
\* reportgenerator write one file twice; all other classes are still there.
NoGeneratedNextToParent ==
    pc = "done" =>
        \A i \in Kept :
            i \notin live <=> /\ input[i].part # "self"
                              /\ \E j \in Kept : /\ input[j].part = "self"
                                                /\ input[j].type = input[i].type
                                                /\ input[j].file = input[i].file

\* What a class says of itself agrees.  An async method that ran is listed by its
\* parent class, with all of its lines that were hit, and each of those is also a
\* line of the class with at least those hits; the methods the parent had are
\* still there.  The rate of every class that is written is that of its lines.
ClassesAgree ==
    /\ \A i \in Kept : pc = "done" /\ i \notin live /\ input[i].part \in AsyncMethods =>
           LET ran == {l \in MapToLines(FileHits(input, {i}, input[i].file)) : l.hits > 0}
           IN ran # {} =>
                LET methods == classes[mainClasses[Key(input[i])]].methods
                IN \E j \in 1..Len(methods) :
                       methods[j].name = input[i].part /\ methods[j].lines = ran
    /\ \A i \in live : \A j \in 1..Len(classes[i].methods) :
           \A l \in classes[i].methods[j].lines :
               HitsAt(LinesToMap(classes[i].lines), l.number) >= l.hits
    /\ \A i \in live : \A j \in 1..Len(input[i].methods) :
           classes[i].methods[j] = input[i].methods[j]
    /\ pc = "done" => \A i \in live : classes[i].rate = RateOf(classes[i].lines)

\* The last n segments of a path, and whether two paths agree on them.
End(path, n) == SubSeq(path, Len(path) - n + 1, Len(path))
AgreesOn(path, file, n) == Len(path) >= n /\ End(path, n) = End(file, n)

\* The sources in the index that have the base name of the file.
Fits(file) == {Cached[k] : k \in {o \in lookup.index : AgreesOn(Cached[o], file, 1)}}

\* A class whose file is on this machine keeps its file name, and so does one
\* whose file no pdb has.  Every other gets a source that was extracted, of the
\* same base name, and no source in the index agrees with the name on a longer
\* tail of the path; all the classes of one file get the same one, so that the
\* report does not tear the file apart.
MissingSourcesAreFound ==
    pc = "done" => \A i \in live :
        LET file == input[i].file
            now == classes[i].file
        IN IF file = <<>> \/ file \in lookup.present \/ Fits(file) = {}
           THEN now = file
           ELSE /\ now \in Fits(file)
                /\ \A path \in Fits(file) : \A n \in 1..Len(file) :
                       AgreesOn(path, file, n) => AgreesOn(now, file, n)
                /\ \A j \in live : input[j].file = file => classes[j].file = now

\* The comment of mergeGeneratedClassLines: the lines of the generated class
\* are merged into those of the parent.  A line that could be covered and was
\* not is still reported, as not covered.
UncoveredKept ==
    pc # "exclude" =>
        \A f \in Files :
            DOMAIN FileHits(input, Kept, f) \subseteq DOMAIN FileHits(classes, live, f)

=============================================================================
