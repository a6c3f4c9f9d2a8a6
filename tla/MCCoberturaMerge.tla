------------------------- MODULE MCCoberturaMerge -------------------------
(* CoberturaMerge for TLC: documents of three classes in two packages.      *)
EXTENDS CoberturaMerge

L(n, h) == [number |-> n, hits |-> h]

MCPackages == {"app", "lib"}
MCAsyncMethods == {"Trigger"}
MCMethodNames == {"Run", "MoveNext", "Trigger"}
MCSegments == {"a", "b", "c", "p", "q", "src", "Flow.cs", "Part.cs", "Lost.cs"}

\* No line; a line not hit; a line hit; two lines; a line that is listed twice.
MCLines == { {}, {L(1, 0)}, {L(1, 1)}, {L(1, 0), L(2, 1)}, {L(1, 1), L(1, 2), L(2, 0)} }

\* A type in its file, its helper and its state machine, and a helper of the
\* same name in another file, which has no parent there.
MCNames == { <<<<"src", "Flow.cs">>, "self">>, <<<<"src", "Flow.cs">>, "helper">>,
             <<<<"src", "Flow.cs">>, "Trigger">>, <<<<"src", "Part.cs">>, "helper">> }

\* The code of a class is in one method, but for a type that has only fields.
MCClass(package, name, lines) ==
    [package |-> package, file |-> name[1], type |-> "Flow", part |-> name[2], lines |-> lines,
     methods |-> IF lines = {} THEN <<>>
                 ELSE <<[name |-> IF name[2] = "self" THEN "Run" ELSE "MoveNext",
                         lines |-> lines]>>]

MCMerged ==
    { [i \in 1..3 |-> MCClass(IF i <= m THEN "app" ELSE "lib", names[i], lines[i])] :
      m \in {1, 3}, names \in [1..3 -> MCNames], lines \in [1..3 -> MCLines] }

\* Files of one base name in several directories, one in no directory, no file.
MCFiles == { <<"a", "src", "Flow.cs">>, <<"b", "src", "Flow.cs">>, <<"c", "Flow.cs">>,
             <<"Flow.cs">>, <<"a", "src", "Part.cs">>, <<"a", "src", "Lost.cs">>, <<>> }
MCMoved ==
    { [i \in 1..3 |-> MCClass("app", <<files[i], part>>, {L(1, 1)})] :
      files \in [1..3 -> MCFiles], part \in {"self", "helper"} }

MCDocuments == MCMerged \cup MCMoved

MCCached == << <<"p", "a", "src", "Flow.cs">>, <<"p", "b", "src", "Flow.cs">>,
               <<"q", "b", "src", "Flow.cs">>, <<"q", "src", "Part.cs">> >>
MCLookups == { [present |-> {}, index |-> {}], [present |-> {}, index |-> 1..4],
               [present |-> {<<"b", "src", "Flow.cs">>}, index |-> {2, 3, 4}] }
=============================================================================
