--------------------------- MODULE MCCodeCoverage ---------------------------
(* CodeCoverage with three requests, three pdb files and a history of two.   *)
EXTENDS CodeCoverage

CONSTANTS p, q, n

MCPdbs == {p, q, n}

\* p has two sources; Extract cannot decode the last row of q, and panics on n.
MCDocuments ==
    (p :> <<"source", "source">>) @@ (q :> <<"obj", "none", "corrupt">>) @@ (n :> <<"negative">>)

MCPdbLists == {<<>>, <<q, p>>, <<n>>}
=============================================================================
