-------------------------- MODULE MCTargetProcess --------------------------
(* TargetProcess for TLC.                                                   *)
EXTENDS TargetProcess

MCMaxLines == [stdout |-> 2, stderr |-> 1]
=============================================================================
