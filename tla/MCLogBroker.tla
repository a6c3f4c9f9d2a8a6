---------------------------- MODULE MCLogBroker ----------------------------
(* LogBroker for TLC.                                                       *)
EXTENDS LogBroker

CONSTANTS p1, p2

\* p1 broadcasts twice, p2 once.
MCMaxMsgs == [p \in Producers |-> IF p = p1 THEN 2 ELSE 1]
=============================================================================
