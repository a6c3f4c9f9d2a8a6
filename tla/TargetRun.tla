----------------------------- MODULE TargetRun -----------------------------
(***************************************************************************)
(* What the rest of the admin may rely on about one run of the target: the *)
(* program runs until it ends; the run is then entered in the history, and *)
(* only after that is its end reported on Done().  Each happens once, and  *)
(* the outcome that is recorded and reported is the one the program ended  *)
(* with.                                                                   *)
(***************************************************************************)
CONSTANTS Outcomes,    \* what cmd.Wait may return
          Pending      \* no outcome yet

VARIABLES outcome,     \* how the program ended
          recorded,    \* the outcome in the history
          reported     \* the outcome sent on Done()

vars == <<outcome, recorded, reported>>

Init == outcome = Pending /\ recorded = Pending /\ reported = Pending

End == /\ outcome = Pending
       /\ outcome' \in Outcomes
       /\ UNCHANGED <<recorded, reported>>

Record == /\ outcome # Pending /\ recorded = Pending
          /\ recorded' = outcome
          /\ UNCHANGED <<outcome, reported>>

Report == /\ recorded # Pending /\ reported = Pending
          /\ reported' = outcome
          /\ UNCHANGED <<outcome, recorded>>

Next == End \/ Record \/ Report

Spec == Init /\ [][Next]_vars /\ WF_vars(Record) /\ WF_vars(Report)
=============================================================================
