----------------------------- MODULE LogStream -----------------------------
(***************************************************************************)
(* What the log broker promises the readers of /log, and nothing more: a   *)
(* lossy multicast.  Every reader gets a sequence of messages of its own;  *)
(* a message may be missing from it, but none is invented or repeated, the *)
(* messages of one producer keep their order, a reader takes them in the   *)
(* order in which they were accepted for it, and nothing is accepted for a *)
(* reader before it joined or after it left.                               *)
(***************************************************************************)
EXTENDS Integers, Sequences

CONSTANTS Readers,     \* the requests for /log
          Producers,   \* the goroutines that broadcast
          Numbers      \* the numbers a producer gives its messages

VARIABLES phase,       \* phase[r]: "out", then "in", then "left"
          accepted,    \* accepted[r]: what was accepted for r, in order
          taken        \* taken[r]: how many of those r has taken

vars == <<phase, accepted, taken>>

Init == /\ phase = [r \in Readers |-> "out"]
        /\ accepted = [r \in Readers |-> <<>>]
        /\ taken = [r \in Readers |-> 0]

Join(r) == /\ phase[r] = "out"
           /\ phase' = [phase EXCEPT ![r] = "in"]
           /\ UNCHANGED <<accepted, taken>>

\* Message n of producer p is accepted for r: it is later than every message
\* of p that r has been given.
Accept(r, p, n) ==
    /\ phase[r] = "in"
    /\ \A i \in 1..Len(accepted[r]) : accepted[r][i][1] = p => accepted[r][i][2] < n
    /\ accepted' = [accepted EXCEPT ![r] = Append(@, <<p, n>>)]
    /\ UNCHANGED <<phase, taken>>

Take(r) == /\ taken[r] < Len(accepted[r])
           /\ taken' = [taken EXCEPT ![r] = @ + 1]
           /\ UNCHANGED <<phase, accepted>>

Leave(r) == /\ phase[r] = "in"
            /\ phase' = [phase EXCEPT ![r] = "left"]
            /\ UNCHANGED <<accepted, taken>>

Next == \E r \in Readers :
            \/ Join(r)
            \/ \E p \in Producers, n \in Numbers : Accept(r, p, n)
            \/ Take(r)
            \/ Leave(r)

Spec == Init /\ [][Next]_vars
=============================================================================
