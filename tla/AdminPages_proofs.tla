------------------------- MODULE AdminPages_proofs -------------------------
(***************************************************************************)
(* For every capacity of the channel and of the pipe and every amount of   *)
(* output: what collectStackOutput returns to the page of the stacks is    *)
(* what netcoredbg wrote, netcoredbg is not left behind, and the page      *)
(* shows every line in its place.  For every table of processes and        *)
(* whatever becomes of them: the target is a descendant of the wrapper and *)
(* the list is of the processes.                                           *)
(***************************************************************************)
EXTENDS AdminPages, FiniteSetTheorems, SequenceTheorems, TLAPS

Places == {"start", "startup", "command", "close", "drain", "wait", "stderr",
           "giveUp", "giveUpStderr", "returned"}
Errors == {"none", "start", "run", "nil", "canceled", "expired"}

CollectorType ==
    /\ pc \in Places
    /\ startup \in Seq(Nat) /\ all \in Seq(Nat)
    /\ runErr \in BOOLEAN /\ closed \in BOOLEAN
    /\ result \in [startup : Seq(Nat), stack : Seq(Nat), err : Errors]
    /\ ctx \in {"live", "canceled", "expired"}
    /\ reader \in {"none", "read", "send", "ended"}
    /\ chunk \in Seq(Nat) /\ stdoutCh \in Seq(Seq(Nat)) /\ pipe \in Seq(Nat)
    /\ stdoutErr \in {"none", "nil", "closed", "canceled", "expired"}
    /\ debugger \in {"none", "running", "killed", "ok", "failed"}
    /\ written \in Nat /\ asked \in Nat

\* s is the pieces after the n-th up to the m-th.
Spans(s, n, m) == m = n + Len(s) /\ \A i \in 1..Len(s) : s[i] = n + i

\* So are the chunks of ch together; at[k] of the pieces are before the k-th.
Linked(ch, n, m) ==
    \E at \in [Nat -> Nat] :
        /\ at[1] = n /\ at[Len(ch) + 1] = m
        /\ \A k \in 1..Len(ch) : at[k] <= m /\ Spans(ch[k], at[k], at[k + 1])

\* Where the pieces are: with the collector, in stdoutCh, with the reader and in
\* the pipe, one after the other.
PiecesInv ==
    \E taken, sent \in Nat :
        /\ Spans(all, 0, taken) /\ Linked(stdoutCh, taken, sent)
        /\ taken <= sent /\ sent <= written /\ written <= MaxPieces
        /\ reader # "ended" => \E read \in Nat : Spans(chunk, sent, read) /\ Spans(pipe, read, written)
        /\ stdoutErr = "nil" => sent = written

\* How readPipeChunks ended.
ReaderInv ==
    /\ reader # "send" => chunk = <<>>
    /\ reader = "ended" <=> stdoutErr # "none"
    /\ stdoutErr \in {"canceled", "expired"} => ctx = stdoutErr
    /\ stdoutErr = "nil" => Ended

\* What holds at each place of collectStackOutput.
CollectorInv ==
    /\ pc = "start" => debugger = "none" /\ reader = "none"
    /\ pc \notin {"start", "returned"} => debugger # "none"
    /\ pc \in {"start", "startup"} => startup = all /\ asked = MaxPieces
    /\ pc \in {"giveUp", "giveUpStderr"} => ctxDone
    /\ pc \in {"wait", "stderr"} => stdoutCh = <<>> /\ reader = "ended"
    /\ closed => Ended
    /\ pc \in {"giveUpStderr", "stderr"} => closed
    /\ pc = "returned" => debugger = "none" \/ closed
    /\ pc = "stderr" /\ stdoutErr \in {"expired", "closed"} => runErr

\* The banner and the stacks are parts of the output, one after the other.
ResultInv ==
    /\ \E banner \in Nat : /\ Spans(startup, 0, banner) /\ banner <= Len(all) /\ banner <= asked
    /\ \E first, last \in Nat : /\ Spans(result.startup, 0, first) /\ Spans(result.stack, first, last)
                                /\ result.err = "nil" /\ ctx # "canceled" => Ended /\ last = written
    /\ pc # "returned" => result.err = "none"

IInv == CollectorType /\ PiecesInv /\ ReaderInv /\ CollectorInv /\ ResultInv
-----------------------------------------------------------------------------
(* Proofs: sequences of pieces.                                            *)

\* There is none.
LEMMA SpansNone == ASSUME NEW n \in Nat PROVE Spans(<<>>, n, n) /\ Linked(<<>>, n, n)
<1>1. Spans(<<>>, n, n)
  BY DEF Spans
<1> DEFINE at == [k \in Nat |-> n]
<1>2. at \in [Nat -> Nat] /\ at[1] = n /\ Len(<<>>) = 0
  OBVIOUS
<1> HIDE DEF at
<1> QED
  BY <1>1, <1>2 DEF Linked

\* A sequence that spans nothing is empty and the other way round.
LEMMA SpansNothing ==
    ASSUME NEW s \in Seq(Nat), NEW n \in Nat, NEW m \in Nat, Spans(s, n, m)
    PROVE  n <= m /\ (n = m <=> s = <<>>)
<1>1. PICK a \in Nat : a = Len(s)
  OBVIOUS
<1>2. m = n + a
  BY <1>1 DEF Spans
<1>3. a = 0 <=> s = <<>>
  BY <1>1
<1> QED
  BY <1>2, <1>3

\* One sequence after the other.
LEMMA SpansOn ==
    ASSUME NEW s \in Seq(Nat), NEW t \in Seq(Nat), NEW n \in Nat, NEW m \in Nat, NEW e \in Nat,
           Spans(s, n, m), Spans(t, m, e)
    PROVE  s \o t \in Seq(Nat) /\ Spans(s \o t, n, e)
<1>1. PICK a \in Nat, b \in Nat : a = Len(s) /\ b = Len(t)
  OBVIOUS
<1>2. /\ s \o t \in Seq(Nat) /\ Len(s \o t) = a + b
      /\ \A i \in 1..(a + b) : (s \o t)[i] = IF i <= a THEN s[i] ELSE t[i - a]
  BY <1>1
<1>3. /\ m = n + a /\ e = m + b
      /\ \A i \in 1..a : s[i] = n + i
      /\ \A i \in 1..b : t[i] = m + i
  BY <1>1 DEF Spans
<1>4. ASSUME NEW i \in 1..(a + b) PROVE (s \o t)[i] = n + i
  <2>1. CASE i <= a
    BY <1>2, <1>3, <2>1
  <2>2. CASE i > a
    <3>1. i - a \in 1..b /\ t[i - a] = m + (i - a)
      BY <1>3, <2>2
    <3> QED
      BY <1>2, <1>3, <2>2, <3>1
  <2>3. i <= a \/ i > a
    OBVIOUS
  <2> QED
    BY <2>1, <2>2, <2>3
<1>5. e = n + (a + b)
  BY <1>3
<1> QED
  BY <1>2, <1>4, <1>5 DEF Spans

\* One more piece.
LEMMA SpansOneMore ==
    ASSUME NEW s \in Seq(Nat), NEW n \in Nat, NEW m \in Nat, Spans(s, n, m)
    PROVE  Append(s, m + 1) \in Seq(Nat) /\ Spans(Append(s, m + 1), n, m + 1)
<1>1. PICK a \in Nat : a = Len(s)
  OBVIOUS
<1>2. /\ Append(s, m + 1) \in Seq(Nat) /\ Len(Append(s, m + 1)) = a + 1
      /\ \A i \in 1..(a + 1) : Append(s, m + 1)[i] = IF i = a + 1 THEN m + 1 ELSE s[i]
  BY <1>1
<1>3. m = n + a /\ \A i \in 1..a : s[i] = n + i
  BY <1>1 DEF Spans
<1>4. \A i \in 1..(a + 1) : Append(s, m + 1)[i] = n + i
  BY <1>2, <1>3
<1> QED
  BY <1>2, <1>3, <1>4 DEF Spans

\* The parts of a sequence.
LEMMA SpansWithin ==
    ASSUME NEW s \in Seq(Nat), NEW n \in Nat, NEW m \in Nat, Spans(s, n, m), NEW e \in 0..Len(s)
    PROVE  /\ SubSeq(s, 1, e) \in Seq(Nat) /\ Spans(SubSeq(s, 1, e), n, n + e)
           /\ SubSeq(s, e + 1, Len(s)) \in Seq(Nat) /\ Spans(SubSeq(s, e + 1, Len(s)), n + e, m)
<1>1. PICK a \in Nat : a = Len(s)
  OBVIOUS
<1>2. /\ SubSeq(s, 1, e) \in Seq(Nat) /\ Len(SubSeq(s, 1, e)) = e
      /\ \A i \in 1..e : SubSeq(s, 1, e)[i] = s[i] /\ i \in 1..a
  BY <1>1
<1>3. /\ SubSeq(s, e + 1, a) \in Seq(Nat) /\ Len(SubSeq(s, e + 1, a)) = a - e
      /\ \A i \in 1..(a - e) : SubSeq(s, e + 1, a)[i] = s[e + i] /\ e + i \in 1..a
  BY <1>1
<1>4. m = n + a /\ \A i \in 1..a : s[i] = n + i
  BY <1>1 DEF Spans
<1>5. Spans(SubSeq(s, 1, e), n, n + e)
  BY <1>2, <1>4 DEF Spans
<1>6. Spans(SubSeq(s, e + 1, a), n + e, m)
  <2>1. \A i \in 1..(a - e) : s[e + i] = (n + e) + i
    BY <1>3, <1>4
  <2>2. m = (n + e) + (a - e)
    BY <1>1, <1>4
  <2> QED
    BY <1>3, <2>1, <2>2 DEF Spans
<1> QED
  BY <1>1, <1>2, <1>3, <1>5, <1>6

\* One more chunk in the channel.
LEMMA LinkedOneMore ==
    ASSUME NEW ch \in Seq(Seq(Nat)), NEW c \in Seq(Nat),
           NEW n \in Nat, NEW m \in Nat, NEW e \in Nat, Linked(ch, n, m), Spans(c, m, e)
    PROVE  Append(ch, c) \in Seq(Seq(Nat)) /\ Linked(Append(ch, c), n, e)
<1>1. PICK l \in Nat : l = Len(ch)
  OBVIOUS
<1>2. PICK at \in [Nat -> Nat] :
          /\ at[1] = n /\ at[l + 1] = m
          /\ \A k \in 1..l : at[k] <= m /\ Spans(ch[k], at[k], at[k + 1])
  BY <1>1 DEF Linked
<1>3. /\ Append(ch, c) \in Seq(Seq(Nat)) /\ Len(Append(ch, c)) = l + 1
      /\ \A k \in 1..l : Append(ch, c)[k] = ch[k]
      /\ Append(ch, c)[l + 1] = c
  BY <1>1
<1> DEFINE new == [k \in Nat |-> IF k = l + 2 THEN e ELSE at[k]]
<1>4. new \in [Nat -> Nat] /\ new[l + 2] = e /\ \A k \in 1..(l + 1) : new[k] = at[k]
  <2>1. \A k \in 1..(l + 1) : k \in Nat /\ k # l + 2
    OBVIOUS
  <2>2. l + 2 \in Nat
    OBVIOUS
  <2>3. new \in [Nat -> Nat]
    OBVIOUS
  <2> QED
    BY <2>1, <2>2, <2>3
<1> HIDE DEF new
<1>5. m <= e
  BY SpansNothing
<1>6. ASSUME NEW k \in 1..(l + 1)
      PROVE  new[k] <= e /\ Spans(Append(ch, c)[k], new[k], new[k + 1])
  <2>1. CASE k \in 1..l
    <3>0. k \in 1..(l + 1) /\ k + 1 \in 1..(l + 1) /\ k \in Nat
      BY <2>1
    <3>1. new[k] = at[k] /\ new[k + 1] = at[k + 1] /\ at[k] \in Nat
      BY <1>4, <3>0
    <3>2. at[k] <= m /\ Spans(ch[k], at[k], at[k + 1])
      BY <1>2, <2>1
    <3>3. at[k] <= e
      BY <1>5, <3>1, <3>2, SMTT(30)
    <3> QED
      BY <1>3, <2>1, <3>1, <3>2, <3>3
  <2>2. CASE k = l + 1
    <3>1. new[k] = m /\ new[k + 1] = e
      BY <1>2, <1>4, <2>2
    <3> QED
      BY <1>3, <1>5, <2>2, <3>1
  <2>3. k \in 1..l \/ k = l + 1
    OBVIOUS
  <2> QED
    BY <2>1, <2>2, <2>3
<1>7. new[1] = n /\ new[(l + 1) + 1] = e
  BY <1>2, <1>4
<1> QED
  BY <1>3, <1>4, <1>6, <1>7 DEF Linked

\* One chunk less.
LEMMA LinkedOneLess ==
    ASSUME NEW ch \in Seq(Seq(Nat)), ch # <<>>, NEW n \in Nat, NEW m \in Nat, Linked(ch, n, m)
    PROVE  /\ Head(ch) \in Seq(Nat) /\ Tail(ch) \in Seq(Seq(Nat))
           /\ \E e \in Nat : e <= m /\ Spans(Head(ch), n, e) /\ Linked(Tail(ch), e, m)
<1>1. PICK l \in Nat : Len(ch) = l + 1
  <2>1. PICK a \in Nat : a = Len(ch)
    OBVIOUS
  <2>2. a # 0
    BY <2>1
  <2>3. a - 1 \in Nat /\ a = (a - 1) + 1
    BY <2>2
  <2> QED
    BY <2>1, <2>3
<1>2. PICK at \in [Nat -> Nat] :
          /\ at[1] = n /\ at[(l + 1) + 1] = m
          /\ \A k \in 1..(l + 1) : at[k] <= m /\ Spans(ch[k], at[k], at[k + 1])
  BY <1>1 DEF Linked
<1>3. /\ Head(ch) \in Seq(Nat) /\ Head(ch) = ch[1]
      /\ Tail(ch) \in Seq(Seq(Nat)) /\ Len(Tail(ch)) = l
      /\ \A k \in 1..l : Tail(ch)[k] = ch[k + 1]
  BY <1>1
<1> DEFINE new == [k \in Nat |-> at[k + 1]]
<1>4. new \in [Nat -> Nat] /\ \A k \in Nat : new[k] = at[k + 1]
  <2>1. \A k \in Nat : at[k + 1] \in Nat
    <3>1. \A k \in Nat : k + 1 \in Nat
      OBVIOUS
    <3> QED
      BY <3>1
  <2> QED
    BY <2>1
<1> HIDE DEF new
<1>5. PICK e \in Nat : e = at[2]
  OBVIOUS
<1>6. Spans(Head(ch), n, e)
  <2>1. 1 \in 1..(l + 1) /\ 1 + 1 = 2
    OBVIOUS
  <2> QED
    BY <1>2, <1>3, <1>5, <2>1
<1>7. e <= m
  <2>1. CASE l = 0
    BY <1>2, <1>5, <2>1
  <2>2. CASE l # 0
    <3>1. 2 \in 1..(l + 1)
      BY <2>2
    <3> QED
      BY <1>2, <1>5, <3>1
  <2> QED
    BY <2>1, <2>2
<1>8. ASSUME NEW k \in 1..l
      PROVE  new[k] <= m /\ Spans(Tail(ch)[k], new[k], new[k + 1])
  <2>1. k + 1 \in 1..(l + 1) /\ k \in Nat /\ k + 1 \in Nat
    OBVIOUS
  <2>2. new[k] = at[k + 1] /\ new[k + 1] = at[(k + 1) + 1]
    BY <1>4, <2>1
  <2> QED
    BY <1>2, <1>3, <2>1, <2>2
<1>9. new[1] = e /\ new[l + 1] = m
  BY <1>2, <1>4, <1>5
<1> QED
  BY <1>3, <1>4, <1>6, <1>7, <1>8, <1>9 DEF Linked

-----------------------------------------------------------------------------
(* Proofs: the way of a piece.                                             *)

\* What the collector has is no more than was written.
LEMMA CollectedWithin ==
    ASSUME CollectorType, PiecesInv
    PROVE  /\ Spans(all, 0, Len(all)) /\ Len(all) \in Nat
           /\ Len(all) <= written /\ written <= MaxPieces
<1>1. PICK taken \in Nat, sent \in Nat :
          Spans(all, 0, taken) /\ taken <= sent /\ sent <= written /\ written <= MaxPieces
  BY DEF PiecesInv
<1>2. Len(all) = taken
  BY <1>1 DEF Spans, CollectorType
<1> QED
  BY <1>1, <1>2, BoundsAssumption DEF CollectorType

\* The same after a step.
LEMMA CollectedWithinNext ==
    ASSUME CollectorType', PiecesInv'
    PROVE  /\ Spans(all', 0, Len(all')) /\ Len(all') \in Nat
           /\ Len(all') <= written' /\ written' <= MaxPieces
<1>1. PICK taken \in Nat, sent \in Nat :
          Spans(all', 0, taken) /\ taken <= sent /\ sent <= written' /\ written' <= MaxPieces
  BY DEF PiecesInv
<1>2. Len(all') = taken
  BY <1>1 DEF Spans, CollectorType
<1> QED
  BY <1>1, <1>2, BoundsAssumption DEF CollectorType

\* The pieces stay where they are.
LEMMA PiecesKept ==
    ASSUME PiecesInv, UNCHANGED <<all, stdoutCh, chunk, pipe, written>>,
           reader' # "ended" => reader # "ended", stdoutErr' = "nil" => stdoutErr = "nil"
    PROVE  PiecesInv'
BY DEF PiecesInv

\* Written by netcoredbg.
LEMMA PieceWritten ==
    CollectorType /\ PiecesInv /\ ReaderInv /\ DebuggerWrites => PiecesInv' /\ pipe' \in Seq(Nat)
<1> SUFFICES ASSUME CollectorType, PiecesInv, ReaderInv, DebuggerWrites
             PROVE  PiecesInv' /\ pipe' \in Seq(Nat)
  OBVIOUS
<1> USE DEF DebuggerWrites, unchangedByEnvironment, readerVars
<1>1. PICK taken \in Nat, sent \in Nat :
          /\ Spans(all, 0, taken) /\ Linked(stdoutCh, taken, sent)
          /\ taken <= sent /\ sent <= written
          /\ reader # "ended" => \E read \in Nat : Spans(chunk, sent, read) /\ Spans(pipe, read, written)
  BY DEF PiecesInv
<1>2. stdoutErr # "nil"
  BY DEF ReaderInv, Ended
<1>3. written' \in Nat /\ sent <= written' /\ written' <= MaxPieces
  BY <1>1, BoundsAssumption DEF CollectorType
<1>4. reader # "ended" => \E read \in Nat : Spans(chunk, sent, read) /\ Spans(pipe', read, written')
  <2> SUFFICES ASSUME NEW read \in Nat, Spans(chunk, sent, read), Spans(pipe, read, written)
               PROVE  Spans(pipe', read, written')
    BY <1>1
  <2> QED
    BY SpansOneMore DEF CollectorType
<1>5. pipe' \in Seq(Nat)
  BY DEF CollectorType
<1> QED
  BY <1>1, <1>2, <1>3, <1>4, <1>5 DEF PiecesInv

\* Read by readPipeChunks.
LEMMA PiecesRead ==
    CollectorType /\ PiecesInv /\ ReaderInv /\ ReadChunk
        => PiecesInv' /\ chunk' \in Seq(Nat) /\ pipe' \in Seq(Nat)
<1> SUFFICES ASSUME CollectorType, PiecesInv, ReaderInv, ReadChunk
             PROVE  PiecesInv' /\ chunk' \in Seq(Nat) /\ pipe' \in Seq(Nat)
  OBVIOUS
<1> USE DEF ReadChunk, unchangedByReader, collectorVars
<1>1. PICK taken \in Nat, sent \in Nat :
          /\ Spans(all, 0, taken) /\ Linked(stdoutCh, taken, sent)
          /\ taken <= sent /\ sent <= written /\ written <= MaxPieces
          /\ \E read \in Nat : Spans(chunk, sent, read) /\ Spans(pipe, read, written)
  BY DEF PiecesInv
<1>2. PICK n \in 1..Len(pipe) : chunk' = SubSeq(pipe, 1, n) /\ pipe' = SubSeq(pipe, n + 1, Len(pipe))
  OBVIOUS
<1>3. n \in 0..Len(pipe) /\ sent + n \in Nat
  BY <1>2
<1>4. Spans(pipe, sent, written)
  <2>1. PICK read \in Nat : Spans(chunk, sent, read) /\ Spans(pipe, read, written)
    BY <1>1
  <2>2. chunk = <<>> /\ chunk \in Seq(Nat)
    BY DEF ReaderInv, CollectorType
  <2>3. read = sent
    BY <2>1, <2>2, SpansNothing
  <2> QED
    BY <2>1, <2>3
<1>5. /\ chunk' \in Seq(Nat) /\ Spans(chunk', sent, sent + n)
      /\ pipe' \in Seq(Nat) /\ Spans(pipe', sent + n, written)
  BY <1>2, <1>3, <1>4, SpansWithin DEF CollectorType
<1>6. UNCHANGED <<all, stdoutCh, written, stdoutErr>> /\ stdoutErr # "nil"
  BY DEF ReaderInv
<1> QED
  BY <1>1, <1>3, <1>5, <1>6 DEF PiecesInv

\* Sent to the collector.
LEMMA PiecesSent ==
    CollectorType /\ PiecesInv /\ ReaderInv /\ SendChunk
        => PiecesInv' /\ stdoutCh' \in Seq(Seq(Nat))
<1> SUFFICES ASSUME CollectorType, PiecesInv, ReaderInv, SendChunk
             PROVE  PiecesInv' /\ stdoutCh' \in Seq(Seq(Nat))
  OBVIOUS
<1> USE DEF SendChunk, unchangedByReader, collectorVars, debuggerVars
<1>1. PICK taken \in Nat, sent \in Nat, read \in Nat :
          /\ Spans(all, 0, taken) /\ Linked(stdoutCh, taken, sent)
          /\ taken <= sent /\ written <= MaxPieces
          /\ Spans(chunk, sent, read) /\ Spans(pipe, read, written)
  BY DEF PiecesInv
<1>2. stdoutCh' \in Seq(Seq(Nat)) /\ Linked(stdoutCh', taken, read)
  BY <1>1, LinkedOneMore DEF CollectorType
<1>3. sent <= read /\ read <= written
  BY <1>1, SpansNothing DEF CollectorType
<1>4. taken <= read
  BY <1>1, <1>3
<1>5. Spans(chunk', read, read)
  BY SpansNone
<1>6. UNCHANGED <<all, pipe, written, stdoutErr>> /\ stdoutErr # "nil"
  BY DEF ReaderInv
<1> QED
  BY <1>1, <1>2, <1>3, <1>4, <1>5, <1>6 DEF PiecesInv

\* Taken by the collector.
LEMMA PiecesTaken ==
    ASSUME CollectorType, PiecesInv, stdoutCh # <<>>,
           all' = all \o Head(stdoutCh), stdoutCh' = Tail(stdoutCh),
           UNCHANGED <<reader, chunk, stdoutErr, pipe, written>>
    PROVE  PiecesInv' /\ stdoutCh' \in Seq(Seq(Nat)) /\ all' \in Seq(Nat) /\ Len(all) <= Len(all')
<1>1. PICK taken \in Nat, sent \in Nat :
          /\ Spans(all, 0, taken) /\ Linked(stdoutCh, taken, sent)
          /\ taken <= sent /\ sent <= written /\ written <= MaxPieces
          /\ reader # "ended" => \E read \in Nat : Spans(chunk, sent, read) /\ Spans(pipe, read, written)
          /\ stdoutErr = "nil" => sent = written
  BY DEF PiecesInv
<1>2. PICK e \in Nat : e <= sent /\ Spans(Head(stdoutCh), taken, e) /\ Linked(stdoutCh', e, sent)
  BY <1>1, LinkedOneLess DEF CollectorType
<1>3. Head(stdoutCh) \in Seq(Nat) /\ stdoutCh' \in Seq(Seq(Nat))
  BY <1>1, LinkedOneLess DEF CollectorType
<1>4. all' \in Seq(Nat) /\ Spans(all', 0, e)
  BY <1>1, <1>2, <1>3, SpansOn DEF CollectorType
<1>5. Len(all) <= Len(all')
  <2>1. taken <= e
    BY <1>2, <1>3, SpansNothing
  <2>2. Len(all) = taken /\ Len(all') = e
    BY <1>1, <1>4 DEF Spans, CollectorType
  <2> QED
    BY <2>1, <2>2
<1>6. PiecesInv'
  BY <1>1, <1>2, <1>4 DEF PiecesInv
<1> QED
  BY <1>3, <1>4, <1>5, <1>6

\* The reader ends: with the output, or without what it has not sent.
LEMMA PiecesEnd ==
    CollectorType /\ PiecesInv /\ ReaderInv /\ (ReadEnd \/ SendDone) => PiecesInv'
<1> SUFFICES ASSUME CollectorType, PiecesInv, ReaderInv, ReadEnd \/ SendDone PROVE PiecesInv'
  OBVIOUS
<1>1. PICK taken \in Nat, sent \in Nat :
          /\ Spans(all, 0, taken) /\ Linked(stdoutCh, taken, sent)
          /\ taken <= sent /\ sent <= written /\ written <= MaxPieces
          /\ reader # "ended" => \E read \in Nat : Spans(chunk, sent, read) /\ Spans(pipe, read, written)
  BY DEF PiecesInv
<1>2. UNCHANGED <<all, stdoutCh, pipe, written>> /\ reader' = "ended"
  BY DEF ReadEnd, SendDone, unchangedByReader, collectorVars, debuggerVars
<1>3. stdoutErr' = "nil" => sent = written
  <2> SUFFICES ASSUME stdoutErr' = "nil" PROVE sent = written
    OBVIOUS
  <2>1. reader = "read" /\ pipe = <<>> /\ chunk = <<>>
    BY DEF ReadEnd, SendDone, ReaderInv, ctxDone, CollectorType
  <2>2. PICK read \in Nat : Spans(chunk, sent, read) /\ Spans(pipe, read, written)
    BY <1>1, <2>1
  <2> QED
    BY <2>1, <2>2, SpansNothing DEF CollectorType
<1> QED
  BY <1>1, <1>2, <1>3 DEF PiecesInv

-----------------------------------------------------------------------------
(* Proofs: the steps.                                                      *)

\* The initial states satisfy the invariant.
LEMMA InitIInv == Init => IInv
<1> SUFFICES ASSUME Init PROVE IInv
  OBVIOUS
<1> USE BoundsAssumption DEF Init, NoResult
<1>0. MaxPieces \in Nat /\ MaxPieces > 0 /\ <<>> \in Seq(Nat) /\ <<>> \in Seq(Seq(Nat))
  OBVIOUS
<1>1. CollectorType
  <2>1. result \in [startup : Seq(Nat), stack : Seq(Nat), err : Errors]
    BY DEF Errors
  <2>2. asked \in Nat /\ written \in Nat
    BY <1>0
  <2> QED
    BY <1>0, <2>1, <2>2 DEF CollectorType, Places
<1>2. PiecesInv
  BY <1>0, SpansNone DEF PiecesInv
<1>3. ReaderInv /\ CollectorInv
  BY DEF ReaderInv, CollectorInv, Ended, ctxDone
<1>4. ResultInv
  <2>1. Spans(startup, 0, 0) /\ Spans(result.startup, 0, 0) /\ Spans(result.stack, 0, 0)
    BY SpansNone
  <2>2. 0 <= Len(all) /\ 0 <= asked
    BY <1>0
  <2> QED
    BY <2>1, <2>2 DEF ResultInv
<1> QED
  BY <1>1, <1>2, <1>3, <1>4 DEF IInv

\* The banner and the result are not touched.
LEMMA ResultKept ==
    ASSUME ResultInv, UNCHANGED <<startup, result>>,
           \A b \in Nat : b <= Len(all) /\ b <= asked => b <= Len(all') /\ b <= asked',
           pc' # "returned" => pc # "returned",
           Ended => Ended' /\ written' = written,
           ctx = "canceled" => ctx' = "canceled"
    PROVE  ResultInv'
<1>1. PICK banner \in Nat : Spans(startup, 0, banner) /\ banner <= Len(all) /\ banner <= asked
  BY DEF ResultInv
<1>2. PICK first \in Nat, last \in Nat :
          /\ Spans(result.startup, 0, first) /\ Spans(result.stack, first, last)
          /\ result.err = "nil" /\ ctx # "canceled" => Ended /\ last = written
  BY DEF ResultInv
<1>3. banner <= Len(all') /\ banner <= asked'
  BY <1>1
<1>4. result.err = "nil" /\ ctx' # "canceled" => Ended' /\ last = written'
  BY <1>2
<1> QED
  BY <1>1, <1>2, <1>3, <1>4 DEF ResultInv

\* What collectStackOutput does keeps the invariant.
LEMMA CollectorIInv == IInv /\ CollectStackOutput => IInv'
<1> SUFFICES ASSUME IInv, CollectStackOutput PROVE IInv'
  OBVIOUS
<1> USE DEF IInv, readerVars, debuggerVars, collectorVars
<1>a. /\ Spans(all, 0, Len(all)) /\ Len(all) \in Nat
      /\ Len(all) <= written /\ written <= MaxPieces /\ written \in Nat
  BY CollectedWithin DEF CollectorType
<1>1. CASE Start
  <2> USE <1>1 DEF Start
  <2>1. CollectorType'
    <3>1. result' \in [startup : Seq(Nat), stack : Seq(Nat), err : Errors]
      <4>1. [NoResult EXCEPT !.err = "start"] = [startup |-> <<>>, stack |-> <<>>, err |-> "start"]
        BY DEF NoResult
      <4>2. [startup |-> <<>>, stack |-> <<>>, err |-> "start"]
                \in [startup : Seq(Nat), stack : Seq(Nat), err : Errors]
        BY DEF Errors
      <4> QED
        BY <4>1, <4>2 DEF CollectorType
    <3> QED
      BY <3>1 DEF CollectorType, Places
  <2>2. PiecesInv'
    <3>1. reader' # "ended" => reader # "ended"
      BY DEF ReaderInv, CollectorInv, Ended
    <3> QED
      BY <3>1, PiecesKept
  <2>3. ReaderInv'
    BY DEF ReaderInv, Ended, CollectorInv
  <2>4. CollectorInv'
    BY DEF CollectorInv, Ended, ctxDone
  <2>5. ResultInv'
    <3>1. PICK banner \in Nat : Spans(startup, 0, banner) /\ banner <= Len(all) /\ banner <= asked
      BY DEF ResultInv
    <3>2. CASE result' = [NoResult EXCEPT !.err = "start"] /\ pc' = "returned"
      <4>1. Spans(result'.startup, 0, 0) /\ Spans(result'.stack, 0, 0) /\ result'.err # "nil"
        BY <3>2, SpansNone DEF NoResult
      <4> QED
        BY <3>1, <3>2, <4>1 DEF ResultInv
    <3>3. CASE UNCHANGED result
      <4>1. ~Ended
        BY DEF CollectorInv, Ended
      <4> QED
        BY <3>3, <4>1, ResultKept
    <3> QED
      BY <3>2, <3>3
  <2> QED
    BY <2>1, <2>2, <2>3, <2>4, <2>5
<1>2. CASE BannerChunk
  <2> USE <1>2 DEF BannerChunk
  <2>1. PiecesInv' /\ stdoutCh' \in Seq(Seq(Nat)) /\ all' \in Seq(Nat)
    BY PiecesTaken
  <2>2. startup' = all' /\ asked' = MaxPieces
    BY DEF CollectorInv
  <2>3. CollectorType'
    BY <2>1, <2>2 DEF CollectorType
  <2>4. ReaderInv' /\ CollectorInv'
    BY <2>2 DEF ReaderInv, CollectorInv, Ended, ctxDone
  <2>5. ResultInv'
    <3>1. Spans(startup', 0, Len(all')) /\ Len(all') <= asked' /\ Len(all') \in Nat
      <4>1. Spans(all', 0, Len(all'))  /\ Len(all') <= written' /\ written' <= MaxPieces /\ Len(all') \in Nat
        BY <2>1, <2>3, CollectedWithinNext
      <4>2. PICK n \in Nat : n = Len(all')
        BY <4>1
      <4>3. PICK w \in Nat : w = written'
        BY <2>3 DEF CollectorType
      <4>4. n <= w /\ w <= MaxPieces /\ MaxPieces \in Nat
        BY <4>1, <4>2, <4>3, BoundsAssumption
      <4>5. n <= MaxPieces
        BY <4>3, <4>4
      <4> QED
        BY <2>2, <4>1, <4>2, <4>5
    <3> QED
      BY <3>1 DEF ResultInv, Ended
  <2> QED
    BY <2>1, <2>3, <2>4, <2>5
<1>3. CASE ClosedEarly \/ Idle
  <2> USE <1>3 DEF ClosedEarly, Idle
  <2>1. CollectorType'
    BY DEF CollectorType, Places
  <2>2. PiecesInv'
    BY PiecesKept
  <2>3. ReaderInv' /\ CollectorInv'
    BY DEF ReaderInv, CollectorInv, Ended, ctxDone
  <2>4. ResultInv'
    BY ResultKept DEF Ended
  <2> QED
    BY <2>1, <2>2, <2>3, <2>4
<1>4. CASE GiveUp
  <2> USE <1>4 DEF GiveUp
  <2>1. CollectorType'
    BY DEF CollectorType, Places
  <2>2. PiecesInv'
    BY PiecesKept
  <2>3. ReaderInv' /\ CollectorInv'
    BY DEF ReaderInv, CollectorInv, Ended, ctxDone
  <2>4. ResultInv'
    BY ResultKept DEF Ended
  <2> QED
    BY <2>1, <2>2, <2>3, <2>4
<1>5. CASE WaitKilled
  <2> USE <1>5 DEF WaitKilled
  <2>1. CollectorType'
    BY DEF CollectorType, Places
  <2>2. PiecesInv'
    BY PiecesKept
  <2>3. ReaderInv' /\ CollectorInv'
    BY DEF ReaderInv, CollectorInv, Ended, ctxDone
  <2>4. ResultInv'
    BY ResultKept DEF Ended
  <2> QED
    BY <2>1, <2>2, <2>3, <2>4
<1>6. CASE ReturnGivenUp
  <2> USE <1>6 DEF ReturnGivenUp
  <2>0. ctx \in {"canceled", "expired"}
    BY DEF CollectorInv, CollectorType, ctxDone
  <2>1. CollectorType'
    <3>1. result' \in [startup : Seq(Nat), stack : Seq(Nat), err : Errors]
      BY <2>0 DEF CollectorType, Errors
    <3> QED
      BY <3>1 DEF CollectorType, Places
  <2>2. PiecesInv'
    BY PiecesKept
  <2>3. ReaderInv' /\ CollectorInv'
    BY DEF ReaderInv, CollectorInv, Ended, ctxDone
  <2>4. ResultInv'
    <3>1. PICK banner \in Nat : Spans(startup, 0, banner) /\ banner <= Len(all) /\ banner <= asked
      BY DEF ResultInv
    <3>2. Spans(result'.startup, 0, banner) /\ Spans(result'.stack, banner, banner) /\ result'.err # "nil"
      BY <2>0, <3>1, SpansNone
    <3> QED
      BY <3>1, <3>2 DEF ResultInv
  <2> QED
    BY <2>1, <2>2, <2>3, <2>4
<1>7. CASE SendCommand
  <2> USE <1>7 DEF SendCommand
  <2>0. runErr' \in BOOLEAN
    BY DEF CollectorType
  <2>1. CollectorType'
    BY <2>0 DEF CollectorType, Places
  <2>2. PiecesInv'
    BY PiecesKept
  <2>3. ReaderInv' /\ CollectorInv'
    BY DEF ReaderInv, CollectorInv, Ended, ctxDone
  <2>4. ResultInv'
    <3>1. PICK n \in Nat : n = Len(all) /\ n <= written
      BY <1>a
    <3>2. \A b \in Nat : b <= Len(all) /\ b <= asked => b <= Len(all') /\ b <= asked'
      BY <1>a, <3>1
    <3> QED
      BY <3>2, ResultKept DEF Ended
  <2> QED
    BY <2>1, <2>2, <2>3, <2>4
<1>11. CASE CloseStdin
  <2> USE <1>11 DEF CloseStdin
  <2>0. runErr' \in BOOLEAN
    BY DEF CollectorType
  <2>1. CollectorType'
    BY <2>0 DEF CollectorType, Places
  <2>2. PiecesInv'
    BY PiecesKept
  <2>3. ReaderInv' /\ CollectorInv'
    BY DEF ReaderInv, CollectorInv, Ended, ctxDone
  <2>4. ResultInv'
    BY ResultKept DEF Ended
  <2> QED
    BY <2>1, <2>2, <2>3, <2>4
<1>8. CASE Drain
  <2> USE <1>8 DEF Drain
  <2>1. CASE stdoutCh # <<>> /\ all' = all \o Head(stdoutCh) /\ stdoutCh' = Tail(stdoutCh) /\ UNCHANGED pc
    <3> USE <2>1
    <3>1. PiecesInv' /\ stdoutCh' \in Seq(Seq(Nat)) /\ all' \in Seq(Nat) /\ Len(all) <= Len(all')
      BY PiecesTaken
    <3>2. CollectorType'
      BY <3>1 DEF CollectorType
    <3>3. ReaderInv' /\ CollectorInv'
      BY DEF ReaderInv, CollectorInv, Ended, ctxDone
    <3>4. ResultInv'
      <4>1. PICK n \in Nat : n = Len(all')
        BY <3>1
      <4>2. \A b \in Nat : b <= Len(all) /\ b <= asked => b <= Len(all') /\ b <= asked'
        BY <1>a, <3>1, <4>1
      <4> QED
        BY <4>2, ResultKept DEF Ended
    <3> QED
      BY <3>1, <3>2, <3>3, <3>4
  <2>2. CASE ChannelClosed /\ pc' = "wait" /\ UNCHANGED <<all, stdoutCh>>
    <3> USE <2>2 DEF ChannelClosed
    <3>1. CollectorType'
      BY DEF CollectorType, Places
    <3>2. PiecesInv'
      BY PiecesKept
    <3>3. ReaderInv' /\ CollectorInv'
      BY DEF ReaderInv, CollectorInv, Ended, ctxDone
    <3>4. ResultInv'
      BY ResultKept DEF Ended
    <3> QED
      BY <3>1, <3>2, <3>3, <3>4
  <2> QED
    BY <2>1, <2>2
<1>9. CASE Wait
  <2> USE <1>9 DEF Wait
  <2>1. CollectorType'
    BY DEF CollectorType, Places
  <2>2. PiecesInv'
    BY PiecesKept
  <2>3. ReaderInv' /\ CollectorInv'
    BY DEF ReaderInv, CollectorInv, CollectorType, Ended, ctxDone
  <2>4. ResultInv'
    BY ResultKept DEF Ended
  <2> QED
    BY <2>1, <2>2, <2>3, <2>4
<1>10. CASE Return
  <2> USE <1>10 DEF Return
  <2>1. PICK n \in Nat, b \in Nat :
            /\ n = Len(all) /\ Spans(all, 0, n) /\ Spans(startup, 0, b) /\ b = Len(startup)
            /\ b <= n /\ b <= asked
    <3>1. PICK b \in Nat : Spans(startup, 0, b) /\ b <= Len(all) /\ b <= asked
      BY DEF ResultInv
    <3>2. b = Len(startup)
      BY <3>1 DEF Spans, CollectorType
    <3> QED
      BY <1>a, <3>1, <3>2
  <2>2. result'.stack \in Seq(Nat) /\ Spans(result'.stack, b, n)
    <3>1. all \in Seq(Nat) /\ b \in 0..Len(all) /\ 0 + b = b
      BY <2>1 DEF CollectorType
    <3>2. /\ SubSeq(all, b + 1, Len(all)) \in Seq(Nat)
          /\ Spans(SubSeq(all, b + 1, Len(all)), b, n)
      <4> HIDE DEF Return, IInv
      <4> QED
        BY <2>1, <3>1, SpansWithin, Zenon
    <3>3. result'.stack = SubSeq(all, b + 1, Len(all))
      BY <2>1
    <3> QED
      BY <3>2, <3>3
  <2>3. CollectorType'
    <3>1. result' \in [startup : Seq(Nat), stack : Seq(Nat), err : Errors]
      BY <2>2 DEF CollectorType, Errors
    <3> QED
      BY <3>1 DEF CollectorType, Places
  <2>4. PiecesInv'
    BY PiecesKept
  <2>5. ReaderInv' /\ CollectorInv'
    BY DEF ReaderInv, CollectorInv, Ended, ctxDone
  <2>6. ResultInv'
    <3>1. result'.err = "nil" /\ ctx' # "canceled" => Ended' /\ n = written'
      <4> SUFFICES ASSUME ~runErr, ctx # "canceled" PROVE Ended /\ n = written
        BY DEF Ended
      <4>1. Ended /\ stdoutErr = "nil" /\ stdoutCh = <<>>
        BY DEF ReaderInv, CollectorInv, CollectorType
      <4>2. PICK taken \in Nat, sent \in Nat :
                Spans(all, 0, taken) /\ Linked(stdoutCh, taken, sent) /\ sent = written
        BY <4>1 DEF PiecesInv
      <4>3. taken = sent
        BY <4>1, <4>2 DEF Linked
      <4>4. taken = n
        BY <2>1, <4>2 DEF Spans
      <4> QED
        BY <4>1, <4>2, <4>3, <4>4
    <3>2. Spans(result'.startup, 0, b)
      BY <2>1
    <3> QED
      BY <2>1, <2>2, <3>1, <3>2 DEF ResultInv
  <2> QED
    BY <2>3, <2>4, <2>5, <2>6
<1> QED
  BY <1>1, <1>2, <1>3, <1>4, <1>5, <1>6, <1>7, <1>8, <1>9, <1>10, <1>11 DEF CollectStackOutput


\* So does what the goroutines, the debugger, the timer and the context do.
LEMMA OthersIInv == IInv /\ (ReadPipeChunks \/ ReadStderr \/ Environment) => IInv'
<1> SUFFICES ASSUME IInv, ReadPipeChunks \/ ReadStderr \/ Environment PROVE IInv'
  OBVIOUS
<1> USE DEF IInv, unchangedByReader, unchangedByEnvironment, readerVars, debuggerVars, collectorVars
<1>1. CASE ReadChunk
  <2> USE <1>1 DEF ReadChunk
  <2>1. PiecesInv' /\ chunk' \in Seq(Nat) /\ pipe' \in Seq(Nat)
    BY PiecesRead
  <2>2. CollectorType'
    BY <2>1 DEF CollectorType
  <2>3. ReaderInv' /\ CollectorInv'
    BY DEF ReaderInv, CollectorInv, Ended, ctxDone
  <2>4. ResultInv'
    BY ResultKept DEF Ended
  <2> QED
    BY <2>1, <2>2, <2>3, <2>4
<1>2. CASE ReadEnd
  <2> USE <1>2 DEF ReadEnd
  <2>1. PiecesInv'
    BY PiecesEnd
  <2>2. CollectorType'
    BY DEF CollectorType
  <2>3. ReaderInv' /\ CollectorInv'
    BY DEF ReaderInv, CollectorInv, Ended, ctxDone
  <2>4. ResultInv'
    BY ResultKept DEF Ended
  <2> QED
    BY <2>1, <2>2, <2>3, <2>4
<1>3. CASE SendChunk
  <2> USE <1>3 DEF SendChunk
  <2>1. PiecesInv' /\ stdoutCh' \in Seq(Seq(Nat))
    BY PiecesSent
  <2>2. CollectorType'
    BY <2>1 DEF CollectorType
  <2>3. ReaderInv' /\ CollectorInv'
    BY DEF ReaderInv, CollectorInv, Ended, ctxDone
  <2>4. ResultInv'
    BY ResultKept DEF Ended
  <2> QED
    BY <2>1, <2>2, <2>3, <2>4
<1>4. CASE SendDone
  <2> USE <1>4 DEF SendDone
  <2>1. PiecesInv'
    BY PiecesEnd
  <2>2. ctx \in {"canceled", "expired"}
    BY DEF CollectorType, ctxDone
  <2>3. CollectorType'
    BY <2>2 DEF CollectorType
  <2>4. ReaderInv' /\ CollectorInv'
    BY <2>2 DEF ReaderInv, CollectorInv, Ended, ctxDone
  <2>5. ResultInv'
    BY ResultKept DEF Ended
  <2> QED
    BY <2>1, <2>3, <2>4, <2>5
<1>5. CASE ReadStderr
  <2> USE <1>5 DEF ReadStderr
  <2>1. CollectorType' /\ PiecesInv'
    BY PiecesKept DEF CollectorType
  <2>2. ReaderInv' /\ CollectorInv'
    BY DEF ReaderInv, CollectorInv, Ended, ctxDone
  <2>3. ResultInv'
    BY ResultKept DEF Ended
  <2> QED
    BY <2>1, <2>2, <2>3
<1>6. CASE DebuggerWrites
  <2>1. PiecesInv' /\ pipe' \in Seq(Nat)
    BY <1>6, PieceWritten
  <2> USE <1>6 DEF DebuggerWrites
  <2>2. CollectorType'
    BY <2>1 DEF CollectorType
  <2>3. ReaderInv' /\ CollectorInv'
    BY DEF ReaderInv, CollectorInv, Ended, ctxDone
  <2>4. ResultInv'
    BY ResultKept DEF Ended
  <2> QED
    BY <2>1, <2>2, <2>3, <2>4
<1>7. CASE DebuggerEnds
  <2> USE <1>7 DEF DebuggerEnds, Alive
  <2>1. CollectorType' /\ PiecesInv'
    BY PiecesKept DEF CollectorType
  <2>2. ReaderInv' /\ CollectorInv'
    BY DEF ReaderInv, CollectorInv, Ended, ctxDone
  <2>3. ResultInv'
    BY ResultKept DEF Ended
  <2> QED
    BY <2>1, <2>2, <2>3
<1>8. CASE ContextKills
  <2> USE <1>8 DEF ContextKills
  <2>1. CollectorType' /\ PiecesInv'
    BY PiecesKept DEF CollectorType
  <2>2. ReaderInv' /\ CollectorInv'
    BY DEF ReaderInv, CollectorInv, Ended, ctxDone
  <2>3. ResultInv'
    BY ResultKept DEF Ended
  <2> QED
    BY <2>1, <2>2, <2>3
<1>9. CASE TimerFires
  <2> USE <1>9 DEF TimerFires
  <2>1. CollectorType' /\ PiecesInv'
    BY PiecesKept DEF CollectorType
  <2>2. ReaderInv' /\ CollectorInv'
    BY DEF ReaderInv, CollectorInv, Ended, ctxDone
  <2>3. ResultInv'
    BY ResultKept DEF Ended
  <2> QED
    BY <2>1, <2>2, <2>3
<1>10. CASE ContextDone
  <2> USE <1>10 DEF ContextDone
  <2>1. CollectorType' /\ PiecesInv'
    BY PiecesKept DEF CollectorType
  <2>2. ReaderInv' /\ CollectorInv'
    BY DEF ReaderInv, CollectorInv, Ended, ctxDone
  <2>3. ResultInv'
    BY ResultKept DEF Ended, ctxDone
  <2> QED
    BY <2>1, <2>2, <2>3
<1> QED
  BY <1>1, <1>2, <1>3, <1>4, <1>5, <1>6, <1>7, <1>8, <1>9, <1>10 DEF ReadPipeChunks, Environment

-----------------------------------------------------------------------------
(* Theorems.                                                               *)

\* The request for a page keeps the invariant of the collector whatever else it
\* does: it is StackCollector with two steps before and one after.
THEOREM Invariance == PagesSpec => []IInv
<1>1. PagesInit => IInv
  BY InitIInv DEF PagesInit
<1>2. IInv /\ UNCHANGED vars => IInv'
  <2> SUFFICES ASSUME IInv, UNCHANGED vars PROVE IInv'
    OBVIOUS
  <2> USE DEF IInv, vars, readerVars, debuggerVars, collectorVars
  <2>1. CollectorType' /\ PiecesInv'
    BY PiecesKept DEF CollectorType
  <2>2. ReaderInv' /\ CollectorInv'
    BY DEF ReaderInv, CollectorInv, Ended, ctxDone
  <2>3. ResultInv'
    BY ResultKept DEF Ended
  <2> QED
    BY <2>1, <2>2, <2>3
<1>3. IInv /\ [PagesNext]_allVars => IInv'
  <2> SUFFICES ASSUME IInv, [PagesNext]_allVars PROVE IInv'
    OBVIOUS
  <2>1. UNCHANGED vars \/ Next
    BY DEF PagesNext, allVars, ResolvePID, ProcessesChange, ListAll, CallCollector, Collect,
           RenderStack, ShowThreads, InvalidPID
  <2> QED
    BY <2>1, <1>2, CollectorIInv, OthersIInv DEF Next
<1> QED
  BY <1>1, <1>3, PTL DEF PagesSpec

\* What is shown of netcoredbg is a part of what it wrote, in its order and from
\* the beginning, and all of it when no error is shown with it (collectStackOutput,
\* readPipeChunks).
THEOREM OutputIsWholeHolds == PagesSpec => []OutputIsWhole
<1>1. IInv => OutputIsWhole
  <2> SUFFICES ASSUME IInv PROVE OutputIsWhole
    OBVIOUS
  <2> USE DEF IInv
  <2>1. PICK first \in Nat, last \in Nat :
            /\ Spans(result.startup, 0, first) /\ Spans(result.stack, first, last)
            /\ result.err = "nil" /\ ctx # "canceled" => Ended /\ last = written
    BY DEF ResultInv
  <2>2. result.startup \in Seq(Nat) /\ result.stack \in Seq(Nat)
    BY DEF CollectorType
  <2>3. Spans(result.startup \o result.stack, 0, last) /\ result.startup \o result.stack \in Seq(Nat)
    BY <2>1, <2>2, SpansOn
  <2>4. PICK shown \in Seq(Nat) : shown = result.startup \o result.stack /\ Spans(shown, 0, last)
    BY <2>3
  <2>5. Len(shown) = last /\ \A i \in 1..Len(shown) : shown[i] = i
    <3>1. last = 0 + Len(shown) /\ \A i \in 1..Len(shown) : shown[i] = 0 + i
      BY <2>4 DEF Spans
    <3>2. PICK n \in Nat : n = Len(shown)
      <4>1. shown \in Seq(Nat)
        BY <2>4
      <4>2. Len(shown) \in Nat
        BY <4>1
      <4> QED
        BY <4>2
    <3>3. last = n /\ \A i \in 1..n : shown[i] = i
      BY <3>1, <3>2
    <3> QED
      BY <3>2, <3>3
  <2>6. Len(startup) <= asked
    <3>1. PICK banner \in Nat : Spans(startup, 0, banner) /\ banner <= asked
      BY DEF ResultInv
    <3>2. Len(startup) = banner
      BY <3>1 DEF Spans, CollectorType
    <3> QED
      BY <3>1, <3>2
  <2> QED
    BY <2>1, <2>4, <2>5, <2>6 DEF OutputIsWhole
<1> QED
  BY Invariance, <1>1, PTL

\* collectStackOutput does not return before netcoredbg has ended and cmd.Wait has
\* freed what it held.
THEOREM DebuggerIsReapedHolds == PagesSpec => []DebuggerIsReaped
<1>1. IInv => DebuggerIsReaped
  BY DEF IInv, CollectorInv, DebuggerIsReaped
<1> QED
  BY Invariance, <1>1, PTL
-----------------------------------------------------------------------------
(* Recursive functions on the natural numbers.                             *)

\* Every non-empty set of natural numbers has a least element: of the intervals
\* 0..m for m in the set one has no other as a proper subset.
LEMMA LeastElement ==
    ASSUME NEW N \in SUBSET Nat, N # {}
    PROVE  \E m \in N : \A k \in N : m <= k
<1> DEFINE F == {0..m : m \in N}
<1>1. ASSUME NEW m \in N PROVE 0..m \in FiniteSubsetsOf(Nat)
  <2>1. IsFiniteSet(0..m)
    BY FS_Interval
  <2> QED
    BY <2>1 DEF FiniteSubsetsOf
<1>2. F \subseteq FiniteSubsetsOf(Nat) /\ F # {}
  BY <1>1
<1>3. PICK x \in F : \A y \in F : ~(<<y, x>> \in StrictSubsetOrdering(Nat))
  BY <1>2, WFMin, FS_StrictSubsetOrderingWellFounded
<1>4. PICK m \in N : x = 0..m
  OBVIOUS
<1>5. ASSUME NEW k \in N, k < m PROVE FALSE
  <2>1. 0..k \subseteq 0..m /\ m \in 0..m /\ m \notin 0..k
    BY <1>5
  <2>2. <<0..k, x>> \in (SUBSET Nat) \X (SUBSET Nat) /\ 0..k # x
    BY <1>4, <2>1
  <2>3. <<0..k, x>> \in StrictSubsetOrdering(Nat)
    BY <1>4, <2>1, <2>2 DEF StrictSubsetOrdering
  <2> QED
    BY <1>3, <2>3
<1> QED
  BY <1>5

\* Induction up to n, for the numbers at which something holds.
LEMMA Induction ==
    ASSUME NEW n \in Nat, NEW N, 0 \in N, \A i \in 1..n : i - 1 \in N => i \in N
    PROVE  \A i \in 0..n : i \in N
<1> SUFFICES ASSUME NEW i \in 0..n, i \notin N PROVE FALSE
  OBVIOUS
<1> DEFINE B == {k \in 0..n : k \notin N}
<1>1. B \in SUBSET Nat /\ i \in B
  OBVIOUS
<1>2. PICK m \in B : \A k \in B : m <= k
  <2> HIDE DEF B
  <2> QED
    BY <1>1, LeastElement
<1>3. m \in 1..n /\ m - 1 \in 0..n /\ ~(m <= m - 1)
  OBVIOUS
<1> QED
  BY <1>2, <1>3

\* f begins with base and goes on as next says, up to n.
Follows(f, n, S, base, next) ==
    f \in [0..n -> S] /\ f[0] = base /\ \A i \in 1..n : f[i] = next[i][f[i - 1]]

\* There is such a function.
LEMMA Recursion ==
    ASSUME NEW n \in Nat, NEW S, NEW base \in S, NEW next,
           \A i \in 1..n : \A x \in S : next[i][x] \in S
    PROVE  \E f : Follows(f, n, S, base, next)
<1> DEFINE N == {m \in 0..n : \E f : Follows(f, m, S, base, next)}
<1>1. 0 \in N
  <2> DEFINE f == [i \in 0..0 |-> base]
  <2>1. f \in [0..0 -> S] /\ f[0] = base /\ 1..0 = {}
    OBVIOUS
  <2> HIDE DEF f
  <2>2. Follows(f, 0, S, base, next)
    BY <2>1 DEF Follows
  <2> QED
    BY <2>2
<1>2. ASSUME NEW m \in 1..n, m - 1 \in N PROVE m \in N
  <2>1. PICK f : Follows(f, m - 1, S, base, next)
    BY <1>2
  <2> DEFINE g == [i \in 0..m |-> IF i < m THEN f[i] ELSE next[m][f[m - 1]]]
  <2>2. f \in [0..(m - 1) -> S] /\ f[0] = base /\ \A i \in 1..(m - 1) : f[i] = next[i][f[i - 1]]
    BY <2>1 DEF Follows
  <2>3. g[m] = next[m][f[m - 1]] /\ next[m][f[m - 1]] \in S /\ \A i \in 0..(m - 1) : g[i] = f[i]
    BY <2>2
  <2>4. g \in [0..m -> S]
    BY <2>2, <2>3
  <2> HIDE DEF g
  <2>5. ASSUME NEW i \in 1..m PROVE g[i] = next[i][g[i - 1]]
    <3>1. i - 1 \in 0..(m - 1) /\ (i = m \/ i \in 1..(m - 1))
      OBVIOUS
    <3> QED
      BY <2>2, <2>3, <3>1
  <2>6. Follows(g, m, S, base, next)
    BY <2>2, <2>3, <2>4, <2>5 DEF Follows
  <2> QED
    BY <2>6
<1> HIDE DEF N
<1>3. \A i \in 0..n : i \in N
  BY <1>1, <1>2, Induction
<1> QED
  BY <1>3 DEF N

\* A function that follows the recursion wherever its last value is in S.
LEMMA Following ==
    ASSUME NEW n \in Nat, NEW S, NEW base \in S, NEW next,
           \A i \in 1..n : \A x \in S : next[i][x] \in S,
           NEW f, f = [i \in 0..n |-> f[i]], f[0] = base,
           \A i \in 1..n : f[i - 1] \in S => f[i] = next[i][f[i - 1]]
    PROVE  Follows(f, n, S, base, next)
<1> DEFINE N == {i \in 0..n : f[i] \in S}
<1>1. 0 \in N
  OBVIOUS
<1>2. ASSUME NEW i \in 1..n, i - 1 \in N PROVE i \in N
  <2>1. f[i - 1] \in S /\ i \in 0..n
    BY <1>2
  <2> QED
    BY <2>1
<1> HIDE DEF N
<1>3. \A i \in 0..n : i \in N
  BY <1>1, <1>2, Induction
<1>4. \A i \in 0..n : f[i] \in S
  BY <1>3 DEF N
<1>5. f \in [0..n -> S]
  BY <1>4
<1>6. \A i \in 1..n : i - 1 \in 0..n
  OBVIOUS
<1> QED
  BY <1>4, <1>5, <1>6 DEF Follows
-----------------------------------------------------------------------------
(* The tree of processes.                                                  *)

States == {"free", "used", "running", "zombie"}
CommandLines == Cmdlines \cup {<<>>, <<"wrapper">>}
Processes == [state : States, parent : Pids \cup {Outside}, cmd : CommandLines]

\* The number of pids.
LEMMA PidsAreFinite == Cardinality(Pids) \in Nat /\ Root \in Pids /\ Pids \subseteq Nat \ {0}
<1>1. DirOrder \in Seq(Pids) /\ Range(DirOrder) = Pids
  BY PidsAssumption
<1>2. Pids = {DirOrder[i] : i \in 1..Len(DirOrder)}
  BY <1>1 DEF Range
<1>3. IsFiniteSet(1..Len(DirOrder))
  BY <1>1, FS_Interval
<1>4. IsFiniteSet(Pids)
  <2>1. DirOrder \in Surjection(1..Len(DirOrder), Pids)
    BY <1>1, <1>2 DEF Surjection
  <2> QED
    BY <1>3, <2>1, FS_Surjection DEF ExistsSurjection
<1> QED
  BY <1>4, FS_CardinalityType, PidsAssumption

\* The parent of each process; Outside stands for itself.
ParentIn(t) == [q \in Pids \cup {Outside} |-> IF q = Outside THEN Outside ELSE t[q].parent]

\* The ancestors of a process are reached from parent to parent, up to Outside.
LEMMA AncestorIs ==
    ASSUME NEW t \in [Pids -> Processes], NEW p \in Pids \cup {Outside}, NEW n \in Nat
    PROVE  \E up : /\ Follows(up, n, Pids \cup {Outside}, p, [k \in 1..n |-> ParentIn(t)])
                   /\ \A k \in 0..n : Ancestor(t, p, k) = up[k]
<1> DEFINE S == Pids \cup {Outside}
           parent == ParentIn(t)
           next == [i \in 1..n |-> parent]
           Up(k, f) == [i \in 0..k |-> IF i = 0 THEN p
                                       ELSE IF f[i - 1] = Outside THEN Outside ELSE t[f[i - 1]].parent]
<1>1. parent \in [S -> S]
  BY DEF Processes, ParentIn
<1>2. PICK f : Follows(f, n, S, p, next)
  <2>1. \A i \in 1..n : \A x \in S : next[i][x] \in S
    BY <1>1
  <2>2. p \in S
    OBVIOUS
  <2> HIDE DEF next, parent, S
  <2> QED
    BY <2>1, <2>2, Recursion
<1>a. f \in [0..n -> S] /\ f[0] = p /\ \A i \in 1..n : f[i] = parent[f[i - 1]]
  <2>1. \A i \in 1..n : next[i] = parent
    OBVIOUS
  <2> HIDE DEF next, parent
  <2> QED
    BY <1>2, <2>1 DEF Follows
<1>3. ASSUME NEW k \in 0..n PROVE Ancestor(t, p, k) = f[k]
  <2> DEFINE g == [i \in 0..k |-> f[i]]
             h == CHOOSE u : u = Up(k, u)
  <2>1. g = Up(k, g)
    <3> SUFFICES ASSUME NEW i \in 0..k
                 PROVE  g[i] = IF i = 0 THEN p
                               ELSE IF g[i - 1] = Outside THEN Outside ELSE t[g[i - 1]].parent
      OBVIOUS
    <3>1. CASE i = 0
      BY <1>a, <3>1
    <3>2. CASE i # 0
      <4>1. i \in 1..n /\ i - 1 \in 0..k /\ i - 1 \in 0..n
        BY <3>2
      <4>2. f[i] = parent[f[i - 1]] /\ f[i - 1] \in S
        BY <1>a, <4>1
      <4> QED
        BY <3>2, <4>1, <4>2 DEF ParentIn
    <3> QED
      BY <3>1, <3>2
  <2>2. h = Up(k, h)
    <3> HIDE DEF g, Up
    <3> QED
      BY <2>1
  <2>3. Ancestor(t, p, k) = h[k]
    BY DEF Ancestor
  <2> HIDE DEF h
  <2> DEFINE N == {i \in 0..k : h[i] = f[i]}
  <2>4. 0 \in N
    BY <1>a, <2>2
  <2>5. ASSUME NEW i \in 1..k, i - 1 \in N PROVE i \in N
    <3>1. i \in 0..k /\ i \in 1..n /\ i # 0 /\ i - 1 \in 0..n /\ h[i - 1] = f[i - 1]
      BY <2>5
    <3>2. h[i] = IF h[i - 1] = Outside THEN Outside ELSE t[h[i - 1]].parent
      BY <2>2, <3>1
    <3>3. f[i] = parent[f[i - 1]] /\ f[i - 1] \in S
      BY <1>a, <3>1
    <3> QED
      BY <3>1, <3>2, <3>3 DEF ParentIn
  <2>6. k \in N
    <3>1. k \in Nat /\ k \in 0..k
      OBVIOUS
    <3> HIDE DEF N
    <3>2. \A i \in 0..k : i \in N
      BY <2>4, <2>5, <3>1, Induction
    <3> QED
      BY <3>1, <3>2
  <2> QED
    BY <2>3, <2>6
<1> HIDE DEF next, parent, S
<1> QED
  BY <1>2, <1>3 DEF next, parent, S

\* The next ancestor.
LEMMA AncestorNext ==
    ASSUME NEW t \in [Pids -> Processes], NEW p \in Pids \cup {Outside}, NEW k \in Nat
    PROVE  /\ Ancestor(t, p, 0) = p /\ Ancestor(t, p, k) \in Pids \cup {Outside}
           /\ Ancestor(t, p, k + 1) = IF Ancestor(t, p, k) = Outside THEN Outside
                                      ELSE t[Ancestor(t, p, k)].parent
<1> DEFINE n == k + 1
           parent == [i \in 1..n |-> ParentIn(t)]
<1>1. PICK up : /\ Follows(up, n, Pids \cup {Outside}, p, parent)
                /\ \A i \in 0..n : Ancestor(t, p, i) = up[i]
  <2>1. n \in Nat
    OBVIOUS
  <2> HIDE DEF n
  <2> QED
    BY <2>1, AncestorIs
<1>2. 0 \in 0..n /\ k \in 0..n /\ k + 1 \in 1..n /\ k + 1 \in 0..n /\ (k + 1) - 1 = k
  OBVIOUS
<1>3. parent[k + 1] = ParentIn(t)
  BY <1>2
<1> HIDE DEF n, parent
<1>4. /\ up[0] = p /\ up[k] \in Pids \cup {Outside} /\ up[k + 1] = ParentIn(t)[up[k]]
  BY <1>1, <1>2, <1>3 DEF Follows
<1> QED
  BY <1>1, <1>2, <1>4 DEF ParentIn

\* The ancestors of an ancestor.
LEMMA AncestorOn ==
    ASSUME NEW t \in [Pids -> Processes], NEW p \in Pids \cup {Outside},
           NEW k \in Nat, NEW n \in Nat
    PROVE  Ancestor(t, Ancestor(t, p, k), n) = Ancestor(t, p, k + n)
<1> DEFINE a == Ancestor(t, p, k)
           N == {i \in 0..n : Ancestor(t, a, i) = Ancestor(t, p, k + i)}
<1>1. a \in Pids \cup {Outside}
  BY AncestorNext
<1> HIDE DEF a
<1>2. 0 \in N
  BY <1>1, AncestorNext DEF a
<1>3. ASSUME NEW i \in 1..n, i - 1 \in N PROVE i \in N
  <2> DEFINE j == i - 1
  <2>1. j \in Nat /\ k + j \in Nat /\ j + 1 = i /\ (k + j) + 1 = k + i /\ i \in 0..n
    OBVIOUS
  <2>2. Ancestor(t, a, j) = Ancestor(t, p, k + j)
    BY <1>3
  <2> HIDE DEF j
  <2>3. Ancestor(t, a, j + 1) = Ancestor(t, p, (k + j) + 1)
    BY <1>1, <2>1, <2>2, AncestorNext
  <2> QED
    BY <2>1, <2>3
<1> HIDE DEF N
<1>4. \A i \in 0..n : i \in N
  BY <1>2, <1>3, Induction
<1> QED
  BY <1>4 DEF N, a

\* What lies outside has no ancestors.
LEMMA NoAncestors ==
    ASSUME NEW t \in [Pids -> Processes], NEW n \in Nat
    PROVE  Ancestor(t, Outside, n) = Outside
<1> DEFINE N == {i \in 0..n : Ancestor(t, Outside, i) = Outside}
<1>1. 0 \in N
  BY AncestorNext
<1>2. ASSUME NEW i \in 1..n, i - 1 \in N PROVE i \in N
  <2> DEFINE j == i - 1
  <2>1. j \in Nat /\ j + 1 = i /\ i \in 0..n /\ Ancestor(t, Outside, j) = Outside
    BY <1>2
  <2> HIDE DEF j
  <2>2. Ancestor(t, Outside, j + 1) = Outside
    BY <2>1, AncestorNext
  <2> QED
    BY <2>1, <2>2
<1> HIDE DEF N
<1>3. \A i \in 0..n : i \in N
  BY <1>1, <1>2, Induction
<1> QED
  BY <1>3 DEF N

\* A table of processes is a forest, and the root is the root of a tree.
LEMMA TablesAre ==
    ASSUME NEW t \in Tables
    PROVE  /\ t \in [Pids -> Processes] /\ t[Root].parent = Outside
           /\ \A p \in Pids : /\ t[p].parent # Outside => Exists(t, p)
                              /\ Ancestor(t, p, Cardinality(Pids)) = Outside
<1>1. ASSUME NEW p \in Pids
      PROVE  /\ t[p] \in Processes
             /\ t[p].parent # Outside => Exists(t, p)
             /\ p = Root => t[p].parent = Outside
             /\ Ancestor(t, p, Cardinality(Pids)) = Outside
  <2>1. /\ t[p] \in Roots \cup {Process(q, c) : q \in Pids \cup {Outside}, c \in Cmdlines}
        /\ Ancestor(t, p, Cardinality(Pids)) = Outside
        /\ p = Root => t[p] \in Roots
    BY DEF Tables
  <2>2. \A r \in Roots : r \in Processes /\ r.parent = Outside
    BY DEF Roots, Free, Process, Processes, States, CommandLines
  <2>3. ASSUME NEW q \in Pids \cup {Outside}, NEW c \in Cmdlines
        PROVE  Process(q, c) \in Processes /\ Process(q, c).state = "running"
    BY DEF Process, Processes, States, CommandLines
  <2> QED
    BY <2>1, <2>2, <2>3 DEF Exists
<1>2. DOMAIN t = Pids /\ t = [p \in DOMAIN t |-> t[p]]
  BY DEF Tables
<1> QED
  BY <1>1, <1>2, PidsAreFinite

\* A descendant of the root has one depth.
LEMMA DepthIs ==
    ASSUME NEW t \in Tables, NEW p \in Pids, NEW d \in Nat, Ancestor(t, p, d) = Root
    PROVE  /\ \A k \in Nat : Ancestor(t, p, k) = Root => k = d
           /\ d < Cardinality(Pids)
           /\ p # Root => d \in Depths /\ Descends(t, p) /\ Depth(t, p) = d
<1>1. t \in [Pids -> Processes] /\ Cardinality(Pids) \in Nat /\ Root \in Pids /\ Root # Outside
  BY TablesAre, PidsAreFinite DEF Outside
<1>2. ASSUME NEW i \in Nat, NEW j \in Nat, i < j, Ancestor(t, p, i) = Root PROVE Ancestor(t, p, j) # Root
  <2>1. Ancestor(t, p, i + 1) = Outside
    BY <1>1, <1>2, TablesAre, AncestorNext
  <2> DEFINE k == i + 1
             n == j - k
  <2>2. k \in Nat /\ n \in Nat /\ k + n = j
    BY <1>2
  <2>3. Ancestor(t, p, k) = Outside
    BY <2>1
  <2> HIDE DEF k, n
  <2>4. Ancestor(t, Ancestor(t, p, k), n) = Ancestor(t, p, k + n)
    BY <1>1, <2>2, AncestorOn
  <2>5. Ancestor(t, Outside, n) = Outside
    BY <1>1, <2>2, NoAncestors
  <2> QED
    BY <1>1, <2>2, <2>3, <2>4, <2>5
<1>3. ASSUME NEW k \in Nat, Ancestor(t, p, k) = Root PROVE k = d
  <2>1. ~(k < d) /\ ~(d < k)
    BY <1>2, <1>3
  <2> QED
    BY <2>1
<1>4. d < Cardinality(Pids)
  <2> DEFINE c == Cardinality(Pids)
             n == d - c
  <2> SUFFICES ASSUME ~(d < c) PROVE FALSE
    OBVIOUS
  <2>1. n \in Nat /\ c \in Nat /\ c + n = d /\ Ancestor(t, p, c) = Outside
    BY <1>1, TablesAre
  <2> HIDE DEF n, c
  <2>2. Ancestor(t, Ancestor(t, p, c), n) = Ancestor(t, p, c + n)
    BY <1>1, <2>1, AncestorOn
  <2>3. Ancestor(t, Outside, n) = Outside
    BY <1>1, <2>1, NoAncestors
  <2> QED
    BY <1>1, <2>1, <2>2, <2>3
<1>5. ASSUME p # Root PROVE d \in Depths /\ Descends(t, p) /\ Depth(t, p) = d
  <2>1. d # 0
    BY <1>1, <1>5, AncestorNext
  <2>2. d \in Depths /\ Depths \subseteq Nat
    BY <1>1, <1>4, <2>1 DEF Depths
  <2> QED
    BY <1>3, <2>2 DEF Descends, Depth
<1> QED
  BY <1>3, <1>4, <1>5
-----------------------------------------------------------------------------
(* What a sequence contains.                                               *)

In(x, s) == \E i \in 1..Len(s) : s[i] = x
Distinct(s) == \A i, j \in 1..Len(s) : s[i] = s[j] => i = j

\* One element more.
LEMMA AppendIs ==
    ASSUME NEW S, NEW s \in Seq(S), NEW x \in S
    PROVE  /\ Append(s, x) \in Seq(S)
           /\ \A y : In(y, Append(s, x)) <=> In(y, s) \/ y = x
           /\ Distinct(s) /\ ~In(x, s) => Distinct(Append(s, x))
<1> DEFINE t == Append(s, x)
           n == Len(s)
<1>1. /\ n \in Nat /\ t \in Seq(S) /\ Len(t) = n + 1
      /\ \A i \in 1..n : t[i] = s[i]
      /\ t[n + 1] = x
  BY AppendProperties
<1> HIDE DEF t, n
<1>2. ASSUME NEW y PROVE In(y, t) <=> In(y, s) \/ y = x
  <2>1. 1..(n + 1) = 1..n \cup {n + 1}
    BY <1>1
  <2> QED
    BY <1>1, <2>1 DEF In, n
<1>3. ASSUME Distinct(s), ~In(x, s) PROVE Distinct(t)
  <2> SUFFICES ASSUME NEW i \in 1..(n + 1), NEW j \in 1..(n + 1), t[i] = t[j] PROVE i = j
    BY <1>1 DEF Distinct
  <2>1. (i = n + 1 \/ i \in 1..n) /\ (j = n + 1 \/ j \in 1..n)
    BY <1>1
  <2>2. ASSUME NEW k \in 1..n PROVE s[k] # x
    BY <1>3 DEF In, n
  <2> QED
    BY <1>1, <1>3, <2>1, <2>2 DEF Distinct, n
<1> QED
  BY <1>1, <1>2, <1>3 DEF t

\* Without the first one.
LEMMA TailIs ==
    ASSUME NEW S, NEW s \in Seq(S), s # <<>>
    PROVE  /\ Head(s) \in S /\ Tail(s) \in Seq(S)
           /\ Len(s) \in Nat \ {0} /\ Len(Tail(s)) = Len(s) - 1 /\ Head(s) = s[1]
           /\ \A i \in 1..(Len(s) - 1) : Tail(s)[i] = s[i + 1]
           /\ \A y : In(y, s) <=> y = Head(s) \/ In(y, Tail(s))
           /\ Distinct(s) => Distinct(Tail(s)) /\ ~In(Head(s), Tail(s))
<1> DEFINE t == Tail(s)
           n == Len(s)
<1>1. /\ n \in Nat \ {0} /\ t \in Seq(S) /\ Len(t) = n - 1 /\ Head(s) = s[1] /\ s[1] \in S
      /\ \A i \in 1..(n - 1) : t[i] = s[i + 1]
  BY HeadTailProperties, EmptySeq
<1> HIDE DEF t, n
<1>2. ASSUME NEW y PROVE In(y, s) <=> y = s[1] \/ In(y, t)
  <2>1. ASSUME In(y, s) PROVE y = s[1] \/ In(y, t)
    <3>1. PICK i \in 1..n : s[i] = y
      BY <2>1 DEF In, n
    <3>2. i = 1 \/ (i - 1 \in 1..(n - 1) /\ (i - 1) + 1 = i)
      BY <1>1
    <3> QED
      BY <1>1, <3>1, <3>2 DEF In
  <2>2. ASSUME y = s[1] \/ In(y, t) PROVE In(y, s)
    <3>1. CASE y = s[1]
      BY <1>1, <3>1 DEF In, n
    <3>2. CASE In(y, t)
      <4>1. PICK i \in 1..(n - 1) : t[i] = y
        BY <1>1, <3>2 DEF In
      <4>2. i + 1 \in 1..n /\ s[i + 1] = y
        BY <1>1, <4>1
      <4> QED
        BY <4>2 DEF In, n
    <3> QED
      BY <2>2, <3>1, <3>2
  <2> QED
    BY <2>1, <2>2
<1>3. ASSUME Distinct(s) PROVE Distinct(t) /\ ~In(s[1], t)
  <2>1. \A i \in 1..(n - 1) : i + 1 \in 1..n /\ i + 1 # 1 /\ t[i] = s[i + 1]
    BY <1>1
  <2>2. \A i, j \in 1..n : s[i] = s[j] => i = j
    BY <1>3 DEF Distinct, n
  <2>3. ~In(s[1], t)
    BY <1>1, <2>1, <2>2 DEF In
  <2>4. ASSUME NEW i \in 1..(n - 1), NEW j \in 1..(n - 1), t[i] = t[j] PROVE i = j
    <3>1. i + 1 = j + 1
      BY <2>1, <2>2, <2>4
    <3> QED
      BY <1>1, <3>1
  <2> QED
    BY <1>1, <2>3, <2>4 DEF Distinct
<1> QED
  BY <1>1, <1>2, <1>3 DEF t, n

\* One sequence after the other.
LEMMA ConcatIs ==
    ASSUME NEW S, NEW s \in Seq(S), NEW t \in Seq(S)
    PROVE  /\ s \o t \in Seq(S) /\ Len(s \o t) = Len(s) + Len(t)
           /\ \A i \in 1..Len(s) : (s \o t)[i] = s[i]
           /\ \A i \in 1..Len(t) : (s \o t)[Len(s) + i] = t[i]
           /\ \A y : In(y, s) \/ In(y, t) => In(y, s \o t)
<1>1. /\ s \o t \in Seq(S) /\ Len(s \o t) = Len(s) + Len(t) /\ Len(s) \in Nat /\ Len(t) \in Nat
      /\ \A i \in 1..(Len(s) + Len(t)) :
             (s \o t)[i] = IF i <= Len(s) THEN s[i] ELSE t[i - Len(s)]
  BY ConcatProperties
<1>2. \A i \in 1..Len(s) : i \in 1..(Len(s) + Len(t)) /\ i <= Len(s)
  BY <1>1
<1>3. \A i \in 1..Len(t) : /\ Len(s) + i \in 1..(Len(s) + Len(t))
                          /\ ~(Len(s) + i <= Len(s)) /\ (Len(s) + i) - Len(s) = i
  BY <1>1
<1> QED
  BY <1>1, <1>2, <1>3 DEF In

\* os.ReadDir lists the processes that are there, each once.
LEMMA ExistingAre ==
    /\ Existing \in Seq(Pids) /\ Distinct(Existing)
    /\ \A p \in Pids : In(p, Existing) <=> Exists(proc, p)
<1> DEFINE n == Len(DirOrder)
           S == Seq(Pids)
           More(s, i) == IF Exists(proc, DirOrder[i]) THEN Append(s, DirOrder[i]) ELSE s
           next == [i \in 1..n |-> [s \in S |-> More(s, i)]]
           Up(f) == [i \in 0..n |-> IF i = 0 THEN <<>>
                                    ELSE IF Exists(proc, DirOrder[i]) THEN Append(f[i - 1], DirOrder[i])
                                    ELSE f[i - 1]]
           upTo == CHOOSE f : f = Up(f)
<1>1. /\ n \in Nat /\ \A i \in 1..n : DirOrder[i] \in Pids
      /\ \A i, j \in 1..n : DirOrder[i] = DirOrder[j] => i = j
      /\ \A p \in Pids : \E i \in 1..n : DirOrder[i] = p
  BY PidsAssumption DEF IsInjective, Range
<1>2. upTo = Up(upTo)
  <2>1. PICK f : Follows(f, n, S, <<>>, next)
    <3>1. \A i \in 1..n : \A s \in S : next[i][s] \in S
      BY <1>1, AppendIs
    <3>2. <<>> \in S
      OBVIOUS
    <3> HIDE DEF n, S, next
    <3> QED
      BY <1>1, <3>1, <3>2, Recursion
  <2>2. f \in [0..n -> S] /\ f[0] = <<>> /\ \A i \in 1..n : f[i] = next[i][f[i - 1]]
    <3> HIDE DEF n, S, next
    <3> QED
      BY <2>1 DEF Follows
  <2>3. ASSUME NEW i \in 1..n PROVE f[i] = More(f[i - 1], i)
    <3>1. i - 1 \in 0..n
      BY <1>1
    <3>2. f[i - 1] \in S
      BY <2>2, <3>1
    <3> QED
      BY <2>2, <3>2
  <2>4. f = Up(f)
    <3>1. ASSUME NEW i \in 0..n PROVE f[i] = Up(f)[i]
      <4>1. i = 0 \/ i \in 1..n
        BY <1>1
      <4> HIDE DEF n
      <4> QED
        BY <2>2, <2>3, <4>1
    <3> QED
      BY <2>2, <3>1
  <2> HIDE DEF Up
  <2> QED
    BY <2>4
<1>3. Existing = upTo[n]
  BY DEF Existing
<1> HIDE DEF upTo, next, n
<1>4. upTo[0] = <<>> /\ \A i \in 1..n : upTo[i] = More(upTo[i - 1], i)
  <2>1. 0 \in 0..n /\ \A i \in 1..n : i \in 0..n /\ i # 0
    BY <1>1
  <2>2. \A i \in 0..n : upTo[i] = Up(upTo)[i]
    BY <1>2
  <2>3. Up(upTo)[0] = <<>>
    BY <2>1
  <2>4. \A i \in 1..n : Up(upTo)[i] = More(upTo[i - 1], i)
    BY <2>1
  <2> HIDE DEF Up
  <2> QED
    BY <2>1, <2>2, <2>3, <2>4
<1> DEFINE Passed(i, p) == \E j \in 1..i : DirOrder[j] = p
           N == {i \in 0..n : /\ upTo[i] \in Seq(Pids) /\ Distinct(upTo[i])
                              /\ \A p \in Pids : In(p, upTo[i]) <=> Passed(i, p) /\ Exists(proc, p)}
<1>5. 0 \in N
  <2>1. <<>> \in Seq(Pids) /\ Len(<<>>) = 0 /\ 1..0 = {} /\ 0 \in 0..n
    BY <1>1
  <2>2. Distinct(<<>>) /\ \A p \in Pids : ~In(p, <<>>) /\ ~Passed(0, p)
    BY <2>1 DEF In, Distinct
  <2> QED
    BY <1>4, <2>1, <2>2
<1>6. ASSUME NEW i \in 1..n, i - 1 \in N PROVE i \in N
  <2> DEFINE s == upTo[i - 1]
             x == DirOrder[i]
  <2>1. /\ s \in Seq(Pids) /\ Distinct(s) /\ x \in Pids /\ i \in 0..n
        /\ \A p \in Pids : In(p, s) <=> Passed(i - 1, p) /\ Exists(proc, p)
    BY <1>1, <1>6
  <2>2. ASSUME NEW p PROVE Passed(i, p) <=> Passed(i - 1, p) \/ p = x
    <3>1. 1..i = 1..(i - 1) \cup {i}
      BY <1>1
    <3> QED
      BY <3>1
  <2>3. ~Passed(i - 1, x)
    BY <1>1
  <2>4. upTo[i] = IF Exists(proc, x) THEN Append(s, x) ELSE s
    BY <1>4
  <2> HIDE DEF s, x, Passed
  <2>5. /\ upTo[i] \in Seq(Pids) /\ Distinct(upTo[i])
        /\ \A p : In(p, upTo[i]) <=> In(p, s) \/ (p = x /\ Exists(proc, x))
    BY <2>1, <2>3, <2>4, AppendIs
  <2> QED
    BY <2>1, <2>2, <2>5
<1> HIDE DEF N
<1>7. \A i \in 0..n : i \in N
  BY <1>1, <1>5, <1>6, Induction
<1>8. n \in N
  BY <1>1, <1>7
<1> QED
  BY <1>1, <1>3, <1>8 DEF N
-----------------------------------------------------------------------------
(* The walks of the tree.                                                  *)

Rows == [pid : Pids, target : BOOLEAN]
RowOf(p) == [pid |-> p, target |-> isTargetProcess(listed[p].cmd)]

TreeType ==
    /\ proc \in [Pids -> Processes] /\ listed \in [Pids -> Processes]
    /\ walk \in {"idle", "ppid", "visit", "resolved", "stat", "row", "listed"}
    /\ wrapped \in BOOLEAN
    /\ entries \in Seq(Pids) /\ queue \in Seq(Pids) /\ childrenOf \in [Pids -> Seq(Pids)]
    /\ resolved \in Pids \cup {Outside} /\ processes \in Seq(Rows) /\ steady \subseteq Pids

Resolving == walk \in {"ppid", "visit"}
Listing == walk \in {"stat", "row", "listed"}

\* What has happened since /proc was listed: a pid that was in use is not used
\* again, and the parent of a process is the one it had or has ended.
HistoryInv ==
    /\ \A p \in steady : proc[p] = listed[p]
    /\ walk = "idle" => childrenOf = NoChildren /\ (wrapped => proc \in Tables)
    /\ Resolving \/ Walked => listed \in Tables
    /\ Resolving => /\ wrapped
                    /\ \A p \in Pids : Exists(listed, p) =>
                           /\ proc[p].state # "free"
                           /\ proc[p].parent \in {listed[p].parent, Outside}

\* The entries that are still to be read.
EntriesInv ==
    Resolving \/ Listing =>
        /\ Distinct(entries) /\ \A p \in Pids : In(p, entries) => Exists(listed, p)
        /\ walk \in {"visit", "listed"} => entries = <<>>
        /\ walk = "row" => entries # <<>>

\* A child was one when /proc was listed; a process that was left in peace is a
\* child of its parent once it has been read.
ChildrenInv ==
    Resolving =>
        /\ \A p, q \in Pids : In(p, childrenOf[q]) => listed[p].parent = q
        /\ \A p \in steady : listed[p].parent # Outside =>
               In(p, entries) \/ In(p, childrenOf[listed[p].parent])

\* p is at depth d, and neither it nor an ancestor below the root was disturbed.
Sought(p, d) ==
    /\ Ancestor(listed, p, d) = Root /\ isTargetProcess(listed[p].cmd)
    /\ \A k \in 0..(d - 1) : Ancestor(listed, p, k) \in steady

\* The queue of a breadth-first search: processes of one depth, then of the next.
\* Of each process that is sought it has an ancestor, or the process itself.
QueueInv ==
    walk = "visit" =>
        /\ \E d, n \in Nat : \A i \in 1..Len(queue) :
               Ancestor(listed, queue[i], IF i <= n THEN d ELSE d + 1) = Root
        /\ \A p \in Pids \ {Root} : \A d \in Nat :
               Sought(p, d) => \E k \in 0..d : In(Ancestor(listed, p, k), queue)

\* The rows that have been made, and the processes that have one.
RowsInv ==
    /\ ~Listing => processes = <<>>
    /\ \A i \in 1..Len(processes) :
           Exists(listed, processes[i].pid) /\ ~In(processes[i].pid, entries)
    /\ \A i, j \in 1..Len(processes) : processes[i].pid = processes[j].pid => i = j
    /\ Listing => \A p \in steady : Exists(listed, p) => In(p, entries) \/ In(RowOf(p), processes)
    /\ walk = "listed" => \A i, j \in 1..Len(processes) :
           i < j => processes[i].pid <= processes[j].pid

TreeInv ==
    /\ TreeType /\ HistoryInv /\ EntriesInv /\ ChildrenInv /\ QueueInv /\ TargetIsResolved
    /\ RowsInv

\* Nothing but what the invariant speaks of.
LEMMA TreeKept == TreeInv /\ UNCHANGED treeVars => TreeInv'
<1> SUFFICES ASSUME TreeInv, UNCHANGED treeVars PROVE TreeInv'
  OBVIOUS
<1> USE DEF treeVars, locals, history, TreeInv
<1>1. TreeType' /\ EntriesInv'
  BY DEF TreeType, EntriesInv, Resolving, Listing, In, Distinct, Exists
<1>2. HistoryInv'
  BY DEF HistoryInv, Resolving, Walked, Exists
<1>3. ChildrenInv'
  BY DEF ChildrenInv, Resolving, In
<1>4. QueueInv'
  BY DEF QueueInv, Sought, In
<1>5. TargetIsResolved'
  BY DEF TargetIsResolved, Walked, Undisturbed
<1>6. RowsInv'
  BY DEF RowsInv, Listing, Exists, In, RowOf
<1> QED
  BY <1>1, <1>2, <1>3, <1>4, <1>5, <1>6

\* What may happen to the processes during a walk.
LEMMA EventsAre ==
    ASSUME TreeType, ProcessEvent
    PROVE  /\ proc' \in [Pids -> Processes]
           /\ \A p \in Pids : proc[p].state # "free" =>
                  proc'[p].state # "free" /\ proc'[p].parent \in {proc[p].parent, Outside}
<1> DEFINE OK(r, q) == /\ q \in Processes
                       /\ r.state # "free" => q.state # "free" /\ q.parent \in {r.parent, Outside}
<1>1. \A p \in Pids : proc[p] \in Processes /\ DOMAIN proc = Pids
  BY DEF TreeType
<1>2. PICK p \in Pids : Execute(p) \/ Exit(p) \/ Reap(p) \/ \E q \in Pids : Fork(p, q)
  BY DEF ProcessEvent
<1>3. DOMAIN proc' = Pids /\ proc' = [q \in DOMAIN proc' |-> proc'[q]]
      /\ \A q \in Pids : OK(proc[q], proc'[q])
  <2>1. CASE Execute(p)
    <3>1. PICK c \in Cmdlines : proc' = [proc EXCEPT ![p].cmd = c]
      BY <2>1 DEF Execute
    <3>2. OK(proc[p], [proc[p] EXCEPT !.cmd = c])
      BY <1>1 DEF Processes, CommandLines
    <3> QED
      BY <1>1, <3>1, <3>2
  <2>2. CASE Exit(p)
    <3>1. OK(proc[p], [proc[p] EXCEPT !.state = "zombie", !.cmd = <<>>])
      BY <1>1 DEF Processes, CommandLines, States
    <3>2. \A q \in Pids : OK(proc[q], [proc[q] EXCEPT !.parent = Outside])
      BY <1>1 DEF Processes
    <3>3. proc' = [q \in Pids |->
                      IF q = p THEN [proc[p] EXCEPT !.state = "zombie", !.cmd = <<>>]
                      ELSE IF proc[q].parent = p THEN [proc[q] EXCEPT !.parent = Outside]
                      ELSE proc[q]]
      BY <2>2 DEF Exit
    <3>4. \A q \in Pids : OK(proc[q], proc[q])
      BY <1>1
    <3> HIDE DEF OK
    <3> QED
      BY <3>1, <3>2, <3>3, <3>4
  <2>3. CASE Reap(p)
    <3>1. OK(proc[p], [Free EXCEPT !.state = "used"])
      BY DEF Processes, CommandLines, States, Free
    <3>2. proc' = [proc EXCEPT ![p] = [Free EXCEPT !.state = "used"]]
      BY <2>3 DEF Reap
    <3> QED
      BY <1>1, <3>1, <3>2
  <2>4. CASE \E q \in Pids : Fork(p, q)
    <3>1. PICK q \in Pids : Fork(p, q)
      BY <2>4
    <3>2. OK(proc[q], Process(p, proc[p].cmd))
      BY <1>1, <3>1 DEF Fork, Process, Processes, States
    <3>3. proc' = [proc EXCEPT ![q] = Process(p, proc[p].cmd)]
      BY <3>1 DEF Fork
    <3> QED
      BY <1>1, <3>2, <3>3
  <2> QED
    BY <1>2, <2>1, <2>2, <2>3, <2>4
<1> QED
  BY <1>3

\* So that the walk knows of no less than it did.
LEMMA EventTreeInv == TreeInv /\ ProcessEvent => TreeInv'
<1> SUFFICES ASSUME TreeInv, ProcessEvent PROVE TreeInv'
  OBVIOUS
<1>1. /\ UNCHANGED <<walk, wrapped, entries, childrenOf, queue, resolved, processes, listed>>
      /\ steady' \subseteq steady /\ \A p \in steady' : proc'[p] = proc[p]
      /\ walk \in {"ppid", "visit", "stat", "row"}
  BY DEF ProcessEvent, locals, Reading
<1>2. /\ proc' \in [Pids -> Processes]
      /\ \A p \in Pids : proc[p].state # "free" =>
             proc'[p].state # "free" /\ proc'[p].parent \in {proc[p].parent, Outside}
  BY EventsAre DEF TreeInv
<1>3. TreeType'
  BY <1>1, <1>2 DEF TreeInv, TreeType
<1>4. HistoryInv'
  BY <1>1, <1>2 DEF TreeInv, HistoryInv, Resolving, Walked, Exists
<1>5. EntriesInv'
  BY <1>1 DEF TreeInv, EntriesInv, Resolving, Listing, In, Distinct, Exists
<1>6. ChildrenInv'
  BY <1>1 DEF TreeInv, ChildrenInv, Resolving, In
<1>7. QueueInv'
  <2>1. ASSUME NEW p, NEW d PROVE Sought(p, d)' => Sought(p, d)
    BY <1>1 DEF Sought
  <2> QED
    BY <1>1, <2>1 DEF TreeInv, QueueInv, In
<1>8. TargetIsResolved'
  BY <1>1 DEF TargetIsResolved, Walked
<1>9. RowsInv'
  BY <1>1 DEF TreeInv, RowsInv, Listing, Exists, In, RowOf
<1> QED
  BY <1>3, <1>4, <1>5, <1>6, <1>7, <1>8, <1>9 DEF TreeInv

\* The walk of resolveTargetPID begins.
LEMMA BeginTreeInv == TreeInv /\ ResolveTargetPID => TreeInv'
<1> SUFFICES ASSUME TreeInv, ResolveTargetPID PROVE TreeInv'
  OBVIOUS
<1>1. /\ walk = "idle" /\ processes = <<>>
      /\ UNCHANGED <<proc, events, wrapped, childrenOf, queue, processes>>
  BY DEF ResolveTargetPID, TreeInv, RowsInv, Listing
<1>2. CASE wrapped /\ walk' = "ppid" /\ ReadDir /\ UNCHANGED resolved
  <2>1. /\ entries' \in Seq(Pids) /\ Distinct(entries') /\ listed' = proc /\ steady' = Pids
        /\ \A p \in Pids : In(p, entries') <=> Exists(proc, p)
    BY <1>2, ExistingAre DEF ReadDir
  <2>2. proc \in Tables /\ childrenOf = NoChildren /\ proc \in [Pids -> Processes]
    BY <1>1, <1>2 DEF TreeInv, HistoryInv, TreeType
  <2>3. TreeType'
    BY <1>1, <1>2, <2>1 DEF TreeInv, TreeType
  <2>4. HistoryInv'
    BY <1>1, <1>2, <2>1, <2>2 DEF HistoryInv, Resolving, Walked, Exists
  <2>5. EntriesInv'
    BY <1>2, <2>1 DEF EntriesInv, Exists
  <2>6. ChildrenInv'
    <3>1. \A p, q \in Pids : ~In(p, childrenOf'[q])
      BY <1>1, <2>2 DEF NoChildren, In
    <3>2. \A p \in Pids : proc[p].parent # Outside => In(p, entries')
      BY <2>1, <2>2, TablesAre
    <3> QED
      BY <2>1, <3>1, <3>2 DEF ChildrenInv
  <2>7. QueueInv' /\ TargetIsResolved'
    BY <1>2 DEF QueueInv, TargetIsResolved, Walked
  <2>8. RowsInv'
    BY <1>1, <1>2 DEF RowsInv, Listing
  <2> QED
    BY <2>3, <2>4, <2>5, <2>6, <2>7, <2>8 DEF TreeInv
<1>3. CASE ~wrapped /\ walk' = "resolved" /\ resolved' = Root /\ UNCHANGED <<entries, history>>
  <2>1. TreeType'
    BY <1>1, <1>3, PidsAreFinite DEF TreeInv, TreeType, history
  <2>2. HistoryInv' /\ EntriesInv' /\ ChildrenInv' /\ QueueInv' /\ TargetIsResolved'
    BY <1>1, <1>3 DEF TreeInv, HistoryInv, EntriesInv, ChildrenInv, QueueInv, TargetIsResolved,
                      Resolving, Listing, Walked, history
  <2>3. RowsInv'
    BY <1>1, <1>3 DEF RowsInv, Listing
  <2> QED
    BY <2>1, <2>2, <2>3 DEF TreeInv
<1> QED
  BY <1>2, <1>3 DEF ResolveTargetPID

\* An entry is read: the process is a child of the parent it has now.
LEMMA ReadTreeInv == TreeInv /\ ReadPPID => TreeInv'
<1> SUFFICES ASSUME TreeInv, ReadPPID PROVE TreeInv'
  OBVIOUS
<1> DEFINE p == Head(entries)
           ppid == proc[p].parent
<1>1. /\ walk = "ppid" /\ entries # <<>> /\ entries' = Tail(entries) /\ processes = <<>>
      /\ UNCHANGED <<proc, events, walk, wrapped, queue, resolved, processes, listed, steady>>
      /\ childrenOf' = IF Exists(proc, p) /\ ppid # Outside
                       THEN [childrenOf EXCEPT ![ppid] = Append(@, p)] ELSE childrenOf
  BY DEF ReadPPID, history, TreeInv, RowsInv, Listing
<1>2. /\ p \in Pids /\ entries' \in Seq(Pids) /\ Distinct(entries')
      /\ \A q : In(q, entries) <=> q = p \/ In(q, entries')
  BY <1>1, TailIs DEF TreeInv, TreeType, EntriesInv, Resolving
<1>3. Exists(listed, p)
  BY <1>1, <1>2 DEF TreeInv, EntriesInv, Resolving
<1>4. ppid \in {listed[p].parent, Outside} /\ listed[p].parent \in Pids \cup {Outside}
  BY <1>1, <1>2, <1>3 DEF TreeInv, HistoryInv, TreeType, Resolving, Processes
<1>5. childrenOf \in [Pids -> Seq(Pids)] /\ listed \in Tables /\ steady \subseteq Pids
  BY <1>1 DEF TreeInv, TreeType, HistoryInv, Resolving
<1> HIDE DEF p, ppid
<1>6. /\ childrenOf' \in [Pids -> Seq(Pids)]
      /\ \A q \in Pids, c \in Pids :
             In(c, childrenOf'[q]) <=>
                 \/ In(c, childrenOf[q])
                 \/ c = p /\ q = ppid /\ Exists(proc, p) /\ ppid # Outside
  <2>1. CASE Exists(proc, p) /\ ppid # Outside
    <3>1. ppid \in Pids
      BY <1>4, <2>1
    <3>2. childrenOf' = [childrenOf EXCEPT ![ppid] = Append(childrenOf[ppid], p)]
      BY <1>1, <2>1
    <3>3. /\ Append(childrenOf[ppid], p) \in Seq(Pids)
          /\ \A c : In(c, Append(childrenOf[ppid], p)) <=> In(c, childrenOf[ppid]) \/ c = p
      BY <1>2, <1>5, <3>1, AppendIs
    <3> QED
      BY <1>5, <2>1, <3>1, <3>2, <3>3
  <2>2. CASE ~(Exists(proc, p) /\ ppid # Outside)
    BY <1>1, <1>5, <2>2
  <2> QED
    BY <2>1, <2>2
<1>7. TreeType'
  BY <1>1, <1>2, <1>6 DEF TreeInv, TreeType
<1>8. HistoryInv'
  BY <1>1 DEF TreeInv, HistoryInv, Resolving, Walked, Exists
<1>9. EntriesInv'
  BY <1>1, <1>2 DEF TreeInv, EntriesInv, Resolving, Exists
<1>10. ChildrenInv'
  <2>1. ASSUME NEW c \in Pids, NEW q \in Pids, In(c, childrenOf'[q]) PROVE listed[c].parent = q
    <3>1. CASE In(c, childrenOf[q])
      BY <1>1, <3>1 DEF TreeInv, ChildrenInv, Resolving
    <3>2. CASE c = p /\ q = ppid /\ ppid # Outside
      BY <1>4, <3>2
    <3> QED
      BY <1>6, <2>1, <3>1, <3>2
  <2>2. ASSUME NEW c \in steady, listed[c].parent # Outside
        PROVE  In(c, entries') \/ In(c, childrenOf'[listed[c].parent])
    <3>1. c \in Pids /\ listed[c].parent \in Pids
      BY <1>5, <2>2 DEF TreeInv, TreeType, Processes
    <3>2. CASE c = p
      <4>1. proc[p] = listed[p]
        BY <3>2, <2>2 DEF TreeInv, HistoryInv
      <4>2. Exists(proc, p) /\ ppid = listed[p].parent
        BY <1>3, <4>1 DEF Exists, ppid
      <4> QED
        BY <1>6, <2>2, <3>1, <3>2, <4>2
    <3>3. CASE c # p
      <4>1. In(c, entries) \/ In(c, childrenOf[listed[c].parent])
        BY <1>1, <2>2 DEF TreeInv, ChildrenInv, Resolving
      <4> QED
        BY <1>2, <1>6, <3>1, <3>3, <4>1
    <3> QED
      BY <3>2, <3>3
  <2> QED
    BY <1>1, <2>1, <2>2 DEF ChildrenInv
<1>11. QueueInv' /\ TargetIsResolved'
  BY <1>1 DEF QueueInv, TargetIsResolved, Walked
<1>12. RowsInv'
  BY <1>1 DEF RowsInv, Listing
<1> QED
  BY <1>7, <1>8, <1>9, <1>10, <1>11, <1>12 DEF TreeInv

\* The search begins at the root, an ancestor of all that is sought.
LEMMA SearchTreeInv == TreeInv /\ StartSearch => TreeInv'
<1> SUFFICES ASSUME TreeInv, StartSearch PROVE TreeInv'
  OBVIOUS
<1>1. /\ walk = "ppid" /\ entries = <<>> /\ queue' = <<Root>> /\ walk' = "visit" /\ processes = <<>>
      /\ UNCHANGED <<proc, events, wrapped, entries, childrenOf, resolved, processes, listed, steady>>
  BY DEF StartSearch, history, TreeInv, RowsInv, Listing
<1>2. Root \in Pids /\ listed \in [Pids -> Processes]
  BY PidsAreFinite DEF TreeInv, TreeType
<1>3. TreeType'
  BY <1>1, <1>2 DEF TreeInv, TreeType
<1>4. HistoryInv'
  BY <1>1 DEF TreeInv, HistoryInv, Resolving, Walked, Exists
<1>5. EntriesInv'
  BY <1>1 DEF TreeInv, EntriesInv, Resolving, Exists
<1>6. ChildrenInv'
  BY <1>1 DEF TreeInv, ChildrenInv, Resolving
<1>7. QueueInv'
  <2>1. Len(queue') = 1 /\ queue'[1] = Root /\ In(Root, queue')
    BY <1>1 DEF In
  <2>2. Ancestor(listed, Root, 0) = Root
    BY <1>2, AncestorNext
  <2>3. \A i \in 1..Len(queue') : Ancestor(listed', queue'[i], IF i <= 1 THEN 0 ELSE 0 + 1) = Root
    BY <1>1, <2>1, <2>2
  <2>4. ASSUME NEW p \in Pids, NEW d \in Nat, Sought(p, d)'
        PROVE  \E k \in 0..d : In(Ancestor(listed', p, k), queue')
    BY <1>1, <2>1, <2>4 DEF Sought
  <2> QED
    BY <2>3, <2>4 DEF QueueInv
<1>8. TargetIsResolved'
  BY <1>1 DEF TargetIsResolved, Walked
<1>9. RowsInv'
  BY <1>1 DEF RowsInv, Listing
<1> QED
  BY <1>3, <1>4, <1>5, <1>6, <1>7, <1>8, <1>9 DEF TreeInv

\* The first of the queue is what was sought, and the nearest.
LEMMA FoundTreeInv ==
    ASSUME TreeInv, walk = "visit", queue # <<>>, Head(queue) # Root
    PROVE  /\ Descends(listed, Head(queue))
           /\ \A q \in Pids \ {Root} :
                  Descends(listed, q) /\ isTargetProcess(listed[q].cmd) /\ Undisturbed(q) =>
                      Depth(listed, Head(queue)) <= Depth(listed, q)
<1> DEFINE p == Head(queue)
<1>1. /\ listed \in Tables /\ listed \in [Pids -> Processes] /\ queue \in Seq(Pids)
      /\ p \in Pids /\ Len(queue) \in Nat \ {0} /\ p = queue[1]
  BY TailIs DEF TreeInv, TreeType, HistoryInv, Resolving
<1>2. PICK d \in Nat, n \in Nat : \A i \in 1..Len(queue) :
          Ancestor(listed, queue[i], IF i <= n THEN d ELSE d + 1) = Root
  BY DEF TreeInv, QueueInv
<1> DEFINE DepthAt(i) == IF i <= n THEN d ELSE d + 1
<1>3. DepthAt(1) \in Nat /\ Ancestor(listed, p, DepthAt(1)) = Root /\ \A i \in 1..Len(queue) : DepthAt(1) <= DepthAt(i)
  BY <1>1, <1>2
<1> HIDE DEF p
<1>4. Descends(listed, p) /\ Depth(listed, p) = DepthAt(1)
  <2> HIDE DEF DepthAt
  <2> QED
    BY <1>1, <1>3, DepthIs DEF p
<1>5. ASSUME NEW q \in Pids \ {Root}, Descends(listed, q), isTargetProcess(listed[q].cmd), Undisturbed(q)
      PROVE  DepthAt(1) <= Depth(listed, q)
  <2> DEFINE e == Depth(listed, q)
  <2>1. e \in Nat /\ Ancestor(listed, q, e) = Root
    BY <1>5, PidsAreFinite DEF Descends, Depth, Depths
  <2>2. \A k \in 0..(e - 1) : Ancestor(listed, q, k) \in steady
    BY <1>5 DEF Undisturbed
  <2> HIDE DEF e
  <2>3. PICK k \in 0..e : In(Ancestor(listed, q, k), queue)
    BY <1>5, <2>1, <2>2 DEF Sought, TreeInv, QueueInv
  <2>4. PICK i \in 1..Len(queue) : queue[i] = Ancestor(listed, q, k)
    BY <2>3 DEF In
  <2> DEFINE a == Ancestor(listed, q, k)
             r == e - k
  <2>5. a \in Pids /\ Ancestor(listed, a, DepthAt(i)) = Root /\ DepthAt(i) \in Nat
    BY <1>1, <1>2, <2>4
  <2>6. r \in Nat /\ k \in Nat /\ k + r = e /\ r <= e
    BY <2>1
  <2> HIDE DEF r, DepthAt
  <2>7. Ancestor(listed, a, r) = Root
    <3>1. Ancestor(listed, Ancestor(listed, q, k), r) = Ancestor(listed, q, k + r)
      BY <1>1, <2>6, AncestorOn
    <3> QED
      BY <2>1, <2>6, <3>1
  <2> HIDE DEF a
  <2>8. r = DepthAt(i)
    BY <1>1, <2>5, <2>6, <2>7, DepthIs
  <2>9. DepthAt(1) <= DepthAt(i) /\ DepthAt(1) \in Nat
    BY <1>3
  <2> QED
    BY <2>1, <2>6, <2>8, <2>9 DEF e
<1> QED
  BY <1>4, <1>5 DEF p

\* The first of the queue gives way to its children.
LEMMA PassedQueueInv ==
    ASSUME TreeInv, walk = "visit", queue # <<>>,
           ~(Head(queue) # Root /\ isTargetProcess(proc[Head(queue)].cmd)),
           NEW rest, rest = Tail(queue) \o childrenOf[Head(queue)]
    PROVE  /\ rest \in Seq(Pids)
           /\ \E d, n \in Nat : \A i \in 1..Len(rest) :
                  Ancestor(listed, rest[i], IF i <= n THEN d ELSE d + 1) = Root
           /\ \A q \in Pids \ {Root} : \A d \in Nat :
                  Sought(q, d) => \E k \in 0..d : In(Ancestor(listed, q, k), rest)
<1> DEFINE p == Head(queue)
           t == Tail(queue)
           c == childrenOf[p]
           l == Len(queue)
<1>1. /\ listed \in Tables /\ listed \in [Pids -> Processes] /\ queue \in Seq(Pids)
      /\ p \in Pids /\ t \in Seq(Pids) /\ l \in Nat \ {0} /\ Len(t) = l - 1 /\ p = queue[1]
      /\ \A i \in 1..(l - 1) : t[i] = queue[i + 1]
      /\ \A y : In(y, queue) <=> y = p \/ In(y, t)
  BY TailIs DEF TreeInv, TreeType, HistoryInv, Resolving
<1>2. c \in Seq(Pids)
  BY <1>1 DEF TreeInv, TreeType
<1> HIDE DEF t, c, l
<1>3. /\ rest = t \o c
      /\ rest \in Seq(Pids) /\ Len(rest) = Len(t) + Len(c)
      /\ \A i \in 1..Len(t) : rest[i] = t[i]
      /\ \A i \in 1..Len(c) : rest[Len(t) + i] = c[i]
      /\ \A y : In(y, t) \/ In(y, c) => In(y, rest)
  <2>1. rest = t \o c
    BY DEF t, c
  <2>2. /\ t \o c \in Seq(Pids) /\ Len(t \o c) = Len(t) + Len(c)
        /\ \A i \in 1..Len(t) : (t \o c)[i] = t[i]
        /\ \A i \in 1..Len(c) : (t \o c)[Len(t) + i] = c[i]
        /\ \A y : In(y, t) \/ In(y, c) => In(y, t \o c)
    BY <1>1, <1>2, ConcatIs
  <2> QED
    BY <2>1, <2>2
<1> HIDE DEF p
<1>4. \E d \in Nat : \E n \in 1..l :
          \A i \in 1..l : Ancestor(listed, queue[i], IF i <= n THEN d ELSE d + 1) = Root
  <2>1. PICK d \in Nat, n \in Nat : \A i \in 1..l :
            Ancestor(listed, queue[i], IF i <= n THEN d ELSE d + 1) = Root
    BY DEF TreeInv, QueueInv, l
  <2>2. CASE n = 0
    <3>1. \A i \in 1..l : i <= l /\ ~(i <= n)
      BY <1>1, <2>2
    <3>2. \A i \in 1..l : Ancestor(listed, queue[i], IF i <= l THEN d + 1 ELSE (d + 1) + 1) = Root
      BY <2>1, <3>1
    <3>3. d + 1 \in Nat /\ l \in 1..l
      BY <1>1
    <3> QED
      BY <3>2, <3>3
  <2>3. CASE n # 0
    <3> DEFINE m == IF n <= l THEN n ELSE l
    <3>1. m \in 1..l /\ \A i \in 1..l : i <= m <=> i <= n
      BY <1>1, <2>3
    <3> HIDE DEF m
    <3>2. \A i \in 1..l : Ancestor(listed, queue[i], IF i <= m THEN d ELSE d + 1) = Root
      BY <2>1, <3>1
    <3> QED
      BY <3>1, <3>2
  <2> QED
    BY <2>2, <2>3
<1>5. PICK d \in Nat, n \in 1..l :
          \A i \in 1..l : Ancestor(listed, queue[i], IF i <= n THEN d ELSE d + 1) = Root
  BY <1>4
<1>6. ASSUME NEW i \in 1..Len(c) PROVE Ancestor(listed, c[i], d + 1) = Root
  <2> DEFINE x == c[i]
  <2>1. x \in Pids /\ In(x, c)
    BY <1>2 DEF In
  <2> HIDE DEF x
  <2>2. listed[x].parent = p
    BY <1>1, <2>1 DEF TreeInv, ChildrenInv, Resolving, c
  <2>3. Ancestor(listed, p, d) = Root
    <3>1. 1 \in 1..l /\ 1 <= n
      BY <1>1
    <3> QED
      BY <1>1, <1>5, <3>1
  <2>4. Ancestor(listed, x, 0) = x /\ x # Outside
    BY <1>1, <2>1, AncestorNext, PidsAreFinite DEF Outside
  <2>5. Ancestor(listed, x, 1) = p
    <3> DEFINE z == 0
    <3>1. z \in Nat /\ z + 1 = 1 /\ Ancestor(listed, x, z) = x
      BY <2>4
    <3> HIDE DEF z
    <3>2. x \in Pids \cup {Outside} /\ z \in Nat /\ listed \in [Pids -> Processes]
      BY <1>1, <2>1, <3>1
    <3>3. Ancestor(listed, x, z + 1) = IF Ancestor(listed, x, z) = Outside THEN Outside
                                       ELSE listed[Ancestor(listed, x, z)].parent
      BY <3>2, AncestorNext, Zenon
    <3> QED
      BY <2>2, <2>4, <3>1, <3>3
  <2>6. Ancestor(listed, Ancestor(listed, x, 1), d) = Ancestor(listed, x, 1 + d)
    BY <1>1, <2>1, AncestorOn, SMTT(30)
  <2> QED
    BY <2>3, <2>5, <2>6 DEF x
<1>7. \A i \in 1..Len(rest) : Ancestor(listed, rest[i], IF i <= n - 1 THEN d ELSE d + 1) = Root
  <2> SUFFICES ASSUME NEW i \in 1..Len(rest)
               PROVE  Ancestor(listed, rest[i], IF i <= n - 1 THEN d ELSE d + 1) = Root
    OBVIOUS
  <2>0. Len(c) \in Nat /\ Len(t) \in Nat
    BY <1>1, <1>2
  <2>1. CASE i \in 1..Len(t)
    <3>1. /\ rest[i] = queue[i + 1] /\ i + 1 \in 1..l /\ (i + 1 <= n <=> i <= n - 1)
      BY <1>1, <1>3, <2>1
    <3> QED
      BY <1>5, <3>1
  <2>2. CASE i \notin 1..Len(t)
    <3> DEFINE j == i - Len(t)
    <3>1. j \in 1..Len(c) /\ Len(t) + j = i /\ ~(i <= n - 1)
      BY <1>1, <1>3, <2>0, <2>2
    <3> HIDE DEF j
    <3>2. rest[i] = c[j]
      BY <1>3, <3>1
    <3> QED
      BY <1>6, <3>1, <3>2
  <2> QED
    BY <2>1, <2>2
<1>8. ASSUME NEW q \in Pids \ {Root}, NEW e \in Nat, Sought(q, e)
      PROVE  \E k \in 0..e : In(Ancestor(listed, q, k), rest)
  <2>1. PICK k \in 0..e : In(Ancestor(listed, q, k), queue)
    BY <1>8 DEF TreeInv, QueueInv
  <2>2. Ancestor(listed, q, 0) = q
    BY <1>1, AncestorNext
  <2>3. CASE In(Ancestor(listed, q, k), t)
    BY <1>3, <2>3
  <2>4. CASE Ancestor(listed, q, k) = p
    <3>1. k # 0
      <4> SUFFICES ASSUME k = 0 PROVE FALSE
        OBVIOUS
      <4>1. p = q /\ isTargetProcess(listed[p].cmd)
        BY <1>8, <2>2, <2>4 DEF Sought
      <4>2. e # 0 /\ 0 \in 0..(e - 1)
        BY <1>8, <2>2 DEF Sought
      <4>3. proc[p] = listed[p]
        BY <1>8, <2>2, <4>1, <4>2 DEF Sought, TreeInv, HistoryInv
      <4> QED
        BY <4>1, <4>3 DEF p
    <3> DEFINE j == k - 1
               x == Ancestor(listed, q, j)
    <3>2. j \in Nat /\ j \in 0..(e - 1) /\ j \in 0..e /\ j + 1 = k
      BY <3>1
    <3> HIDE DEF j
    <3>3. x \in steady /\ x \in Pids /\ x # Outside
      BY <1>8, <3>2, PidsAreFinite DEF Sought, TreeInv, TreeType, Outside
    <3>4. listed[x].parent = p
      <4>1. Ancestor(listed, q, j + 1) = IF Ancestor(listed, q, j) = Outside THEN Outside
                                         ELSE listed[Ancestor(listed, q, j)].parent
        <5>1. q \in Pids \cup {Outside} /\ j \in Nat /\ listed \in [Pids -> Processes]
          BY <1>1, <3>2
        <5> QED
          BY <5>1, AncestorNext, Zenon
      <4> QED
        BY <2>4, <3>2, <3>3, <4>1
    <3> HIDE DEF x
    <3>5. In(x, c)
      <4>1. entries = <<>> /\ ~In(x, entries)
        BY DEF TreeInv, EntriesInv, Resolving, In
      <4>2. p # Outside
        BY <1>1, PidsAreFinite DEF Outside
      <4> QED
        BY <3>3, <3>4, <4>1, <4>2 DEF TreeInv, ChildrenInv, Resolving, c
    <3> QED
      BY <1>3, <3>2, <3>5 DEF x
  <2> QED
    BY <1>1, <2>1, <2>3, <2>4
<1>9. n - 1 \in Nat
  OBVIOUS
<1> QED
  BY <1>3, <1>7, <1>8, <1>9

\* A process of the queue is looked at.
LEMMA VisitTreeInv == TreeInv /\ Visit => TreeInv'
<1> SUFFICES ASSUME TreeInv, Visit PROVE TreeInv'
  OBVIOUS
<1> DEFINE p == Head(queue)
           found == p # Root /\ isTargetProcess(proc[p].cmd)
<1>1. /\ walk = "visit" /\ queue # <<>> /\ processes = <<>>
      /\ UNCHANGED <<proc, events, wrapped, entries, childrenOf, processes, listed, steady>>
      /\ IF found THEN walk' = "resolved" /\ resolved' = p /\ queue' = queue
         ELSE queue' = Tail(queue) \o childrenOf[p] /\ walk' = walk /\ resolved' = resolved
  BY DEF Visit, history, TreeInv, RowsInv, Listing
<1>2. p \in Pids
  BY <1>1, TailIs DEF TreeInv, TreeType
<1>3. RowsInv'
  BY <1>1 DEF RowsInv, Listing
<1>4. CASE found
  <2>1. walk' = "resolved" /\ resolved' = p /\ queue' = queue /\ p # Root
    BY <1>1, <1>4
  <2>2. TreeType' /\ EntriesInv' /\ ChildrenInv' /\ QueueInv'
    BY <1>1, <1>2, <2>1 DEF TreeInv, TreeType, EntriesInv, ChildrenInv, QueueInv, Resolving, Listing
  <2>3. HistoryInv'
    BY <1>1, <2>1 DEF TreeInv, HistoryInv, Resolving, Walked
  <2>4. TargetIsResolved'
    <3>1. /\ Descends(listed, p)
          /\ \A q \in Pids \ {Root} :
                 Descends(listed, q) /\ isTargetProcess(listed[q].cmd) /\ Undisturbed(q) =>
                     Depth(listed, p) <= Depth(listed, q)
      BY <1>1, <2>1, FoundTreeInv
    <3> QED
      BY <1>1, <2>1, <3>1 DEF TargetIsResolved, Undisturbed
  <2> QED
    BY <1>3, <2>2, <2>3, <2>4 DEF TreeInv
<1>5. CASE ~found
  <2>1. queue' = Tail(queue) \o childrenOf[p] /\ walk' = walk /\ resolved' = resolved
    BY <1>1, <1>5
  <2>2. /\ queue' \in Seq(Pids)
        /\ \E d, n \in Nat : \A i \in 1..Len(queue') :
               Ancestor(listed, queue'[i], IF i <= n THEN d ELSE d + 1) = Root
        /\ \A q \in Pids \ {Root} : \A d \in Nat :
               Sought(q, d) => \E k \in 0..d : In(Ancestor(listed, q, k), queue')
    BY <1>1, <1>5, <2>1, PassedQueueInv
  <2>3. TreeType'
    BY <1>1, <2>1, <2>2 DEF TreeInv, TreeType
  <2>4. HistoryInv' /\ EntriesInv' /\ ChildrenInv' /\ TargetIsResolved'
    BY <1>1, <2>1 DEF TreeInv, HistoryInv, EntriesInv, ChildrenInv, TargetIsResolved,
                      Resolving, Listing, Walked, Exists
  <2>5. QueueInv'
    BY <1>1, <2>2 DEF QueueInv, Sought
  <2> QED
    BY <1>3, <2>3, <2>4, <2>5 DEF TreeInv
<1> QED
  BY <1>4, <1>5

\* The queue is empty, and so there was nothing to be found.
LEMMA NotFoundTreeInv == TreeInv /\ NotFound => TreeInv'
<1> SUFFICES ASSUME TreeInv, NotFound PROVE TreeInv'
  OBVIOUS
<1>1. /\ walk = "visit" /\ queue = <<>> /\ processes = <<>> /\ walk' = "resolved" /\ resolved' = Root
      /\ UNCHANGED <<proc, events, wrapped, entries, childrenOf, queue, processes, listed, steady>>
  BY DEF NotFound, history, locals, TreeInv, RowsInv, Listing
<1>2. TreeType' /\ EntriesInv' /\ ChildrenInv' /\ QueueInv' /\ RowsInv'
  BY <1>1, PidsAreFinite DEF TreeInv, TreeType, EntriesInv, ChildrenInv, QueueInv, RowsInv,
                             Resolving, Listing
<1>3. HistoryInv'
  BY <1>1 DEF TreeInv, HistoryInv, Resolving, Walked
<1>4. TargetIsResolved'
  <2> SUFFICES ASSUME NEW q \in Pids \ {Root}, Descends(listed, q),
                      isTargetProcess(listed[q].cmd), Undisturbed(q)
               PROVE  FALSE
    BY <1>1 DEF TargetIsResolved, Undisturbed
  <2>1. Depth(listed, q) \in Nat /\ Sought(q, Depth(listed, q))
    BY PidsAreFinite DEF Descends, Depth, Depths, Undisturbed, Sought
  <2>2. \A x : ~In(x, queue)
    BY <1>1 DEF In
  <2> QED
    BY <1>1, <2>1, <2>2 DEF TreeInv, QueueInv
<1> QED
  BY <1>2, <1>3, <1>4 DEF TreeInv

\* The walk of listContainerProcesses begins.
LEMMA ListTreeInv == TreeInv /\ ListProcesses => TreeInv'
<1> SUFFICES ASSUME TreeInv, ListProcesses PROVE TreeInv'
  OBVIOUS
<1>1. /\ walk = "resolved" /\ walk' = "stat" /\ processes = <<>>
      /\ childrenOf' = NoChildren /\ queue' = <<>>
      /\ UNCHANGED <<proc, events, wrapped, resolved, processes>>
  BY DEF ListProcesses, TreeInv, RowsInv, Listing
<1>2. /\ entries' \in Seq(Pids) /\ Distinct(entries') /\ listed' = proc /\ steady' = Pids
      /\ \A p \in Pids : In(p, entries') <=> Exists(proc, p)
  BY ExistingAre DEF ListProcesses, ReadDir
<1>3. TreeType'
  BY <1>1, <1>2 DEF TreeInv, TreeType, NoChildren
<1>4. HistoryInv' /\ ChildrenInv' /\ QueueInv' /\ TargetIsResolved'
  BY <1>1, <1>2 DEF HistoryInv, ChildrenInv, QueueInv, TargetIsResolved, Resolving, Walked
<1>5. EntriesInv'
  BY <1>1, <1>2 DEF EntriesInv, Exists
<1>6. RowsInv'
  <2>1. processes' = <<>> /\ Len(processes') = 0
    BY <1>1
  <2> QED
    BY <1>1, <1>2, <2>1 DEF RowsInv, Listing, Exists
<1> QED
  BY <1>3, <1>4, <1>5, <1>6 DEF TreeInv

\* A process that is gone is passed over: it has not been left in peace.
LEMMA StatTreeInv == TreeInv /\ ReadStat => TreeInv'
<1> SUFFICES ASSUME TreeInv, ReadStat PROVE TreeInv'
  OBVIOUS
<1> DEFINE p == Head(entries)
<1>1. /\ walk = "stat" /\ entries # <<>>
      /\ UNCHANGED <<proc, events, wrapped, childrenOf, queue, resolved, processes, listed, steady>>
      /\ IF Exists(proc, p) THEN walk' = "row" /\ entries' = entries
         ELSE entries' = Tail(entries) /\ walk' = walk
  BY DEF ReadStat, history
<1>2. /\ p \in Pids /\ Tail(entries) \in Seq(Pids) /\ Distinct(Tail(entries))
      /\ \A q : In(q, entries) <=> q = p \/ In(q, Tail(entries))
  BY <1>1, TailIs DEF TreeInv, TreeType, EntriesInv, Listing
<1>3. HistoryInv' /\ ChildrenInv' /\ QueueInv' /\ TargetIsResolved'
  BY <1>1 DEF TreeInv, HistoryInv, ChildrenInv, QueueInv, TargetIsResolved, Resolving, Walked
<1> HIDE DEF p
<1>4. CASE Exists(proc, p)
  <2>1. walk' = "row" /\ entries' = entries
    BY <1>1, <1>4
  <2>2. TreeType' /\ EntriesInv'
    BY <1>1, <2>1 DEF TreeInv, TreeType, EntriesInv, Listing, Exists
  <2>3. RowsInv'
    BY <1>1, <2>1 DEF TreeInv, RowsInv, Listing, Exists, RowOf
  <2> QED
    BY <1>3, <2>2, <2>3 DEF TreeInv
<1>5. CASE ~Exists(proc, p)
  <2>1. walk' = walk /\ entries' = Tail(entries)
    BY <1>1, <1>5
  <2>2. TreeType' /\ EntriesInv'
    BY <1>1, <1>2, <2>1 DEF TreeInv, TreeType, EntriesInv, Listing, Exists
  <2>3. ~(p \in steady /\ Exists(listed, p))
    BY <1>5 DEF TreeInv, HistoryInv, Exists
  <2>4. ASSUME NEW q \in steady, Exists(listed, q)
        PROVE  In(q, entries') \/ In(RowOf(q), processes)
    BY <1>1, <1>2, <2>1, <2>3, <2>4 DEF TreeInv, RowsInv, Listing
  <2>5. ASSUME NEW i \in 1..Len(processes)
        PROVE  Exists(listed, processes[i].pid) /\ ~In(processes[i].pid, entries')
    BY <1>1, <1>2, <2>1 DEF TreeInv, RowsInv
  <2>6. RowsInv'
    BY <1>1, <2>1, <2>4, <2>5 DEF TreeInv, RowsInv, Listing, Exists, RowOf
  <2> QED
    BY <1>3, <2>2, <2>6 DEF TreeInv
<1> QED
  BY <1>4, <1>5

\* A row is made.
LEMMA RowTreeInv == TreeInv /\ ReadCmdline => TreeInv'
<1> SUFFICES ASSUME TreeInv, ReadCmdline PROVE TreeInv'
  OBVIOUS
<1> DEFINE p == Head(entries)
           row == [pid |-> p, target |-> isTargetProcess(proc[p].cmd)]
           n == Len(processes)
<1>1. /\ walk = "row" /\ entries # <<>> /\ entries' = Tail(entries) /\ walk' = "stat"
      /\ processes' = Append(processes, row)
      /\ UNCHANGED <<proc, events, wrapped, childrenOf, queue, resolved, listed, steady>>
  BY DEF ReadCmdline, history, TreeInv, EntriesInv, Listing
<1>2. /\ p \in Pids /\ entries' \in Seq(Pids) /\ Distinct(entries') /\ ~In(p, entries') /\ In(p, entries)
      /\ \A q : In(q, entries) <=> q = p \/ In(q, entries')
  BY <1>1, TailIs DEF TreeInv, TreeType, EntriesInv, Listing
<1>3. Exists(listed, p)
  BY <1>1, <1>2 DEF TreeInv, EntriesInv, Listing
<1>4. row \in Rows /\ row.pid = p /\ (p \in steady => row = RowOf(p))
  <2>1. isTargetProcess(proc[p].cmd) \in BOOLEAN
    BY DEF isTargetProcess
  <2> QED
    BY <1>2, <2>1 DEF Rows, RowOf, TreeInv, HistoryInv
<1> HIDE DEF p, row
<1>5. /\ processes \in Seq(Rows) /\ processes' \in Seq(Rows) /\ n \in Nat /\ Len(processes') = n + 1
      /\ \A i \in 1..n : processes'[i] = processes[i]
      /\ processes'[n + 1] = row
      /\ \A r : In(r, processes') <=> In(r, processes) \/ r = row
  <2>1. processes \in Seq(Rows)
    BY DEF TreeInv, TreeType
  <2> QED
    BY <1>1, <1>4, <2>1, AppendProperties, AppendIs
<1>6. TreeType' /\ EntriesInv'
  BY <1>1, <1>2, <1>5 DEF TreeInv, TreeType, EntriesInv, Listing, Exists
<1>7. HistoryInv' /\ ChildrenInv' /\ QueueInv' /\ TargetIsResolved'
  BY <1>1 DEF TreeInv, HistoryInv, ChildrenInv, QueueInv, TargetIsResolved, Resolving, Walked
<1> HIDE DEF n
<1>8. \A i \in 1..n : /\ Exists(listed, processes[i].pid)
                     /\ processes[i].pid # p /\ ~In(processes[i].pid, entries')
  BY <1>2 DEF TreeInv, RowsInv, n
<1>9. 1..(n + 1) = 1..n \cup {n + 1} /\ n + 1 \notin 1..n
  BY <1>5
<1>10. RowsInv'
  <2>1. \A i \in 1..Len(processes') :
            Exists(listed', processes'[i].pid) /\ ~In(processes'[i].pid, entries')
    BY <1>1, <1>2, <1>3, <1>4, <1>5, <1>8, <1>9
  <2>2. \A i, j \in 1..Len(processes') : processes'[i].pid = processes'[j].pid => i = j
    <3>1. \A i, j \in 1..n : processes[i].pid = processes[j].pid => i = j
      BY DEF TreeInv, RowsInv, n
    <3> QED
      BY <1>4, <1>5, <1>8, <1>9, <3>1
  <2>3. ASSUME NEW q \in steady, Exists(listed, q)
        PROVE  In(q, entries') \/ In(RowOf(q), processes')
    <3>1. In(q, entries) \/ In(RowOf(q), processes)
      BY <1>1, <2>3 DEF TreeInv, RowsInv, Listing
    <3> QED
      BY <1>2, <1>4, <1>5, <2>3, <3>1
  <2> QED
    BY <1>1, <2>1, <2>2, <2>3 DEF RowsInv, Listing, RowOf
<1> QED
  BY <1>6, <1>7, <1>10 DEF TreeInv

\* The rows are sorted.
LEMMA SortTreeInv == TreeInv /\ SortByPID => TreeInv'
<1> SUFFICES ASSUME TreeInv, SortByPID PROVE TreeInv'
  OBVIOUS
<1> DEFINE n == Len(processes)
<1>1. /\ walk = "stat" /\ entries = <<>> /\ walk' = "listed"
      /\ UNCHANGED <<proc, events, wrapped, entries, childrenOf, queue, resolved, listed, steady>>
  BY DEF SortByPID, history, locals
<1>2. PICK f \in Bijection(1..n, 1..n) :
          /\ processes' = [i \in 1..n |-> processes[f[i]]]
          /\ \A i, j \in 1..n : i < j => processes'[i].pid <= processes'[j].pid
  BY DEF SortByPID
<1>3. processes \in Seq(Rows) /\ n \in Nat /\ \A i \in 1..n : processes[i] \in Rows
  BY DEF TreeInv, TreeType
<1> HIDE DEF n
<1>4. /\ \A i \in 1..n : f[i] \in 1..n
      /\ \A i, j \in 1..n : f[i] = f[j] => i = j
      /\ \A j \in 1..n : \E i \in 1..n : f[i] = j
  BY <1>2 DEF Bijection, Injection, Surjection, IsInjective
<1>5. /\ processes' \in Seq(Rows) /\ Len(processes') = n
      /\ \A i \in 1..n : processes'[i] = processes[f[i]]
  <2>1. processes' \in [1..n -> Rows]
    BY <1>2, <1>3, <1>4
  <2> QED
    BY <1>2, <1>3, <2>1
<1>6. TreeType' /\ EntriesInv'
  BY <1>1, <1>5 DEF TreeInv, TreeType, EntriesInv, Listing, Exists
<1>7. HistoryInv' /\ ChildrenInv' /\ QueueInv' /\ TargetIsResolved'
  BY <1>1 DEF TreeInv, HistoryInv, ChildrenInv, QueueInv, TargetIsResolved, Resolving, Walked
<1>8. RowsInv'
  <2>1. \A i \in 1..n : Exists(listed, processes[i].pid) /\ ~In(processes[i].pid, entries)
    BY DEF TreeInv, RowsInv, n
  <2>2. \A i, j \in 1..n : processes[i].pid = processes[j].pid => i = j
    BY DEF TreeInv, RowsInv, n
  <2>3. ASSUME NEW q \in steady, Exists(listed, q) PROVE In(RowOf(q), processes')
    <3>1. ~In(q, entries)
      BY <1>1 DEF In
    <3>2. In(RowOf(q), processes)
      BY <1>1, <2>3, <3>1 DEF TreeInv, RowsInv, Listing
    <3>3. PICK k \in 1..n : processes[k] = RowOf(q)
      BY <3>2 DEF In, n
    <3>4. PICK i \in 1..n : f[i] = k
      BY <1>4
    <3>5. processes'[i] = RowOf(q)
      BY <1>5, <3>3, <3>4
    <3> QED
      BY <1>5, <3>5 DEF In
  <2>a. ASSUME NEW i \in 1..n PROVE f[i] \in 1..n /\ processes'[i] = processes[f[i]]
    BY <1>4, <1>5
  <2>4. \A i \in 1..n : Exists(listed', processes'[i].pid) /\ ~In(processes'[i].pid, entries')
    <3> SUFFICES ASSUME NEW i \in 1..n
                 PROVE  Exists(listed', processes'[i].pid) /\ ~In(processes'[i].pid, entries')
      OBVIOUS
    <3> QED
      BY <1>1, <2>1, <2>a
  <2>5. \A i, j \in 1..n : processes'[i].pid = processes'[j].pid => i = j
    <3> SUFFICES ASSUME NEW i \in 1..n, NEW j \in 1..n, processes'[i].pid = processes'[j].pid
                 PROVE  i = j
      OBVIOUS
    <3>1. f[i] = f[j]
      BY <2>2, <2>a
    <3> QED
      BY <1>4, <3>1
  <2>6. \A q \in steady' : Exists(listed', q) => In(RowOf(q)', processes')
    BY <1>1, <2>3 DEF RowOf
  <2> QED
    BY <1>1, <1>2, <1>5, <2>4, <2>5, <2>6 DEF RowsInv, Listing
<1> QED
  BY <1>6, <1>7, <1>8 DEF TreeInv

\* Nothing of the tree is left.
LEMMA ForgetTreeInv == ForgetTree => TreeInv'
<1> SUFFICES ASSUME ForgetTree PROVE TreeInv'
  OBVIOUS
<1>1. Nobody \in [Pids -> Processes]
  BY DEF Nobody, Processes, Free, States, CommandLines
<1>2. TreeType'
  <2>1. /\ proc' = Nobody /\ listed' = Nobody /\ walk' = "idle" /\ wrapped' = FALSE
        /\ entries' = <<>> /\ queue' = <<>> /\ processes' = <<>>
        /\ resolved' = Outside /\ steady' = {} /\ childrenOf' = NoChildren
    BY DEF ForgetTree
  <2>2. NoChildren \in [Pids -> Seq(Pids)]
    BY DEF NoChildren
  <2>3. proc' \in [Pids -> Processes] /\ listed' \in [Pids -> Processes] /\ steady' \subseteq Pids
    BY <1>1, <2>1
  <2>4. entries' \in Seq(Pids) /\ queue' \in Seq(Pids) /\ childrenOf' \in [Pids -> Seq(Pids)]
    BY <2>1, <2>2
  <2>5. resolved' \in Pids \cup {Outside} /\ processes' \in Seq(Rows)
    BY <2>1
  <2>6. wrapped' \in BOOLEAN
    BY <2>1, Zenon
  <2> QED
    BY <2>1, <2>3, <2>4, <2>5, <2>6 DEF TreeType
<1>3. HistoryInv' /\ EntriesInv' /\ ChildrenInv' /\ QueueInv' /\ TargetIsResolved'
  BY DEF ForgetTree, HistoryInv, EntriesInv, ChildrenInv, QueueInv, TargetIsResolved,
         Resolving, Listing, Walked
<1>4. processes' = <<>> /\ Len(processes') = 0 /\ walk' = "idle"
  BY DEF ForgetTree
<1>5. RowsInv'
  BY <1>4 DEF RowsInv, Listing
<1> QED
  BY <1>2, <1>3, <1>5 DEF TreeInv

\* A table of processes, and nothing done yet.
LEMMA InitTreeInv == TreeInit => TreeInv
<1> SUFFICES ASSUME TreeInit PROVE TreeInv
  OBVIOUS
<1>1. Nobody \in [Pids -> Processes]
  BY DEF Nobody, Processes, Free, States, CommandLines
<1>2. proc \in [Pids -> Processes]
  BY TablesAre DEF TreeInit
<1>3. TreeType
  BY <1>1, <1>2 DEF TreeInit, TreeType, NoChildren
<1>4. HistoryInv /\ EntriesInv /\ ChildrenInv /\ QueueInv /\ TargetIsResolved
  BY DEF TreeInit, HistoryInv, EntriesInv, ChildrenInv, QueueInv, TargetIsResolved,
         Resolving, Listing, Walked
<1>5. processes = <<>> /\ Len(processes) = 0 /\ walk = "idle"
  BY DEF TreeInit
<1>6. RowsInv
  BY <1>5 DEF RowsInv, Listing
<1> QED
  BY <1>3, <1>4, <1>6 DEF TreeInv

\* Whatever the page is, TreeInv is an invariant.
THEOREM TreeInvariance == PagesSpec => []TreeInv
<1>1. PagesInit => TreeInv
  BY InitTreeInv DEF PagesInit
<1>2. TreeInv /\ [PagesNext]_allVars => TreeInv'
  <2> SUFFICES ASSUME TreeInv, [PagesNext]_allVars PROVE TreeInv'
    OBVIOUS
  <2>1. CASE ResolvePID
    BY <2>1, BeginTreeInv, ReadTreeInv, SearchTreeInv, VisitTreeInv, NotFoundTreeInv DEF ResolvePID, Resolve
  <2>2. CASE ProcessesChange
    BY <2>2, EventTreeInv DEF ProcessesChange
  <2>3. CASE ListAll
    BY <2>3, ListTreeInv, StatTreeInv, RowTreeInv, SortTreeInv DEF ListAll, List
  <2>4. CASE CallCollector
    BY <2>4, ForgetTreeInv DEF CallCollector
  <2>5. CASE Collect \/ RenderStack \/ ShowThreads \/ InvalidPID \/ UNCHANGED allVars
    <3>1. UNCHANGED treeVars
      BY <2>5 DEF Collect, RenderStack, ShowThreads, InvalidPID, allVars
    <3> QED
      BY <3>1, TreeKept
  <2> QED
    BY <2>1, <2>2, <2>3, <2>4, <2>5 DEF PagesNext
<1> QED
  BY <1>1, <1>2, PTL DEF PagesSpec

\* TargetIsResolved, for every tree of processes and whatever happens to it while
\* /proc is read: resolveTargetPID returns a descendant of the wrapper, and the
\* nearest target of those that nothing happened to, or one as near.
THEOREM TargetIsResolvedHolds == PagesSpec => []TargetIsResolved
  BY TreeInvariance, PTL DEF TreeInv

\* ListIsOfTheProcesses, likewise: listContainerProcesses has one row for every
\* process that was there all the time, sorted, and none for one that was not.
THEOREM ListIsOfTheProcessesHolds == PagesSpec => []ListIsOfTheProcesses
<1>1. TreeInv => ListIsOfTheProcesses
  <2> SUFFICES ASSUME TreeInv, walk = "listed"
      PROVE  /\ \A i, j \in 1..Len(processes) : i < j => processes[i].pid < processes[j].pid
             /\ \A row \in Range(processes) : Exists(listed, row.pid)
             /\ \A p \in steady : Exists(listed, p) => RowOf(p) \in Range(processes)
    BY DEF ListIsOfTheProcesses, RowOf
  <2>1. /\ processes \in Seq(Rows) /\ \A i \in 1..Len(processes) : processes[i] \in Rows
        /\ Range(processes) = {processes[i] : i \in 1..Len(processes)}
    <3>1. processes \in Seq(Rows)
      BY DEF TreeInv, TreeType
    <3> QED
      BY <3>1 DEF Range
  <2>2. ASSUME NEW i \in 1..Len(processes), NEW j \in 1..Len(processes), i < j
        PROVE  processes[i].pid < processes[j].pid
    <3>1. processes[i].pid \in Nat /\ processes[j].pid \in Nat
      <4>1. processes[i] \in Rows /\ processes[j] \in Rows
        BY <2>1
      <4> QED
        BY <4>1, PidsAreFinite DEF Rows
    <3>2. processes[i].pid <= processes[j].pid /\ processes[i].pid # processes[j].pid
      BY <2>1, <2>2 DEF TreeInv, RowsInv
    <3> QED
      BY <3>1, <3>2
  <2>3. \A p \in steady : Exists(listed, p) => In(RowOf(p), processes)
    BY DEF TreeInv, RowsInv, EntriesInv, Listing, In
  <2> QED
    BY <2>1, <2>2, <2>3 DEF In, TreeInv, RowsInv
<1> QED
  BY <1>1, TreeInvariance, PTL
-----------------------------------------------------------------------------
(* Picking elements of a sequence.                                         *)

Picking(S, s, P) ==
    [i \in 1..Len(s) |-> [q \in Seq(S) |-> IF i \in P THEN Append(q, s[i]) ELSE q]]

\* f[i] is what was picked from the first i elements of s.
Picks(f, S, s, P) ==
    /\ f \in [0..Len(s) -> Seq(S)] /\ f[0] = <<>>
    /\ \A i \in 1..Len(s) : f[i] = IF i \in P THEN Append(f[i - 1], s[i]) ELSE f[i - 1]

\* At picks them one by one.
LEMMA AtIs ==
    ASSUME NEW S, NEW s \in Seq(S), NEW P
    PROVE  \E f : Picks(f, S, s, P) /\ At(s, P) = f[Len(s)]
<1> DEFINE n == Len(s)
           next == Picking(S, s, P)
           Up(f) == [i \in 0..n |-> IF i = 0 THEN <<>>
                                    ELSE IF i \in P THEN Append(f[i - 1], s[i]) ELSE f[i - 1]]
           h == CHOOSE u : u = Up(u)
<1>1. n \in Nat /\ <<>> \in Seq(S) /\ \A i \in 1..n : s[i] \in S
  OBVIOUS
<1>2. \A i \in 1..n : \A q \in Seq(S) :
          next[i][q] = (IF i \in P THEN Append(q, s[i]) ELSE q) /\ next[i][q] \in Seq(S)
  BY <1>1 DEF Picking
<1>3. At(s, P) = h[n]
  BY DEF At
<1> HIDE DEF n, next
<1>4. PICK g : Follows(g, n, Seq(S), <<>>, next)
  BY <1>1, <1>2, Recursion
<1>5. /\ g \in [0..n -> Seq(S)] /\ g[0] = <<>>
      /\ \A i \in 1..n : g[i] = next[i][g[i - 1]]
  BY <1>4 DEF Follows
<1>6. g = Up(g)
  <2> SUFFICES ASSUME NEW i \in 0..n
               PROVE  g[i] = IF i = 0 THEN <<>>
                             ELSE IF i \in P THEN Append(g[i - 1], s[i]) ELSE g[i - 1]
    BY <1>5
  <2>1. CASE i = 0
    BY <1>5, <2>1
  <2>2. CASE i # 0
    <3>1. i \in 1..n /\ i - 1 \in 0..n
      BY <1>1, <2>2
    <3> QED
      BY <1>2, <1>5, <2>2, <3>1
  <2> QED
    BY <2>1, <2>2
<1>7. h = Up(h)
  <2> HIDE DEF Up
  <2> QED
    BY <1>6
<1> HIDE DEF h
<1>8. h = [i \in 0..n |-> h[i]] /\ h[0] = <<>>
  BY <1>1, <1>7
<1>9. ASSUME NEW i \in 1..n
      PROVE  h[i] = IF i \in P THEN Append(h[i - 1], s[i]) ELSE h[i - 1]
  <2>1. i \in 0..n /\ i # 0
    BY <1>1
  <2> QED
    BY <1>7, <2>1
<1>a. Follows(h, n, Seq(S), <<>>, next)
  BY <1>1, <1>2, <1>8, <1>9, Following, ZenonT(30)
<1>b. Picks(h, S, s, P)
  BY <1>8, <1>9, <1>a DEF Picks, Follows, n
<1> QED
  BY <1>3, <1>b DEF n

\* What is picked is of the same type.
LEMMA AtType ==
    ASSUME NEW S, NEW s \in Seq(S), NEW P
    PROVE  At(s, P) \in Seq(S)
<1>1. PICK f : Picks(f, S, s, P) /\ At(s, P) = f[Len(s)]
  BY AtIs
<1> QED
  BY <1>1 DEF Picks

\* Nothing is picked at no place.
LEMMA AtNone ==
    ASSUME NEW S, NEW s \in Seq(S)
    PROVE  At(s, {}) = <<>>
<1> DEFINE n == Len(s)
<1>1. n \in Nat
  OBVIOUS
<1>2. PICK f : Picks(f, S, s, {}) /\ At(s, {}) = f[n]
  BY AtIs
<1> HIDE DEF n
<1> DEFINE N == {i \in 0..n : f[i] = <<>>}
<1>3. 0 \in N
  BY <1>1, <1>2 DEF Picks
<1>4. ASSUME NEW i \in 1..n, i - 1 \in N PROVE i \in N
  BY <1>1, <1>2, <1>4 DEF Picks, n
<1> HIDE DEF N
<1>5. \A i \in 0..n : i \in N
  BY <1>1, <1>3, <1>4, Induction
<1> QED
  BY <1>1, <1>2, <1>5 DEF N

\* One more place after the others.
LEMMA AtMore ==
    ASSUME NEW S, NEW s \in Seq(S), NEW m \in 1..Len(s), NEW P, \A i \in P : i \in 1..(m - 1)
    PROVE  At(s, P \cup {m}) = Append(At(s, P), s[m])
<1> DEFINE n == Len(s)
           Q == P \cup {m}
<1>1. n \in Nat /\ m \in Nat
  OBVIOUS
<1>2. PICK f : Picks(f, S, s, P) /\ At(s, P) = f[n]
  BY AtIs
<1>3. PICK g : Picks(g, S, s, Q) /\ At(s, Q) = g[n]
  BY AtIs
<1>4. m \notin P /\ m \in Q /\ \A i : i # m => (i \in P <=> i \in Q)
  OBVIOUS
<1>5. \A i \in 1..n : i > m => i \notin P
  BY <1>1
<1> HIDE DEF n, Q
<1>6. /\ f[0] = <<>> /\ g[0] = <<>>
      /\ \A i \in 1..n : f[i] = IF i \in P THEN Append(f[i - 1], s[i]) ELSE f[i - 1]
      /\ \A i \in 1..n : g[i] = IF i \in Q THEN Append(g[i - 1], s[i]) ELSE g[i - 1]
  BY <1>2, <1>3 DEF Picks, n
<1> DEFINE N == {i \in 0..n : g[i] = IF i < m THEN f[i] ELSE Append(f[i], s[m])}
<1>7. 0 \in N
  BY <1>1, <1>6
<1>8. ASSUME NEW i \in 1..n, i - 1 \in N PROVE i \in N
  <2>0. i \in 0..n /\ g[i - 1] = IF i - 1 < m THEN f[i - 1] ELSE Append(f[i - 1], s[m])
    BY <1>8
  <2>1. CASE i < m
    <3>1. g[i - 1] = f[i - 1] /\ (i \in P <=> i \in Q)
      BY <1>1, <1>4, <2>0, <2>1
    <3> QED
      BY <1>6, <2>0, <2>1, <3>1
  <2>2. CASE i = m
    <3>1. g[i - 1] = f[i - 1]
      BY <1>1, <2>0, <2>2
    <3>2. g[i] = Append(f[i - 1], s[m]) /\ f[i] = f[i - 1]
      BY <1>4, <1>6, <2>2, <3>1
    <3>3. g[i] = Append(f[i], s[m]) /\ ~(i < m)
      BY <1>1, <2>2, <3>2
    <3> QED
      BY <2>0, <3>3
  <2>3. CASE i > m
    <3>1. g[i - 1] = Append(f[i - 1], s[m]) /\ i \notin P /\ i \notin Q
      BY <1>1, <1>4, <1>5, <2>0, <2>3
    <3> QED
      BY <1>1, <1>6, <2>0, <2>3, <3>1
  <2> QED
    BY <1>1, <2>1, <2>2, <2>3
<1> HIDE DEF N
<1>9. \A i \in 0..n : i \in N
  BY <1>1, <1>7, <1>8, Induction
<1>a. n \in 0..n /\ ~(n < m)
  BY <1>1 DEF n
<1>b. g[n] = Append(f[n], s[m])
  BY <1>9, <1>a DEF N
<1> QED
  BY <1>2, <1>3, <1>b DEF Q

\* What lies behind the places does not matter.
LEMMA AtAppend ==
    ASSUME NEW S, NEW s \in Seq(S), NEW x \in S, NEW P, \A i \in P : i \in 1..Len(s)
    PROVE  At(Append(s, x), P) = At(s, P)
<1> DEFINE n == Len(s)
           t == Append(s, x)
<1>1. n \in Nat /\ t \in Seq(S) /\ Len(t) = n + 1 /\ (\A i \in 1..n : t[i] = s[i]) /\ n + 1 \notin P
  OBVIOUS
<1> HIDE DEF t
<1>2. PICK f : Picks(f, S, s, P) /\ At(s, P) = f[n]
  BY AtIs
<1>3. PICK g : Picks(g, S, t, P) /\ At(t, P) = g[n + 1]
  BY <1>1, AtIs
<1> HIDE DEF n
<1>4. /\ f[0] = <<>> /\ g[0] = <<>>
      /\ \A i \in 1..n : f[i] = IF i \in P THEN Append(f[i - 1], s[i]) ELSE f[i - 1]
      /\ \A i \in 1..(n + 1) : g[i] = IF i \in P THEN Append(g[i - 1], t[i]) ELSE g[i - 1]
  BY <1>1, <1>2, <1>3 DEF Picks, n
<1> DEFINE N == {i \in 0..n : g[i] = f[i]}
<1>5. 0 \in N
  BY <1>1, <1>4
<1>6. ASSUME NEW i \in 1..n, i - 1 \in N PROVE i \in N
  <2>1. i \in 0..n /\ i \in 1..(n + 1) /\ g[i - 1] = f[i - 1] /\ t[i] = s[i]
    BY <1>1, <1>6
  <2> QED
    BY <1>4, <2>1
<1> HIDE DEF N
<1>7. \A i \in 0..n : i \in N
  BY <1>1, <1>5, <1>6, Induction
<1>8. g[n] = f[n] /\ n + 1 \in 1..(n + 1) /\ (n + 1) - 1 = n
  BY <1>1, <1>7 DEF N
<1>9. g[n + 1] = g[n]
  <2>1. g[n + 1] = IF n + 1 \in P THEN Append(g[(n + 1) - 1], t[n + 1]) ELSE g[(n + 1) - 1]
    BY <1>4, <1>8
  <2> QED
    BY <1>1, <1>8, <2>1
<1> QED
  BY <1>2, <1>3, <1>8, <1>9 DEF t

\* The places where s has an element of V.
Kept(s, V) == {i \in 1..Len(s) : s[i] \in V}

\* To pick from what was picked.
LEMMA AtOfAt ==
    ASSUME NEW S, NEW s \in Seq(S), NEW P, \A i \in P : i \in 1..Len(s), NEW V
    PROVE  At(At(s, P), Kept(At(s, P), V)) = At(s, {i \in P : s[i] \in V})
<1> DEFINE n == Len(s)
           Q(m) == {i \in P : i \in 1..m}
           QV(m) == {i \in Q(m) : s[i] \in V}
           Agree(m) == At(At(s, Q(m)), Kept(At(s, Q(m)), V)) = At(s, QV(m))
           N == {m \in 0..n : Agree(m)}
<1>1. n \in Nat /\ \A i \in 1..n : s[i] \in S
  OBVIOUS
<1>2. 0 \in N
  <2>1. Q(0) = {} /\ QV(0) = {}
    OBVIOUS
  <2>2. At(s, {}) = <<>>
    BY AtNone
  <2>3. Kept(<<>>, V) = {}
    BY DEF Kept
  <2>4. At(<<>>, {}) = <<>>
    <3>1. <<>> \in Seq(S)
      OBVIOUS
    <3> QED
      BY <3>1, AtNone
  <2> HIDE DEF Q, QV
  <2>5. Agree(0)
    BY <2>1, <2>2, <2>3, <2>4
  <2> HIDE DEF Agree
  <2> QED
    BY <1>1, <2>5
<1>3. ASSUME NEW m \in 1..n, m - 1 \in N PROVE m \in N
  <2>0. m \in 0..n /\ m \in 1..n /\ Agree(m - 1)
    BY <1>3
  <2>1. CASE m \notin P
    <3>1. Q(m) = Q(m - 1) /\ QV(m) = QV(m - 1)
      BY <1>1, <2>1
    <3> HIDE DEF Q, QV
    <3> QED
      BY <2>0, <3>1
  <2>2. CASE m \in P
    <3> DEFINE T == At(s, Q(m - 1))
               x == s[m]
               l == Len(T)
               W == Kept(T, V)
    <3>0. \A i : i \in 1..m <=> i = m \/ i \in 1..(m - 1)
      BY <1>1
    <3>1. Q(m) = Q(m - 1) \cup {m} /\ \A i \in Q(m - 1) : i \in 1..(m - 1)
      BY <2>2, <3>0
    <3>2. /\ QV(m) = IF x \in V THEN QV(m - 1) \cup {m} ELSE QV(m - 1)
          /\ \A i \in QV(m - 1) : i \in 1..(m - 1)
      BY <2>2, <3>0
    <3>3. At(T, W) = At(s, QV(m - 1))
      BY <2>0
    <3>4. T \in Seq(S) /\ x \in S
      BY <1>1, AtType
    <3> HIDE DEF Q, QV
    <3>5. At(s, Q(m)) = Append(T, x)
      BY <2>0, <3>1, AtMore
    <3> HIDE DEF T, x
    <3>6. /\ l \in Nat /\ Len(Append(T, x)) = l + 1 /\ Append(T, x)[l + 1] = x
          /\ \A i \in 1..l : Append(T, x)[i] = T[i]
          /\ Append(T, x) \in Seq(S)
      BY <3>4
    <3>7. \A i \in W : i \in 1..l
      BY DEF Kept
    <3>8. At(Append(T, x), W) = At(T, W)
      BY <3>4, <3>7, AtAppend
    <3>9. Kept(Append(T, x), V) = IF x \in V THEN W \cup {l + 1} ELSE W
      BY <3>6 DEF Kept
    <3> HIDE DEF W, l
    <3>a. CASE x \in V
      <4>0. l + 1 \in 1..(l + 1) /\ (l + 1) - 1 = l
        BY <3>6
      <4>1. l + 1 \in 1..Len(Append(T, x)) /\ (l + 1) - 1 = l
        BY <3>6, <4>0
      <4>2. \A i \in W : i \in 1..((l + 1) - 1)
        BY <3>7, <4>1
      <4>3. At(Append(T, x), W \cup {l + 1}) = Append(At(Append(T, x), W), Append(T, x)[l + 1])
        BY <3>6, <4>1, <4>2, AtMore
      <4>4. At(s, QV(m - 1) \cup {m}) = Append(At(s, QV(m - 1)), s[m])
        BY <2>0, <3>2, AtMore
      <4> QED
        BY <2>0, <3>2, <3>3, <3>5, <3>6, <3>8, <3>9, <3>a, <4>3, <4>4 DEF x
    <3>b. CASE x \notin V
      BY <2>0, <3>2, <3>3, <3>5, <3>8, <3>9, <3>b
    <3> QED
      BY <3>a, <3>b
  <2> QED
    BY <2>1, <2>2
<1> HIDE DEF N
<1>4. \A m \in 0..n : m \in N
  BY <1>1, <1>2, <1>3, Induction
<1>5. Agree(n)
  <2>1. n \in 0..n
    BY <1>1
  <2> HIDE DEF Agree
  <2> QED
    BY <1>4, <2>1 DEF N
<1>6. Q(n) = P
  OBVIOUS
<1> HIDE DEF Q
<1> QED
  BY <1>5, <1>6
-----------------------------------------------------------------------------
(* The text of the backtraces.                                             *)

IsText(lines, kind) ==
    /\ lines \in Seq(Nat \ {0})
    /\ \A i \in 1..Len(lines) : kind[lines[i]] \in LineKinds

\* What one line does to the state of the parser.
LEMMA ParseLineIs ==
    ASSUME NEW state \in ParseStates, NEW line \in Nat, NEW kind \in LineKinds
    PROVE  LET next == ParseLine(state, line, kind)
               idle == state.current = NoBlock
           IN /\ next \in ParseStates
              /\ kind = "blank" => next = state
              /\ kind \in Headers => next =
                     [threads |-> IF idle THEN state.threads ELSE Append(state.threads, state.current),
                      current |-> [header |-> line, frames |-> <<>>, extra |-> <<>>],
                      misc |-> state.misc]
              /\ kind \in {"frame", "detail"} /\ idle => next =
                     [threads |-> state.threads, current |-> state.current,
                      misc |-> Append(state.misc, line)]
              /\ kind = "frame" /\ ~idle => next =
                     [threads |-> state.threads,
                      current |-> [header |-> state.current.header,
                                   frames |-> Append(state.current.frames, line),
                                   extra |-> state.current.extra],
                      misc |-> state.misc]
              /\ kind = "detail" /\ ~idle => next =
                     [threads |-> state.threads,
                      current |-> [header |-> state.current.header,
                                   frames |-> state.current.frames,
                                   extra |-> Append(state.current.extra, line)],
                      misc |-> state.misc]
<1> DEFINE next == ParseLine(state, line, kind)
           idle == state.current = NoBlock
           cur == state.current
<1>1. /\ state.threads \in Seq(Blocks) /\ cur \in Blocks /\ state.misc \in Seq(Nat)
      /\ state = [threads |-> state.threads, current |-> cur, misc |-> state.misc]
  BY DEF ParseStates
<1>2. /\ cur.header \in Nat /\ cur.frames \in Seq(Nat) /\ cur.extra \in Seq(Nat)
      /\ cur = [header |-> cur.header, frames |-> cur.frames, extra |-> cur.extra]
  BY <1>1 DEF Blocks
<1>3. NoBlock \in Blocks /\ [header |-> line, frames |-> <<>>, extra |-> <<>>] \in Blocks
  BY DEF NoBlock, Blocks
<1>4. /\ Append(state.threads, cur) \in Seq(Blocks) /\ Append(state.misc, line) \in Seq(Nat)
      /\ Append(cur.frames, line) \in Seq(Nat) /\ Append(cur.extra, line) \in Seq(Nat)
  BY <1>1, <1>2
<1>5. CASE kind = "blank"
  <2>1. next = state
    BY <1>5 DEF ParseLine, Headers
  <2> QED
    BY <1>5, <2>1 DEF Headers
<1>6. CASE kind \in Headers
  <2>1. next = [Flush(state) EXCEPT !.current.header = line]
    BY <1>6 DEF ParseLine, Headers
  <2>2. Flush(state) =
            [threads |-> IF idle THEN state.threads ELSE Append(state.threads, cur),
             current |-> NoBlock, misc |-> state.misc]
    BY <1>1 DEF Flush
  <2>3. next = [threads |-> IF idle THEN state.threads ELSE Append(state.threads, cur),
                current |-> [header |-> line, frames |-> <<>>, extra |-> <<>>],
                misc |-> state.misc]
    <3>1. [NoBlock EXCEPT !.header = line] = [header |-> line, frames |-> <<>>, extra |-> <<>>]
      BY DEF NoBlock
    <3>2. PICK threads, misc : Flush(state) = [threads |-> threads, current |-> NoBlock, misc |-> misc]
      BY <2>2
    <3>3. next = [threads |-> threads, current |-> [NoBlock EXCEPT !.header = line], misc |-> misc]
      BY <2>1, <3>2
    <3>4. threads = Flush(state).threads /\ misc = Flush(state).misc
      BY <3>2
    <3>5. /\ Flush(state).threads = IF idle THEN state.threads ELSE Append(state.threads, cur)
          /\ Flush(state).misc = state.misc
      BY <2>2
    <3> HIDE DEF next, idle, cur
    <3> QED
      BY <3>1, <3>3, <3>4, <3>5
  <2>4. next \in ParseStates
    BY <1>1, <1>3, <1>4, <2>3 DEF ParseStates
  <2> QED
    BY <1>6, <2>3, <2>4 DEF Headers
<1>7. CASE kind \in {"frame", "detail"} /\ idle
  <2>1. next = [state EXCEPT !.misc = Append(@, line)]
    BY <1>7 DEF ParseLine, Headers
  <2>2. next = [threads |-> state.threads, current |-> cur, misc |-> Append(state.misc, line)]
    BY <1>1, <2>1
  <2>3. next \in ParseStates
    BY <1>1, <1>4, <2>2 DEF ParseStates
  <2> QED
    BY <1>7, <2>2, <2>3 DEF Headers
<1>8. CASE kind = "frame" /\ ~idle
  <2>1. next = [state EXCEPT !.current.frames = Append(@, line)]
    BY <1>8 DEF ParseLine, Headers
  <2>2. next = [threads |-> state.threads,
                current |-> [header |-> cur.header, frames |-> Append(cur.frames, line),
                             extra |-> cur.extra],
                misc |-> state.misc]
    BY <1>1, <1>2, <2>1
  <2>3. next \in ParseStates
    BY <1>1, <1>2, <1>4, <2>2 DEF ParseStates, Blocks
  <2> QED
    BY <1>8, <2>2, <2>3 DEF Headers
<1>9. CASE kind = "detail" /\ ~idle
  <2>1. next = [state EXCEPT !.current.extra = Append(@, line)]
    BY <1>9 DEF ParseLine, Headers
  <2>2. next = [threads |-> state.threads,
                current |-> [header |-> cur.header, frames |-> cur.frames,
                             extra |-> Append(cur.extra, line)],
                misc |-> state.misc]
    BY <1>1, <1>2, <2>1
  <2>3. next \in ParseStates
    BY <1>1, <1>2, <1>4, <2>2 DEF ParseStates, Blocks
  <2> QED
    BY <1>9, <2>2, <2>3 DEF Headers
<1> QED
  BY <1>5, <1>6, <1>7, <1>8, <1>9 DEF LineKinds, Headers

StartOfParse == [threads |-> <<>>, current |-> NoBlock, misc |-> <<>>]

\* f[i] is the state of the parser after the first i lines.
Parses(f, lines, kind) ==
    /\ f \in [0..Len(lines) -> ParseStates] /\ f[0] = StartOfParse
    /\ \A i \in 1..Len(lines) : f[i] = ParseLine(f[i - 1], lines[i], kind[lines[i]])

\* The lines are parsed one by one.
LEMMA ParseLinesIs ==
    ASSUME NEW lines, NEW kind, IsText(lines, kind)
    PROVE  \E f : Parses(f, lines, kind) /\ ParseLines(lines, kind) = f[Len(lines)]
<1> DEFINE n == Len(lines)
           next == [i \in 1..n |-> [state \in ParseStates |->
                                        ParseLine(state, lines[i], kind[lines[i]])]]
           Turn(i, u) == [state \in ParseStates |-> ParseLine(state, lines[i], kind[lines[i]])][u]
           Up(u) == [i \in 0..n |-> IF i = 0 THEN StartOfParse ELSE Turn(i, u[i - 1])]
           h == CHOOSE u : u = Up(u)
<1>1. n \in Nat /\ \A i \in 1..n : lines[i] \in Nat /\ kind[lines[i]] \in LineKinds
  BY DEF IsText
<1>2. StartOfParse \in ParseStates
  BY DEF StartOfParse, ParseStates, NoBlock, Blocks
<1>3. \A i \in 1..n : \A x \in ParseStates :
          /\ next[i][x] = ParseLine(x, lines[i], kind[lines[i]])
          /\ Turn(i, x) = next[i][x] /\ next[i][x] \in ParseStates
  BY <1>1, ParseLineIs
<1>4. ParseLines(lines, kind) = h[n]
  BY DEF ParseLines, StartOfParse
<1>a. \A i \in 1..n : \A x : Turn(i, x) = next[i][x]
  OBVIOUS
<1> HIDE DEF n, next, Turn
<1>5. PICK g : Follows(g, n, ParseStates, StartOfParse, next)
  BY <1>1, <1>2, <1>3, Recursion
<1>6. /\ g \in [0..n -> ParseStates] /\ g[0] = StartOfParse
      /\ \A i \in 1..n : g[i] = next[i][g[i - 1]]
  BY <1>5 DEF Follows
<1>7. g = Up(g)
  <2> SUFFICES ASSUME NEW i \in 0..n
               PROVE  g[i] = IF i = 0 THEN StartOfParse ELSE Turn(i, g[i - 1])
    BY <1>6
  <2>1. CASE i = 0
    BY <1>6, <2>1
  <2>2. CASE i # 0
    <3>1. i \in 1..n
      BY <1>1, <2>2
    <3> QED
      BY <1>6, <1>a, <2>2, <3>1
  <2> QED
    BY <2>1, <2>2
<1>8. h = Up(h)
  <2> HIDE DEF Up
  <2> QED
    BY <1>7
<1> HIDE DEF h
<1>9. h = [i \in 0..n |-> h[i]] /\ h[0] = StartOfParse
  BY <1>1, <1>8
<1>b. \A i \in 1..n : h[i] = next[i][h[i - 1]]
  <2> TAKE i \in 1..n
  <2>1. i \in 0..n /\ i # 0
    BY <1>1
  <2> QED
    BY <1>8, <1>a, <2>1
<1>c. Follows(h, n, ParseStates, StartOfParse, next)
  BY <1>1, <1>2, <1>3, <1>9, <1>b, Following
<1>d. h \in [0..n -> ParseStates]
  BY <1>c DEF Follows
<1>e. \A i \in 1..n : h[i] = ParseLine(h[i - 1], lines[i], kind[lines[i]])
  <2> TAKE i \in 1..n
  <2>1. i - 1 \in 0..n
    BY <1>1
  <2> QED
    BY <1>3, <1>b, <1>d, <2>1
<1>f. Parses(h, lines, kind)
  BY <1>9, <1>d, <1>e DEF Parses, n
<1> QED
  BY <1>4, <1>f DEF n
-----------------------------------------------------------------------------
(* Where the lines stand.                                                  *)

ThreadsOf(lines, kind) == [h \in 1..Len(lines) |-> ThreadAt(lines, kind, h)]

\* The part of Under up to place i.
UnderTo(lines, kind, h, kinds, i) ==
    {j \in PlacesOf(lines, kind, kinds) : j <= i /\ IsLastHeader(lines, kind, h, j)}

\* The headers before place h.
HeadersBefore(lines, kind, h) == {j \in PlacesOf(lines, kind, Headers) : j < h}

\* A line that is no header leaves the last header where it was; one that is takes its place.
LEMMA LastHeaderIs ==
    ASSUME NEW lines, NEW kind, IsText(lines, kind), NEW i \in 1..Len(lines),
           NEW h \in 0..(i - 1), IsLastHeader(lines, kind, h, i - 1)
    PROVE  /\ kind[lines[i]] \notin Headers => IsLastHeader(lines, kind, h, i)
           /\ kind[lines[i]] \in Headers =>
                  /\ IsLastHeader(lines, kind, i, i)
                  /\ \A j \in i..Len(lines) : ~IsLastHeader(lines, kind, h, j)
           /\ \A g \in 0..i : g # h /\ g # i => ~IsLastHeader(lines, kind, g, i)
<1>1. Len(lines) \in Nat /\ i \in Nat /\ h \in Nat
  BY DEF IsText
<1>2. /\ h \in {0} \cup PlacesOf(lines, kind, Headers)
      /\ \A k \in h + 1..(i - 1) : kind[lines[k]] \notin Headers
  BY DEF IsLastHeader
<1>3. ASSUME kind[lines[i]] \notin Headers PROVE IsLastHeader(lines, kind, h, i)
  <2>1. \A k \in h + 1..i : k = i \/ k \in h + 1..(i - 1)
    BY <1>1
  <2>2. h <= i
    BY <1>1
  <2> QED
    BY <1>2, <1>3, <2>1, <2>2 DEF IsLastHeader
<1>4. ASSUME kind[lines[i]] \in Headers
      PROVE  /\ IsLastHeader(lines, kind, i, i)
             /\ \A j \in i..Len(lines) : ~IsLastHeader(lines, kind, h, j)
  <2>1. i \in PlacesOf(lines, kind, Headers) /\ i + 1..i = {}
    BY <1>1, <1>4 DEF PlacesOf
  <2>2. \A j \in i..Len(lines) : i \in h + 1..j
    BY <1>1
  <2> QED
    BY <1>1, <1>4, <2>1, <2>2 DEF IsLastHeader
<1>5. ASSUME NEW g \in 0..i, g # h, g # i PROVE ~IsLastHeader(lines, kind, g, i)
  <2>1. CASE g < h
    <3>1. h \in g + 1..i /\ h # 0
      BY <1>1, <2>1
    <3>2. kind[lines[h]] \in Headers
      BY <1>2, <3>1 DEF PlacesOf
    <3> QED
      BY <3>1, <3>2 DEF IsLastHeader
  <2>2. CASE g > h
    <3>1. g \in h + 1..(i - 1) /\ g # 0
      BY <1>1, <1>5, <2>2
    <3>2. g \notin PlacesOf(lines, kind, Headers)
      BY <1>2, <3>1 DEF PlacesOf
    <3> QED
      BY <3>1, <3>2 DEF IsLastHeader
  <2> QED
    BY <1>1, <1>5, <2>1, <2>2
<1> QED
  BY <1>3, <1>4, <1>5

\* One more line stands under its header if it is of the kinds asked for.
LEMMA UnderToIs ==
    ASSUME NEW lines, NEW kind, IsText(lines, kind), NEW i \in 1..Len(lines), NEW h, NEW kinds
    PROVE  /\ UnderTo(lines, kind, h, kinds, i)
                  = UnderTo(lines, kind, h, kinds, i - 1)
                      \cup (IF kind[lines[i]] \in kinds /\ IsLastHeader(lines, kind, h, i)
                            THEN {i} ELSE {})
           /\ \A j \in UnderTo(lines, kind, h, kinds, i - 1) : j \in 1..(i - 1)
<1>1. Len(lines) \in Nat /\ i \in Nat
  BY DEF IsText
<1>2. \A j \in 1..Len(lines) : j <= i <=> j <= i - 1 \/ j = i
  BY <1>1
<1>3. \A j \in 1..Len(lines) : j <= i - 1 => j \in 1..(i - 1)
  BY <1>1
<1> QED
  BY <1>2, <1>3 DEF UnderTo, PlacesOf

\* What has been parsed of the text after i lines.
ParsedTo(lines, kind, i, state) ==
    \E h \in 0..i :
        /\ IsLastHeader(lines, kind, h, i)
        /\ state.threads = At(ThreadsOf(lines, kind), HeadersBefore(lines, kind, h))
        /\ h = 0 => state.current = NoBlock
        /\ h # 0 => state.current =
               [header |-> lines[h],
                frames |-> At(lines, UnderTo(lines, kind, h, {"frame"}, i)),
                extra |-> At(lines, UnderTo(lines, kind, h, {"detail"}, i))]
        /\ state.misc = At(lines, UnderTo(lines, kind, 0, {"frame", "detail"}, i))

\* A line of some kinds goes where it belongs.
LEMMA AtUnderTo ==
    ASSUME NEW lines, NEW kind, IsText(lines, kind), NEW i \in 1..Len(lines), NEW h, NEW kinds
    PROVE  At(lines, UnderTo(lines, kind, h, kinds, i)) =
               IF kind[lines[i]] \in kinds /\ IsLastHeader(lines, kind, h, i)
               THEN Append(At(lines, UnderTo(lines, kind, h, kinds, i - 1)), lines[i])
               ELSE At(lines, UnderTo(lines, kind, h, kinds, i - 1))
<1> DEFINE P == UnderTo(lines, kind, h, kinds, i - 1)
<1>1. /\ UnderTo(lines, kind, h, kinds, i)
             = P \cup (IF kind[lines[i]] \in kinds /\ IsLastHeader(lines, kind, h, i)
                       THEN {i} ELSE {})
      /\ \A j \in P : j \in 1..(i - 1)
  BY UnderToIs
<1>2. lines \in Seq(Nat \ {0})
  BY DEF IsText
<1> HIDE DEF P
<1>3. At(lines, P \cup {i}) = Append(At(lines, P), lines[i])
  BY <1>1, <1>2, AtMore
<1>4. P \cup {} = P
  OBVIOUS
<1> QED
  BY <1>1, <1>3, <1>4 DEF P

\* A thread is complete when the next header comes, and at the end.
LEMMA ThreadIsComplete ==
    ASSUME NEW lines, NEW kind, IsText(lines, kind),
           NEW i \in 0..Len(lines), NEW h \in 1..i, IsLastHeader(lines, kind, h, i),
           i = Len(lines) \/ kind[lines[i + 1]] \in Headers
    PROVE  /\ ThreadsOf(lines, kind)[h] =
                  [header |-> lines[h],
                   frames |-> At(lines, UnderTo(lines, kind, h, {"frame"}, i)),
                   extra |-> At(lines, UnderTo(lines, kind, h, {"detail"}, i))]
           /\ h \in PlacesOf(lines, kind, Headers)
<1>1. Len(lines) \in Nat /\ i \in Nat /\ h \in Nat /\ h \in 1..Len(lines)
  BY DEF IsText
<1>2. ASSUME NEW j \in 1..Len(lines), IsLastHeader(lines, kind, h, j) PROVE j <= i
  <2>1. CASE i = Len(lines)
    BY <1>1, <2>1
  <2>2. CASE i # Len(lines) /\ kind[lines[i + 1]] \in Headers
    <3>1. i + 1 \notin h + 1..j
      BY <1>2, <2>2 DEF IsLastHeader
    <3> QED
      BY <1>1, <3>1
  <2> QED
    BY <2>1, <2>2
<1>3. \A kinds : {j \in PlacesOf(lines, kind, kinds) : IsLastHeader(lines, kind, h, j)}
                   = UnderTo(lines, kind, h, kinds, i)
  BY <1>2 DEF UnderTo, PlacesOf
<1>4. ThreadAt(lines, kind, h) =
          [header |-> lines[h],
           frames |-> At(lines, UnderTo(lines, kind, h, {"frame"}, i)),
           extra |-> At(lines, UnderTo(lines, kind, h, {"detail"}, i))]
  BY <1>3 DEF ThreadAt, Under
<1>5. ThreadsOf(lines, kind)[h] = ThreadAt(lines, kind, h)
  BY <1>1 DEF ThreadsOf
<1> QED
  BY <1>1, <1>4, <1>5 DEF IsLastHeader

\* The threads of a text are blocks.
LEMMA ThreadsAre ==
    ASSUME NEW lines, NEW kind, IsText(lines, kind)
    PROVE  ThreadsOf(lines, kind) \in Seq(Blocks) /\ Len(ThreadsOf(lines, kind)) = Len(lines)
<1>1. Len(lines) \in Nat /\ lines \in Seq(Nat) /\ \A h \in 1..Len(lines) : lines[h] \in Nat
  BY DEF IsText
<1>2. \A h \in 1..Len(lines) : ThreadAt(lines, kind, h) \in Blocks
  BY <1>1, AtType DEF ThreadAt, Under, Blocks
<1> QED
  BY <1>1, <1>2 DEF ThreadsOf

\* The threads that are complete when h is the last header, with it.
LEMMA ThreadsAfter ==
    ASSUME NEW lines, NEW kind, IsText(lines, kind), NEW i \in 0..Len(lines), NEW h \in 0..i,
           IsLastHeader(lines, kind, h, i)
    PROVE  At(ThreadsOf(lines, kind), HeadersBefore(lines, kind, i + 1)) =
               IF h = 0 THEN At(ThreadsOf(lines, kind), HeadersBefore(lines, kind, h))
               ELSE Append(At(ThreadsOf(lines, kind), HeadersBefore(lines, kind, h)),
                           ThreadsOf(lines, kind)[h])
<1> DEFINE T == ThreadsOf(lines, kind)
           B(k) == HeadersBefore(lines, kind, k)
<1>1. Len(lines) \in Nat /\ i \in Nat /\ h \in Nat
  BY DEF IsText
<1>2. T \in Seq(Blocks) /\ Len(T) = Len(lines)
  BY ThreadsAre
<1>3. \A j \in PlacesOf(lines, kind, Headers) : j < i + 1 => j <= h /\ j \in 1..Len(lines)
  <2> TAKE j \in PlacesOf(lines, kind, Headers)
  <2>1. j \in 1..Len(lines) /\ kind[lines[j]] \in Headers
    BY DEF PlacesOf
  <2>2. j \notin h + 1..i
    BY <2>1 DEF IsLastHeader
  <2> QED
    BY <1>1, <2>1, <2>2
<1>4. CASE h = 0
  <2>1. B(i + 1) = B(h)
    <3>1. \A j \in PlacesOf(lines, kind, Headers) : j \in 1..Len(lines)
      BY DEF PlacesOf
    <3> QED
      BY <1>1, <1>3, <1>4, <3>1 DEF HeadersBefore
  <2> QED
    BY <1>4, <2>1
<1>5. CASE h # 0
  <2>1. h \in PlacesOf(lines, kind, Headers) /\ h \in 1..Len(lines)
    BY <1>1, <1>5 DEF IsLastHeader
  <2>2. B(i + 1) = B(h) \cup {h}
    <3>1. \A j \in PlacesOf(lines, kind, Headers) : j \in 1..Len(lines)
      BY DEF PlacesOf
    <3>2. \A j \in PlacesOf(lines, kind, Headers) : j < i + 1 <=> j < h \/ j = h
      <4> TAKE j \in PlacesOf(lines, kind, Headers)
      <4>1. j \in 1..Len(lines) /\ h <= i
        BY <3>1
      <4>2. j < i + 1 => j <= h
        BY <1>3
      <4> QED
        BY <1>1, <4>1, <4>2
    <3> QED
      BY <2>1, <3>2 DEF HeadersBefore
  <2>3. \A j \in B(h) : j \in 1..(h - 1)
    BY <1>1 DEF HeadersBefore, PlacesOf
  <2> HIDE DEF T, B
  <2>4. At(T, B(h) \cup {h}) = Append(At(T, B(h)), T[h])
    BY <1>2, <2>1, <2>3, AtMore
  <2> QED
    BY <1>5, <2>2, <2>4 DEF T, B
<1> QED
  BY <1>4, <1>5

\* The parser keeps to it from line to line.
LEMMA ParsedNext ==
    ASSUME NEW lines, NEW kind, IsText(lines, kind), NEW i \in 1..Len(lines),
           NEW state \in ParseStates, ParsedTo(lines, kind, i - 1, state)
    PROVE  ParsedTo(lines, kind, i, ParseLine(state, lines[i], kind[lines[i]]))
<1> DEFINE k == kind[lines[i]]
           line == lines[i]
           next == ParseLine(state, line, k)
           idle == state.current = NoBlock
           Done(h) == At(ThreadsOf(lines, kind), HeadersBefore(lines, kind, h))
           Part(h, kinds, m) == At(lines, UnderTo(lines, kind, h, kinds, m))
           Latest(h, m) == IsLastHeader(lines, kind, h, m)
<1>1. Len(lines) \in Nat /\ i \in Nat /\ line \in Nat /\ line # 0 /\ k \in LineKinds
  BY DEF IsText
<1>2. PICK h \in 0..(i - 1) :
          /\ Latest(h, i - 1)
          /\ state.threads = Done(h)
          /\ h = 0 => idle
          /\ h # 0 => state.current = [header |-> lines[h],
                                       frames |-> Part(h, {"frame"}, i - 1),
                                       extra |-> Part(h, {"detail"}, i - 1)]
          /\ state.misc = Part(0, {"frame", "detail"}, i - 1)
  BY DEF ParsedTo
<1>3. h # 0 => ~idle
  <2> SUFFICES ASSUME h # 0 PROVE ~idle
    OBVIOUS
  <2>1. h \in 1..Len(lines) /\ lines[h] \in Nat \ {0}
    BY <1>1 DEF IsText
  <2>2. state.current.header = lines[h]
    BY <1>2
  <2> QED
    BY <2>1, <2>2 DEF NoBlock
<1>4. h \in Nat /\ h \in 0..i /\ i \in 0..i /\ i # 0 /\ h # i /\ 0 \in 0..i
  BY <1>1
<1>5. /\ k \notin Headers => Latest(h, i)
      /\ k \in Headers => Latest(i, i)
      /\ \A g \in 0..i : g # h /\ g # i => ~Latest(g, i)
  BY <1>2, LastHeaderIs
<1>6. \A g, kinds : Part(g, kinds, i) =
          IF k \in kinds /\ Latest(g, i) THEN Append(Part(g, kinds, i - 1), line)
          ELSE Part(g, kinds, i - 1)
  BY AtUnderTo
<1>7. /\ k = "blank" => next = state
      /\ k \in Headers => next =
             [threads |-> IF idle THEN state.threads ELSE Append(state.threads, state.current),
              current |-> [header |-> line, frames |-> <<>>, extra |-> <<>>],
              misc |-> state.misc]
      /\ k \in {"frame", "detail"} /\ idle => next =
             [threads |-> state.threads, current |-> state.current,
              misc |-> Append(state.misc, line)]
      /\ k = "frame" /\ ~idle => next =
             [threads |-> state.threads,
              current |-> [header |-> state.current.header,
                           frames |-> Append(state.current.frames, line),
                           extra |-> state.current.extra],
              misc |-> state.misc]
      /\ k = "detail" /\ ~idle => next =
             [threads |-> state.threads,
              current |-> [header |-> state.current.header,
                           frames |-> state.current.frames,
                           extra |-> Append(state.current.extra, line)],
              misc |-> state.misc]
  BY <1>1, ParseLineIs, ZenonT(30)
\* It suffices to name the last header.
<1>8. ASSUME NEW g \in 0..i, Latest(g, i), next.threads = Done(g),
             g = 0 => next.current = NoBlock,
             g # 0 => next.current = [header |-> lines[g],
                                      frames |-> Part(g, {"frame"}, i),
                                      extra |-> Part(g, {"detail"}, i)],
             next.misc = Part(0, {"frame", "detail"}, i)
      PROVE  ParsedTo(lines, kind, i, next)
  BY <1>8 DEF ParsedTo
<1>9. CASE k \in Headers
  <2>1. k \notin {"frame"} /\ k \notin {"detail"} /\ k \notin {"frame", "detail"}
    BY <1>9 DEF Headers
  <2>2. Done(i) = IF h = 0 THEN Done(h) ELSE Append(Done(h), ThreadsOf(lines, kind)[h])
    <3>1. i - 1 \in 0..Len(lines) /\ (i - 1) + 1 = i
      BY <1>1
    <3> QED
      BY <1>2, <3>1, ThreadsAfter
  <2>3. h # 0 => ThreadsOf(lines, kind)[h] = state.current
    <3>1. i - 1 \in 0..Len(lines) /\ (i - 1) + 1 = i /\ (h # 0 => h \in 1..(i - 1))
      BY <1>1
    <3>2. h # 0 => ThreadsOf(lines, kind)[h] = [header |-> lines[h],
                                                frames |-> Part(h, {"frame"}, i - 1),
                                                extra |-> Part(h, {"detail"}, i - 1)]
      BY <1>2, <1>9, <3>1, ThreadIsComplete
    <3> QED
      BY <1>2, <3>2
  <2>4. \A kinds : k \notin kinds => Part(i, kinds, i) = <<>>
    <3> TAKE kinds
    <3>1. \A j \in PlacesOf(lines, kind, kinds) : j <= i - 1 => ~Latest(i, j)
      BY <1>1 DEF IsLastHeader, PlacesOf
    <3>2. UnderTo(lines, kind, i, kinds, i - 1) = {}
      BY <3>1 DEF UnderTo
    <3>3. At(lines, {}) = <<>>
      BY AtNone DEF IsText
    <3> QED
      BY <1>6, <3>2, <3>3
  <2>5. next = [threads |-> IF idle THEN state.threads ELSE Append(state.threads, state.current),
                current |-> [header |-> line, frames |-> <<>>, extra |-> <<>>],
                misc |-> state.misc]
    BY <1>7, <1>9
  <2> HIDE DEF next, idle, Done, Part, Latest
  <2>6. next.threads = Done(i)
    BY <1>2, <1>3, <2>2, <2>3, <2>5
  <2>7. next.misc = Part(0, {"frame", "detail"}, i)
    BY <1>2, <1>6, <2>1, <2>5
  <2>8. next.current = [header |-> lines[i],
                        frames |-> Part(i, {"frame"}, i),
                        extra |-> Part(i, {"detail"}, i)]
    BY <2>1, <2>4, <2>5
  <2>9. Latest(i, i)
    BY <1>5, <1>9
  <2>a. ParsedTo(lines, kind, i, next)
    BY <1>4, <1>8, <2>6, <2>7, <2>8, <2>9
  <2> QED
    BY <2>a DEF next
<1>a. CASE k \notin Headers
  <2>1. Latest(h, i) /\ (h # 0 => ~Latest(0, i))
    BY <1>4, <1>5, <1>a
  <2> HIDE DEF next, idle, Done, Part, Latest
  <2>2. CASE k = "blank"
    <3>1. k \notin {"frame"} /\ k \notin {"detail"} /\ k \notin {"frame", "detail"}
      BY <2>2
    <3>2. \A g : /\ Part(g, {"frame"}, i) = Part(g, {"frame"}, i - 1)
                 /\ Part(g, {"detail"}, i) = Part(g, {"detail"}, i - 1)
                 /\ Part(g, {"frame", "detail"}, i) = Part(g, {"frame", "detail"}, i - 1)
      BY <1>6, <3>1
    <3>3. next = state
      BY <1>7, <2>2
    <3>4. ParsedTo(lines, kind, i, next)
      BY <1>2, <1>4, <1>8, <2>1, <3>2, <3>3 DEF idle
    <3> QED
      BY <3>4 DEF next
  <2>3. CASE k \in {"frame", "detail"} /\ h = 0
    <3>1. Part(0, {"frame", "detail"}, i) = Append(Part(0, {"frame", "detail"}, i - 1), line)
      BY <1>6, <2>1, <2>3
    <3>2. next = [threads |-> state.threads, current |-> state.current,
                  misc |-> Append(state.misc, line)]
      BY <1>2, <1>7, <2>3
    <3>3. ParsedTo(lines, kind, i, next)
      BY <1>2, <1>4, <1>8, <2>1, <2>3, <3>1, <3>2 DEF idle
    <3> QED
      BY <3>3 DEF next
  <2>4. CASE k = "frame" /\ h # 0
    <3>1. k \in {"frame"} /\ k \notin {"detail"}
      BY <2>4
    <3>2. /\ Part(h, {"frame"}, i) = Append(Part(h, {"frame"}, i - 1), line)
          /\ Part(h, {"detail"}, i) = Part(h, {"detail"}, i - 1)
          /\ Part(0, {"frame", "detail"}, i) = Part(0, {"frame", "detail"}, i - 1)
      BY <1>6, <2>1, <2>4, <3>1
    <3>3. next = [threads |-> state.threads,
                  current |-> [header |-> state.current.header,
                               frames |-> Append(state.current.frames, line),
                               extra |-> state.current.extra],
                  misc |-> state.misc]
      BY <1>3, <1>7, <2>4
    <3>4. next.current = [header |-> lines[h], frames |-> Part(h, {"frame"}, i),
                          extra |-> Part(h, {"detail"}, i)]
      <4>1. /\ state.current.header = lines[h]
            /\ state.current.frames = Part(h, {"frame"}, i - 1)
            /\ state.current.extra = Part(h, {"detail"}, i - 1)
        BY <1>2, <2>4
      <4> QED
        BY <3>2, <3>3, <4>1
    <3>5. next.threads = Done(h) /\ next.misc = Part(0, {"frame", "detail"}, i)
      BY <1>2, <3>2, <3>3
    <3>6. ParsedTo(lines, kind, i, next)
      BY <1>4, <1>8, <2>1, <2>4, <3>4, <3>5
    <3> QED
      BY <3>6 DEF next
  <2>5. CASE k = "detail" /\ h # 0
    <3>1. k \notin {"frame"} /\ k \in {"detail"}
      BY <2>5
    <3>2. /\ Part(h, {"frame"}, i) = Part(h, {"frame"}, i - 1)
          /\ Part(h, {"detail"}, i) = Append(Part(h, {"detail"}, i - 1), line)
          /\ Part(0, {"frame", "detail"}, i) = Part(0, {"frame", "detail"}, i - 1)
      BY <1>6, <2>1, <2>5, <3>1
    <3>3. next = [threads |-> state.threads,
                  current |-> [header |-> state.current.header,
                               frames |-> state.current.frames,
                               extra |-> Append(state.current.extra, line)],
                  misc |-> state.misc]
      BY <1>3, <1>7, <2>5
    <3>4. next.current = [header |-> lines[h], frames |-> Part(h, {"frame"}, i),
                          extra |-> Part(h, {"detail"}, i)]
      <4>1. /\ state.current.header = lines[h]
            /\ state.current.frames = Part(h, {"frame"}, i - 1)
            /\ state.current.extra = Part(h, {"detail"}, i - 1)
        BY <1>2, <2>5
      <4> QED
        BY <3>2, <3>3, <4>1
    <3>5. next.threads = Done(h) /\ next.misc = Part(0, {"frame", "detail"}, i)
      BY <1>2, <3>2, <3>3
    <3>6. ParsedTo(lines, kind, i, next)
      BY <1>4, <1>8, <2>1, <2>5, <3>4, <3>5
    <3> QED
      BY <3>6 DEF next
  <2> QED
    BY <1>1, <1>a, <2>2, <2>3, <2>4, <2>5 DEF LineKinds
<1> QED
  BY <1>9, <1>a

\* parseStackBlocks shows every line in its place.
LEMMA ParseShowsAll ==
    ASSUME NEW lines, NEW kind, IsText(lines, kind)
    PROVE  ShowsAll(parseStackBlocks(lines, kind), lines, kind)
<1> DEFINE n == Len(lines)
           T == ThreadsOf(lines, kind)
           H == PlacesOf(lines, kind, Headers)
           last == Flush(ParseLines(lines, kind))
           V == {b \in Blocks : kind[b.header] = "worker"}
           W == {b \in Blocks : kind[b.header] # "worker"}
<1>1. n \in Nat
  BY DEF IsText
<1>2. PICK f : Parses(f, lines, kind) /\ ParseLines(lines, kind) = f[n]
  BY ParseLinesIs
<1>3. /\ f \in [0..n -> ParseStates] /\ f[0] = StartOfParse
      /\ \A i \in 1..n : f[i] = ParseLine(f[i - 1], lines[i], kind[lines[i]])
  BY <1>2 DEF Parses
<1> DEFINE N == {i \in 0..n : ParsedTo(lines, kind, i, f[i])}
<1>4. 0 \in N
  <2>1. IsLastHeader(lines, kind, 0, 0)
    BY DEF IsLastHeader
  <2>2. HeadersBefore(lines, kind, 0) = {} /\ UnderTo(lines, kind, 0, {"frame", "detail"}, 0) = {}
    BY <1>1 DEF HeadersBefore, UnderTo, PlacesOf
  <2>3. At(T, {}) = <<>> /\ At(lines, {}) = <<>>
    BY ThreadsAre, AtNone DEF IsText
  <2>4. f[0].threads = <<>> /\ f[0].current = NoBlock /\ f[0].misc = <<>>
    BY <1>3 DEF StartOfParse
  <2>5. ParsedTo(lines, kind, 0, f[0])
    <3>1. 0 \in 0..0
      OBVIOUS
    <3> HIDE DEF T
    <3> QED
      BY <2>1, <2>2, <2>3, <2>4, <3>1 DEF ParsedTo, T
  <2> QED
    BY <1>1, <2>5
<1>5. ASSUME NEW i \in 1..n, i - 1 \in N PROVE i \in N
  <2>1. i - 1 \in 0..n /\ i \in 0..n /\ f[i - 1] \in ParseStates
    BY <1>1, <1>3
  <2>2. ParsedTo(lines, kind, i, f[i])
    BY <1>3, <1>5, <2>1, ParsedNext
  <2> QED
    BY <2>1, <2>2
<1>6. \A i \in 0..n : i \in N
  <2> HIDE DEF n, N
  <2> QED
    BY <1>1, <1>4, <1>5, Induction
<1>7. ParsedTo(lines, kind, n, f[n]) /\ f[n] \in ParseStates
  BY <1>1, <1>3, <1>6
<1>8. last.threads = At(T, H) /\ last.misc = Under(lines, kind, 0, {"frame", "detail"})
  <2>1. PICK h \in 0..n :
            /\ IsLastHeader(lines, kind, h, n)
            /\ f[n].threads = At(T, HeadersBefore(lines, kind, h))
            /\ h = 0 => f[n].current = NoBlock
            /\ h # 0 => f[n].current =
                   [header |-> lines[h],
                    frames |-> At(lines, UnderTo(lines, kind, h, {"frame"}, n)),
                    extra |-> At(lines, UnderTo(lines, kind, h, {"detail"}, n))]
            /\ f[n].misc = At(lines, UnderTo(lines, kind, 0, {"frame", "detail"}, n))
    BY <1>7 DEF ParsedTo
  <2>2. HeadersBefore(lines, kind, n + 1) = H
    BY <1>1 DEF HeadersBefore, PlacesOf
  <2>3. At(T, H) = IF h = 0 THEN f[n].threads ELSE Append(f[n].threads, T[h])
    BY <1>1, <2>1, <2>2, n \in 0..n, ThreadsAfter, ZenonT(30)
  <2>4. h # 0 => T[h] = f[n].current /\ f[n].current # NoBlock
    <3> SUFFICES ASSUME h # 0 PROVE T[h] = f[n].current /\ f[n].current # NoBlock
      OBVIOUS
    <3>1. h \in 1..n /\ n \in 0..n
      BY <1>1
    <3>2. T[h] = f[n].current
      BY <2>1, <3>1, ThreadIsComplete
    <3>3. f[n].current.header = lines[h] /\ lines[h] # 0
      BY <2>1, <3>1 DEF IsText
    <3> QED
      BY <3>2, <3>3 DEF NoBlock
  <2>5. UnderTo(lines, kind, 0, {"frame", "detail"}, n)
            = {i \in PlacesOf(lines, kind, {"frame", "detail"}) : IsLastHeader(lines, kind, 0, i)}
    BY <1>1 DEF UnderTo, PlacesOf
  <2>6. last.misc = f[n].misc
        /\ last.threads = IF h = 0 THEN f[n].threads ELSE Append(f[n].threads, f[n].current)
    BY <1>2, <1>7, <2>1, <2>4 DEF Flush, ParseStates
  <2> QED
    BY <2>1, <2>3, <2>4, <2>5, <2>6 DEF Under
<1>9. T \in Seq(Blocks) /\ Len(T) = n /\ At(T, H) \in Seq(Blocks)
  BY ThreadsAre, AtType
<1>a. \A i \in H : i \in 1..Len(T)
  BY <1>9 DEF PlacesOf
<1>b. \A h \in H : T[h] \in Blocks /\ T[h].header = lines[h] /\ kind[lines[h]] \in Headers
  BY <1>1, <1>9 DEF ThreadsOf, ThreadAt, PlacesOf
<1>c. At(At(T, H), Kept(At(T, H), V)) = At(T, PlacesOf(lines, kind, {"worker"}))
  <2>1. {h \in H : T[h] \in V} = PlacesOf(lines, kind, {"worker"})
    BY <1>b DEF PlacesOf, Headers
  <2>2. At(At(T, H), Kept(At(T, H), V)) = At(T, {h \in H : T[h] \in V})
    <3> HIDE DEF T, H, V
    <3> QED
      BY <1>9, <1>a, AtOfAt
  <2> QED
    BY <2>1, <2>2
<1>d. At(At(T, H), Kept(At(T, H), W)) = At(T, PlacesOf(lines, kind, {"thread"}))
  <2>1. {h \in H : T[h] \in W} = PlacesOf(lines, kind, {"thread"})
    BY <1>b DEF PlacesOf, Headers
  <2>2. At(At(T, H), Kept(At(T, H), W)) = At(T, {h \in H : T[h] \in W})
    <3> HIDE DEF T, H, W
    <3> QED
      BY <1>9, <1>a, AtOfAt
  <2> QED
    BY <2>1, <2>2
<1>e. LET workers == {i \in 1..Len(last.threads) : kind[last.threads[i].header] = "worker"}
      IN /\ workers = Kept(At(T, H), V)
         /\ (1..Len(last.threads)) \ workers = Kept(At(T, H), W)
  <2>1. \A i \in 1..Len(At(T, H)) : At(T, H)[i] \in Blocks
    BY <1>9
  <2> HIDE DEF last, T, H
  <2> QED
    BY <1>8, <2>1 DEF Kept
<1>f. parseStackBlocks(lines, kind)
          = [threads |-> At(T, PlacesOf(lines, kind, {"worker"}))
                           \o At(T, PlacesOf(lines, kind, {"thread"})),
             misc |-> Under(lines, kind, 0, {"frame", "detail"})]
  <2> HIDE DEF T, H, V, W
  <2> QED
    BY <1>8, <1>c, <1>d, <1>e DEF parseStackBlocks
<1> QED
  BY <1>f DEF ShowsAll, ThreadsOf
-----------------------------------------------------------------------------
(* The page of the stacks.                                                 *)

\* What is returned as stacks are pieces that were written.
StackInv == \A i \in 1..Len(result.stack) : result.stack[i] \in 1..MaxPieces

\* What the handler has to show until it is done, and what it has shown then.
PageInv ==
    /\ handler = "done" => ShowsAll(page.shown, page.text.lines, page.text.kind)
    /\ handler # "done" /\ request = "root" => page = [text |-> NoText, shown |-> NoPage]
    /\ handler # "done" /\ request = "threads" => IsText(page.text.lines, page.text.kind)

\* The steps of the collector and of its goroutines keep StackInv.
LEMMA CollectStackInv == IInv /\ StackInv /\ Next => StackInv'
<1> SUFFICES ASSUME IInv, StackInv, Next PROVE StackInv'
  OBVIOUS
<1>1. CASE UNCHANGED result
  BY <1>1 DEF StackInv
<1>2. CASE result'.stack = <<>>
  BY <1>2 DEF StackInv
<1>3. CASE Return
  <2>1. /\ all \in Seq(Nat) /\ startup \in Seq(Nat) /\ Len(all) \in Nat
        /\ Spans(all, 0, Len(all)) /\ Len(all) <= MaxPieces
    <3>1. /\ Spans(all, 0, Len(all)) /\ Len(all) \in Nat
          /\ Len(all) <= written /\ written <= MaxPieces
      BY CollectedWithin DEF IInv
    <3>2. written \in Nat /\ MaxPieces \in Nat
      BY BoundsAssumption DEF IInv, CollectorType
    <3> QED
      BY <3>1, <3>2 DEF IInv, CollectorType
  <2>2. \A i \in 1..Len(all) : all[i] \in 1..MaxPieces
    BY <2>1, BoundsAssumption DEF Spans
  <2>3. result'.stack = SubSeq(all, Len(startup) + 1, Len(all))
    BY <1>3 DEF Return
  <2>4. PICK a \in Nat : a = Len(startup)
    BY <2>1
  <2>5. \A i \in 1..Len(SubSeq(all, a + 1, Len(all))) :
            SubSeq(all, a + 1, Len(all))[i] = all[a + i] /\ a + i \in 1..Len(all)
    BY <2>1
  <2> QED
    BY <2>2, <2>3, <2>4, <2>5 DEF StackInv
<1>4. CASE Start
  <2>1. UNCHANGED result \/ result' = [NoResult EXCEPT !.err = "start"]
    BY <1>4 DEF Start
  <2>2. [NoResult EXCEPT !.err = "start"].stack = <<>>
    BY DEF NoResult
  <2> QED
    BY <1>1, <1>2, <2>1, <2>2
<1>5. CASE ReturnGivenUp
  BY <1>2, <1>5 DEF ReturnGivenUp
<1>6. CASE \/ BannerChunk \/ ClosedEarly \/ Idle \/ GiveUp \/ WaitKilled
           \/ SendCommand \/ CloseStdin \/ Drain \/ Wait
  <2>1. UNCHANGED result
    BY <1>6 DEF BannerChunk, ClosedEarly, Idle, GiveUp, WaitKilled, SendCommand, CloseStdin,
                Drain, Wait, collectorVars
  <2> QED
    BY <1>1, <2>1
<1>7. CASE ReadPipeChunks \/ ReadStderr \/ Environment
  <2>1. UNCHANGED result
    BY <1>7 DEF ReadPipeChunks, ReadChunk, ReadEnd, SendChunk, SendDone, unchangedByReader,
                ReadStderr, Environment, unchangedByEnvironment, DebuggerWrites, DebuggerEnds,
                TimerFires, ContextDone, ContextKills, collectorVars
  <2> QED
    BY <1>1, <2>1
<1> QED
  BY <1>3, <1>4, <1>5, <1>6, <1>7 DEF Next, CollectStackOutput

\* A sequence is one of what its elements are.
LEMMA SeqOfItsElements ==
    ASSUME NEW S, NEW T, NEW q \in Seq(S), \A i \in 1..Len(q) : q[i] \in T
    PROVE  q \in Seq(T)
<1>1. Len(q) \in Nat /\ q = [i \in 1..Len(q) |-> q[i]]
  OBVIOUS
<1> QED
  BY <1>1

\* An empty text is a text, and an empty page shows all of it.
LEMMA NothingIsShown ==
    IsText(NoText.lines, NoText.kind) /\ ShowsAll(NoPage, NoText.lines, NoText.kind)
<1> DEFINE T == ThreadsOf(<<>>, <<>>)
<1>1. NoText.lines = <<>> /\ NoText.kind = <<>> /\ NoPage.threads = <<>> /\ NoPage.misc = <<>>
  BY DEF NoText, Text, NoPage
<1>2. IsText(<<>>, <<>>)
  BY DEF IsText
<1>3. \A kinds : PlacesOf(<<>>, <<>>, kinds) = {}
  BY DEF PlacesOf
<1>4. At(T, {}) = <<>> /\ At(<<>>, {}) = <<>>
  <2>1. T \in Seq(Blocks) /\ <<>> \in Seq(Blocks)
    BY <1>2, ThreadsAre
  <2> HIDE DEF T
  <2> QED
    BY <2>1, AtNone
<1>5. Under(<<>>, <<>>, 0, {"frame", "detail"}) = <<>>
  BY <1>3, <1>4 DEF Under
<1>6. <<>> \o <<>> = <<>>
  OBVIOUS
<1> HIDE DEF T
<1>7. ShowsAll(NoPage, <<>>, <<>>)
  BY <1>1, <1>3, <1>4, <1>5, <1>6 DEF ShowsAll, ThreadsOf, T
<1> QED
  BY <1>1, <1>2, <1>7

\* PageShowsTheOutput, for every output of netcoredbg and of gdb: every line of it
\* is on the page that parseStackBlocks makes of it, once and in its place.
THEOREM PageShowsTheOutputHolds == PagesSpec => []PageShowsTheOutput
<1>1. PagesInit => StackInv /\ PageInv
  <2> SUFFICES ASSUME PagesInit PROVE StackInv /\ PageInv
    OBVIOUS
  <2>1. StackInv
    BY DEF PagesInit, Init, NoResult, StackInv
  <2>2. handler = "start" /\ request \in {"root", "stack", "threads"}
    BY DEF PagesInit
  <2>3. CASE request = "threads"
    <3>1. PICK dump \in ThreadDumps : page = [text |-> dump, shown |-> NoPage]
      BY <2>3 DEF PagesInit
    <3>a. PICK n \in 0..MaxLines :
              dump \in {Text([i \in 1..n |-> i], kind) : kind \in [1..n -> LineKinds]}
      BY <3>1 DEF ThreadDumps
    <3>2. PICK kind \in [1..n -> LineKinds] : dump = Text([i \in 1..n |-> i], kind)
      BY <3>a
    <3>3. IsText([i \in 1..n |-> i], kind)
      <4>1. n \in Nat
        BY TextsAssumption
      <4>2. [i \in 1..n |-> i] \in Seq(Nat \ {0}) /\ Len([i \in 1..n |-> i]) = n
        BY <4>1
      <4> QED
        BY <4>2 DEF IsText
    <3> QED
      BY <2>1, <2>2, <2>3, <3>1, <3>2, <3>3 DEF PageInv, Text
  <2>4. CASE request # "threads"
    BY <2>1, <2>2, <2>4 DEF PagesInit, PageInv
  <2> QED
    BY <2>3, <2>4
<1>2. IInv /\ StackInv /\ PageInv /\ [PagesNext]_allVars => StackInv' /\ PageInv'
  <2> SUFFICES ASSUME IInv, StackInv, PageInv, [PagesNext]_allVars PROVE StackInv' /\ PageInv'
    OBVIOUS
  <2>1. StackInv'
    <3>1. UNCHANGED vars \/ Next
      BY DEF PagesNext, allVars, ResolvePID, ProcessesChange, ListAll, CallCollector, Collect,
             RenderStack, ShowThreads, InvalidPID
    <3>2. CASE UNCHANGED vars
      BY <3>2 DEF StackInv, vars, collectorVars
    <3> QED
      BY <3>1, <3>2, CollectStackInv
  <2>2. CASE ResolvePID \/ ProcessesChange \/ Collect \/ UNCHANGED allVars
    <3>1. UNCHANGED pageVars
      BY <2>2 DEF ResolvePID, ProcessesChange, Collect, allVars
    <3> QED
      BY <2>1, <3>1 DEF PageInv, pageVars
  <2>3. CASE CallCollector
    BY <2>1, <2>3 DEF CallCollector, PageInv
  <2>4. CASE ListAll
    <3>1. page = [text |-> NoText, shown |-> NoPage] /\ UNCHANGED <<page, request>>
          /\ request = "root"
      BY <2>4 DEF ListAll, PageInv
    <3>2. page.text = NoText /\ page.shown = NoPage
      BY <3>1
    <3> QED
      BY <2>1, <3>1, <3>2, NothingIsShown DEF PageInv
  <2>5. ASSUME NEW lines, NEW kind, IsText(lines, kind), Show(Text(lines, kind)), handler' = "done"
        PROVE  PageInv'
    <3>1. /\ page'.text.lines = lines /\ page'.text.kind = kind
          /\ page'.shown = parseStackBlocks(lines, kind)
      BY <2>5 DEF Show, Text
    <3> QED
      BY <2>5, <3>1, ParseShowsAll DEF PageInv
  <2>6. CASE RenderStack
    <3>1. PICK kind \in Texts : Show(Text(result.stack, kind)) /\ handler' = "done"
      BY <2>6 DEF RenderStack
    <3>2. result.stack \in Seq(Nat) /\ MaxPieces \in Nat /\ kind \in [1..MaxPieces -> LineKinds]
      BY TextsAssumption, BoundsAssumption DEF IInv, CollectorType
    <3>3. result.stack \in Seq(Nat \ {0})
      <4>1. \A i \in 1..Len(result.stack) : result.stack[i] \in Nat \ {0}
        BY <3>2 DEF StackInv
      <4> DEFINE numbers == Nat \ {0}
      <4>2. \A i \in 1..Len(result.stack) : result.stack[i] \in numbers
        BY <4>1
      <4> HIDE DEF numbers
      <4>3. result.stack \in Seq(numbers)
        BY <3>2, <4>2, SeqOfItsElements
      <4> QED
        BY <4>3 DEF numbers
    <3>4. IsText(result.stack, kind)
      BY <3>2, <3>3 DEF IsText, StackInv
    <3> QED
      BY <2>1, <2>5, <3>1, <3>4
  <2>7. CASE ShowThreads
    <3>1. IsText(page.text.lines, page.text.kind) /\ Show(page.text) /\ handler' = "done"
      BY <2>7 DEF ShowThreads, PageInv
    <3>2. /\ page'.text = page.text
          /\ page'.shown = parseStackBlocks(page.text.lines, page.text.kind)
      BY <3>1 DEF Show
    <3> QED
      BY <2>1, <3>1, <3>2, ParseShowsAll DEF PageInv
  <2>8. CASE InvalidPID
    <3>1. Show(Text(<<>>, <<>>)) /\ handler' = "done"
      BY <2>8 DEF InvalidPID, NoText
    <3>2. IsText(<<>>, <<>>)
      BY DEF IsText
    <3> QED
      BY <2>1, <2>5, <3>1, <3>2
  <2> QED
    BY <2>2, <2>3, <2>4, <2>6, <2>7, <2>8 DEF PagesNext
<1>3. PageInv => PageShowsTheOutput
  BY DEF PageInv, PageShowsTheOutput
<1> QED
  BY <1>1, <1>2, <1>3, Invariance, PTL DEF PagesSpec
=============================================================================
