--------------------------- MODULE LogBroker_proofs ---------------------------
(***************************************************************************)
(* No Broadcast sends on a closed channel and no subscription is lost,     *)
(* shared or leaked, for every number of readers, producers and messages   *)
(* and every capacity.  The argument is mutual exclusion: the map changes  *)
(* only while no producer is ranging over it, so the entries a producer    *)
(* has still to visit stay entries, and an entry's channel is closed in    *)
(* the critical section that removes it.                                   *)
(*                                                                         *)
(* What a subscriber has seen is all that was broadcast since it came, up  *)
(* to the message whose turn has not come; so it misses what found its own *)
(* channel full and nothing else, and the broker implements LogStream.     *)
(***************************************************************************)
EXTENDS LogBroker, SequenceTheorems, TLAPS

\* An entry belongs to the handler that holds its channel; ids are not reused.
EntriesInv ==
    /\ \A c \in clients : c.id < nextID /\ c.id = hid[c.ch]
    /\ \A c, d \in clients : c.id = d.id => c = d
    /\ \A c \in clients : hpc[c.ch] \in {"stream", "cancel"}

\* A handler has its entry from Subscribe to cancel, and a channel is closed
\* only by the cancel of its own handler.
HandlersInv ==
    /\ \A h \in Handlers :
           hpc[h] \in {"stream", "cancel"} => [id |-> hid[h], ch |-> h] \in clients
    /\ \A h \in closed : hpc[h] = "done"

\* The writer is at a Lock, and the readers range over entries of the map.
LockInv ==
    /\ wOwner # None => hpc[wOwner] \in {"subscribe", "cancel"}
    /\ \A p \in Producers : ppc[p] = "send" => todo[p] \subseteq clients

IInv == TypeOK /\ EntriesInv /\ HandlersInv /\ LockInv

\* What has come to the channel of h, or found it full.
Elements(s) == {s[i] : i \in 1..Len(s)}
Seen(h) == Elements(out[h]) \cup Elements(buf[h]) \cup dropped[h]

\* The call of Broadcast p is in has not come to h yet.
StillToCome(h, p) == ppc[p] = "wait" \/ (ppc[p] = "send" /\ \E c \in todo[p] : c.ch = h)

\* The last message of p that was offered to h.
LastOffered(h, p) == IF StillToCome(h, p) THEN sent[p] - 1 ELSE sent[p]

\* A subscriber has seen the messages of p since it came, up to the last one
\* offered, and none before it came.
SeenSince(h, p) ==
    /\ since[h][p] >= 0 /\ since[h][p] <= LastOffered(h, p)
    /\ \A n \in Nat : <<p, n>> \in Seen(h) <=> since[h][p] < n /\ n <= LastOffered(h, p)

SeenInv ==
    /\ \A h \in Handlers : hpc[h] \in {"idle", "subscribe"} => Seen(h) = {}
    /\ \A c \in clients, p \in Producers : SeenSince(c.ch, p)
    /\ \A p \in Producers : ppc[p] # "idle" => sent[p] > 0

\* What a reader took and what waits for it never get less.
FullInv == \A h \in Handlers : dropped[h] # {} => Len(buf[h]) + Len(out[h]) >= Cap

-----------------------------------------------------------------------------
(* Proofs.                                                                 *)

\* The initial states satisfy the invariant.
LEMMA InitIInv == Init => IInv
<1> SUFFICES ASSUME Init PROVE IInv
  OBVIOUS
<1> USE DEF Init
<1>1. TypeOK
  BY MaxMsgsAssumption, CapAssumption DEF TypeOK
<1>2. EntriesInv /\ HandlersInv /\ LockInv
  BY DEF EntriesInv, HandlersInv, LockInv
<1> QED
  BY <1>1, <1>2 DEF IInv

\* Acquiring the lock for writing preserves it.
LEMMA WLockIInv ==
    ASSUME IInv, NEW h \in Handlers, WLock(h) PROVE IInv'
<1> USE DEF IInv, TypeOK, WLock, brokerVars, history
<1>1. TypeOK'
  OBVIOUS
<1>2. EntriesInv'
  BY DEF EntriesInv, Entry
<1>3. HandlersInv'
  BY DEF HandlersInv
<1>4. LockInv'
  BY NoneAssumption DEF LockInv
<1> QED
  BY <1>1, <1>2, <1>3, <1>4

\* Subscribe preserves it: the new entry has a fresh id, and the handler had
\* no entry.
LEMMA SubscribeIInv ==
    ASSUME IInv, NEW h \in Handlers, Subscribe(h) PROVE IInv'
<1> DEFINE new == [id |-> nextID, ch |-> h]
<1> USE DEF IInv
<1>1. clients' = clients \cup {new} /\ new \in Entry /\ \A c \in clients : c.ch # h
  <2>1. {c \in clients : c.id # nextID} = clients
    BY DEF EntriesInv, TypeOK, Entry
  <2>2. \A c \in clients : c.ch # h
    BY DEF Subscribe, EntriesInv
  <2>3. new \in Entry
    BY DEF TypeOK, Entry
  <2> QED
    BY <2>1, <2>2, <2>3 DEF Subscribe
<1>2. TypeOK'
  <2>1. todo' \in [Producers -> SUBSET Entry]
    BY <1>1 DEF Subscribe, WUnlock, TypeOK
  <2>2. since' \in [Handlers -> [Producers -> Int]]
    BY DEF Subscribe, TypeOK
  <2>3. hid' \in [Handlers -> Int] /\ nextID' \in Nat
    BY DEF Subscribe, TypeOK
  <2>4. ppc' \in [Producers -> {"idle", "wait", "send"}] /\ wOwner' \in Handlers \cup {None}
    BY DEF Subscribe, WUnlock, TypeOK
  <2>5. hpc' \in [Handlers -> {"idle", "subscribe", "stream", "cancel", "done"}]
    BY DEF Subscribe, TypeOK
  <2>6. clients' \subseteq Entry
    BY <1>1 DEF TypeOK
  <2> QED
    BY <2>1, <2>2, <2>3, <2>4, <2>5, <2>6 DEF Subscribe, TypeOK
<1>3. EntriesInv'
  BY <1>1 DEF EntriesInv, Subscribe, TypeOK, Entry
<1>4. HandlersInv'
  BY <1>1 DEF HandlersInv, Subscribe, TypeOK
<1>5. LockInv'
  BY <1>1 DEF LockInv, Subscribe, WUnlock, WLocked, Readers, TypeOK
<1> QED
  BY <1>2, <1>3, <1>4, <1>5

\* cancel preserves it: it removes the handler's entry and no other, while no
\* producer is ranging over the map.
LEMMA CancelIInv ==
    ASSUME IInv, NEW h \in Handlers, Cancel(h) PROVE IInv'
<1> DEFINE own == [id |-> hid[h], ch |-> h]
<1> USE DEF IInv
<1>1. {c \in clients : c.id = hid[h]} = {own} /\ own \in clients
  BY DEF Cancel, HandlersInv, EntriesInv
<1>2. clients' = clients \ {own} /\ closed' = closed \cup {h}
  BY <1>1 DEF Cancel
<1>3. \A c \in clients \ {own} : c.ch # h
  BY DEF EntriesInv, TypeOK, Entry
<1>4. TypeOK'
  <2>1. todo' \in [Producers -> SUBSET Entry]
    BY <1>2 DEF Cancel, WUnlock, TypeOK
  <2>2. ppc' \in [Producers -> {"idle", "wait", "send"}] /\ wOwner' \in Handlers \cup {None}
    BY DEF Cancel, WUnlock, TypeOK
  <2>3. hpc' \in [Handlers -> {"idle", "subscribe", "stream", "cancel", "done"}]
    BY DEF Cancel, TypeOK
  <2> QED
    BY <1>2, <2>1, <2>2, <2>3 DEF Cancel, history, TypeOK
<1>5. EntriesInv'
  BY <1>2, <1>3 DEF EntriesInv, Cancel, TypeOK, Entry
<1>6. HandlersInv'
  BY <1>1, <1>2, <1>3 DEF HandlersInv, Cancel, TypeOK
<1>7. LockInv'
  BY <1>2 DEF LockInv, Cancel, WUnlock, WLocked, Readers, TypeOK
<1> QED
  BY <1>4, <1>5, <1>6, <1>7

\* The other steps of a request preserve it: none touches the map or the lock.
LEMMA StreamingIInv ==
    ASSUME IInv, NEW h \in Handlers, Receive(h) \/ ContextDone(h) \/ Disconnect(h)
    PROVE  IInv'
<1> USE DEF IInv, brokerVars, history
<1>1. CASE Receive(h)
  <2>1. TypeOK'
    <3>1. buf[h] \in Seq(Producers \X Nat) /\ buf[h] # <<>>
      BY <1>1 DEF Receive, TypeOK
    <3>2. Head(buf[h]) \in Producers \X Nat /\ Tail(buf[h]) \in Seq(Producers \X Nat)
      BY <3>1
    <3>3. buf' \in [Handlers -> Seq(Producers \X Nat)]
      BY <1>1, <3>2 DEF Receive, TypeOK
    <3>4. out' \in [Handlers -> Seq(Producers \X Nat)]
      <4>1. Append(out[h], Head(buf[h])) \in Seq(Producers \X Nat)
        BY <3>2 DEF TypeOK
      <4> QED
        BY <1>1, <4>1 DEF Receive, TypeOK
    <3>5. hpc' \in [Handlers -> {"idle", "subscribe", "stream", "cancel", "done"}]
      BY <1>1 DEF Receive, TypeOK
    <3>6. \A k \in Handlers : Len(buf'[k]) <= Cap
      <4>1. Len(Tail(buf[h])) <= Len(buf[h])
        BY <3>1
      <4>2. Len(buf[h]) <= Cap /\ Len(buf[h]) \in Nat /\ Len(Tail(buf[h])) \in Nat
        <5>1. Len(buf[h]) <= Cap
          BY DEF TypeOK
        <5>2. Len(buf[h]) \in Nat /\ Len(Tail(buf[h])) \in Nat
          BY <3>1, <3>2, LenProperties
        <5> QED
          BY <5>1, <5>2
      <4>3. Len(Tail(buf[h])) <= Cap
        BY <4>1, <4>2, CapAssumption
      <4>4. buf' = [buf EXCEPT ![h] = Tail(buf[h])]
        BY <1>1 DEF Receive
      <4> QED
        BY <4>3, <4>4 DEF TypeOK
    <3> QED
      BY <1>1, <3>3, <3>4, <3>5, <3>6 DEF Receive, TypeOK
  <2>2. EntriesInv'
    <3>1. \A k \in Handlers : hpc'[k] # hpc[k] => hpc[k] = "stream" /\ hpc'[k] = "cancel"
      <4>1. hpc \in [Handlers -> {"idle", "subscribe", "stream", "cancel", "done"}]
        BY DEF TypeOK
      <4>2. hpc[h] = "stream" /\ (hpc' = hpc \/ hpc' = [hpc EXCEPT ![h] = "cancel"])
        BY <1>1 DEF Receive
      <4> HIDE DEF IInv
      <4> QED
        BY <4>1, <4>2
    <3>2. \A c \in clients : c.ch \in Handlers
      BY DEF TypeOK, Entry
    <3>3. clients' = clients /\ nextID' = nextID /\ hid' = hid
      BY <1>1 DEF Receive
    <3> QED
      BY <3>1, <3>2, <3>3 DEF EntriesInv
  <2>3. HandlersInv'
    BY <1>1 DEF Receive, TypeOK, HandlersInv
  <2>4. LockInv'
    BY <1>1 DEF Receive, TypeOK, LockInv
  <2> QED
    BY <2>1, <2>2, <2>3, <2>4
<1>2. CASE ContextDone(h)
  BY <1>2 DEF ContextDone, TypeOK, EntriesInv, HandlersInv, LockInv, Entry
<1>3. CASE Disconnect(h)
  BY <1>3 DEF Disconnect, TypeOK, EntriesInv, HandlersInv, LockInv
<1> QED
  BY <1>1, <1>2, <1>3

\* The steps of a Broadcast preserve it.
LEMMA BroadcastIInv ==
    ASSUME IInv, NEW p \in Producers, Broadcast(p) PROVE IInv'
<1> USE DEF IInv, brokerVars, history
<1>1. CASE RLock(p)
  <2>1. TypeOK'
    <3>1. sent' \in [Producers -> Nat] /\ \A q \in Producers : sent'[q] <= MaxMsgs[q]
      <4>1. sent[p] + 1 \in Nat /\ sent[p] + 1 <= MaxMsgs[p]
        <5>1. MaxMsgs[p] \in Nat
          BY MaxMsgsAssumption
        <5>2. sent[p] \in Nat
          BY DEF TypeOK
        <5>3. sent[p] < MaxMsgs[p]
          BY <1>1 DEF RLock
        <5> QED
          BY <5>1, <5>2, <5>3
      <4>2. sent' = [sent EXCEPT ![p] = sent[p] + 1]
        BY <1>1 DEF RLock
      <4> QED
        BY <4>1, <4>2 DEF TypeOK
    <3>2. ppc' \in [Producers -> {"idle", "wait", "send"}]
      BY <1>1 DEF RLock, TypeOK
    <3>3. todo' \in [Producers -> SUBSET Entry]
      BY <1>1 DEF RLock, TypeOK
    <3> QED
      BY <1>1, <3>1, <3>2, <3>3 DEF RLock, TypeOK
  <2>2. EntriesInv'
    BY <1>1 DEF RLock, TypeOK, EntriesInv
  <2>3. HandlersInv'
    BY <1>1 DEF RLock, HandlersInv
  <2>4. LockInv'
    BY <1>1 DEF RLock, TypeOK, LockInv
  <2> QED
    BY <2>1, <2>2, <2>3, <2>4
<1>2. ASSUME NEW c \in todo[p], Offer(p, c) PROVE IInv'
  <2>1. TypeOK'
    <3>1. c.ch \in Handlers /\ <<p, sent[p]>> \in Producers \X Nat
      BY <1>2 DEF TypeOK, Entry
    <3>2. buf' \in [Handlers -> Seq(Producers \X Nat)]
      <4>1. Append(buf[c.ch], <<p, sent[p]>>) \in Seq(Producers \X Nat)
        BY <3>1 DEF TypeOK
      <4>2. buf' = buf \/ buf' = [buf EXCEPT ![c.ch] = Append(@, <<p, sent[p]>>)]
        BY <1>2 DEF Offer
      <4> QED
        BY <3>1, <4>1, <4>2 DEF TypeOK
    <3>3. dropped' \in [Handlers -> SUBSET (Producers \X Nat)]
      <4>1. dropped[c.ch] \cup {<<p, sent[p]>>} \in SUBSET (Producers \X Nat)
        BY <3>1 DEF TypeOK
      <4>2. dropped' = dropped \/ dropped' = [dropped EXCEPT ![c.ch] = @ \cup {<<p, sent[p]>>}]
        BY <1>2 DEF Offer
      <4>3. dropped \in [Handlers -> SUBSET (Producers \X Nat)]
        BY DEF TypeOK
      <4> HIDE DEF IInv
      <4> QED
        BY <3>1, <4>1, <4>2, <4>3
    <3>4. todo' \in [Producers -> SUBSET Entry]
      BY <1>2 DEF Offer, TypeOK
    <3>5. \A k \in Handlers : Len(buf'[k]) <= Cap
      <4>1. CASE ~HasRoom(c.ch)
        BY <1>2, <4>1 DEF Offer, TypeOK
      <4>2. CASE HasRoom(c.ch)
        <5>1. buf[c.ch] \in Seq(Producers \X Nat)
          BY <3>1 DEF TypeOK
        <5>2. Len(Append(buf[c.ch], <<p, sent[p]>>)) = Len(buf[c.ch]) + 1
          BY <3>1, <5>1
        <5>3. Len(Append(buf[c.ch], <<p, sent[p]>>)) <= Cap
          BY <4>2, <5>1, <5>2, CapAssumption DEF HasRoom
        <5>4. buf' = [buf EXCEPT ![c.ch] = Append(@, <<p, sent[p]>>)]
          BY <1>2, <4>2 DEF Offer
        <5> QED
          BY <5>3, <5>4 DEF TypeOK
      <4> QED
        BY <4>1, <4>2
    <3> QED
      BY <1>2, <3>2, <3>3, <3>4, <3>5 DEF Offer, TypeOK
  <2>2. EntriesInv' /\ HandlersInv' /\ LockInv'
    BY <1>2 DEF Offer, TypeOK, EntriesInv, HandlersInv, LockInv
  <2> QED
    BY <2>1, <2>2
<1>3. CASE RUnlock(p)
  BY <1>3 DEF RUnlock, TypeOK, EntriesInv, HandlersInv, LockInv
<1> QED
  BY <1>1, <1>2, <1>3 DEF Broadcast

\* IInv is an invariant.
THEOREM Invariance == Spec => []IInv
<1>1. IInv /\ [Next]_vars => IInv'
  <2> SUFFICES ASSUME IInv, [Next]_vars PROVE IInv'
    OBVIOUS
  <2>1. CASE Next
    BY <2>1, WLockIInv, SubscribeIInv, CancelIInv, StreamingIInv, BroadcastIInv
    DEF Next, HandleLog
  <2>2. CASE UNCHANGED vars
    BY <2>2 DEF IInv, TypeOK, EntriesInv, HandlersInv, LockInv, vars
  <2> QED
    BY <2>1, <2>2
<1> QED
  BY <1>1, InitIInv, PTL DEF Spec

\* TypeOK, for every instance.
THEOREM TypeCorrect == Spec => []TypeOK
  BY Invariance, PTL DEF IInv

\* NoSendOnClosed, for every instance: no step of Broadcast or of cancel panics.
THEOREM NoSendOnClosedHolds == Spec => []NoSendOnClosed
<1>1. IInv => NoSendOnClosed
  BY DEF IInv, EntriesInv, HandlersInv, LockInv, NoSendOnClosed
<1> QED
  BY <1>1, Invariance, PTL

\* OwnSubscription, for every instance.
THEOREM OwnSubscriptionHolds == Spec => []OwnSubscription
<1>1. IInv => OwnSubscription
  BY DEF IInv, EntriesInv, HandlersInv, OwnSubscription
<1> QED
  BY <1>1, Invariance, PTL

-----------------------------------------------------------------------------
(* The messages.                                                           *)

\* The elements of a sequence that grows at its end.
LEMMA ElementsAppend ==
    \A s \in Seq(Producers \X Nat), x \in Producers \X Nat :
        Elements(Append(s, x)) = Elements(s) \cup {x}
<1> DEFINE S == Producers \X Nat
<1> SUFFICES ASSUME NEW s \in Seq(S), NEW x \in S
             PROVE  Elements(Append(s, x)) = Elements(s) \cup {x}
  OBVIOUS
<1> HIDE DEF S
<1>1. PICK n \in Nat, t \in Seq(S) : n = Len(s) /\ t = Append(s, x)
  <2>1. Len(s) \in Nat /\ Append(s, x) \in Seq(S)
    OBVIOUS
  <2> QED
    BY <2>1
<1>2. Len(t) = n + 1 /\ t[n + 1] = x /\ \A i \in 1..n : t[i] = s[i]
  BY <1>1
<1>3. \A j \in 1..(n + 1) : j \in 1..n \/ j = n + 1
  BY <1>1
<1>4. n + 1 \in 1..(n + 1) /\ \A i \in 1..n : i \in 1..(n + 1)
  BY <1>1
<1>5. {t[i] : i \in 1..(n + 1)} = {s[i] : i \in 1..n} \cup {x}
  BY <1>2, <1>3, <1>4, Zenon
<1> QED
  BY <1>1, <1>2, <1>5 DEF Elements

\* The elements of a sequence that loses its first.
LEMMA ElementsHead ==
    \A s \in Seq(Producers \X Nat) :
        s # <<>> => Elements(s) = {Head(s)} \cup Elements(Tail(s))
<1> DEFINE S == Producers \X Nat
<1> SUFFICES ASSUME NEW s \in Seq(S), s # <<>>
             PROVE  Elements(s) = {Head(s)} \cup Elements(Tail(s))
  OBVIOUS
<1> HIDE DEF S
<1>1. PICK n \in Nat : n + 1 = Len(s)
  <2>1. Len(s) \in Nat /\ Len(s) # 0
    OBVIOUS
  <2>2. Len(s) - 1 \in Nat /\ (Len(s) - 1) + 1 = Len(s)
    BY <2>1
  <2> QED
    BY <2>2
<1>2. PICK h, t : h = Head(s) /\ t = Tail(s)
  OBVIOUS
<1>3. Len(t) = n /\ h = s[1] /\ \A i \in 1..n : t[i] = s[i + 1]
  BY <1>1, <1>2
<1>4. \A j \in 1..(n + 1) : j = 1 \/ \E i \in 1..n : j = i + 1
  <2> SUFFICES ASSUME NEW j \in 1..(n + 1), j # 1 PROVE \E i \in 1..n : j = i + 1
    OBVIOUS
  <2>1. j - 1 \in 1..n /\ j = (j - 1) + 1
    BY <1>1
  <2> QED
    BY <2>1
<1>5. 1 \in 1..(n + 1) /\ \A i \in 1..n : i + 1 \in 1..(n + 1)
  BY <1>1
<1>6. \A j \in 1..(n + 1) : s[j] = h \/ \E i \in 1..n : s[j] = t[i]
  BY <1>3, <1>4
<1>7. (\E j \in 1..(n + 1) : h = s[j]) /\ \A i \in 1..n : \E j \in 1..(n + 1) : t[i] = s[j]
  BY <1>3, <1>5
<1>8. {s[j] : j \in 1..(n + 1)} = {h} \cup {t[i] : i \in 1..n}
  <2>1. \A y \in {s[j] : j \in 1..(n + 1)} : y \in {h} \cup {t[i] : i \in 1..n}
    BY <1>6
  <2>2. h \in {s[j] : j \in 1..(n + 1)}
    BY <1>7
  <2>3. \A y \in {t[i] : i \in 1..n} : y \in {s[j] : j \in 1..(n + 1)}
    BY <1>7
  <2> QED
    BY <2>1, <2>2, <2>3
<1> QED
  BY <1>1, <1>2, <1>3, <1>8, SMTT(30) DEF Elements

\* A channel is in one entry of the map.
LEMMA OneEntry ==
    ASSUME EntriesInv, NEW c \in clients, NEW d \in clients, c.ch = d.ch PROVE c = d
  BY DEF EntriesInv

\* What unlocking the map means to its entries: a producer that waited for the lock
\* comes to each of them.
LEMMA OfferedUnlocked ==
    ASSUME TypeOK, WUnlock, Readers = {}, UNCHANGED sent,
           NEW c \in clients', NEW p \in Producers
    PROVE  /\ LastOffered(c.ch, p)' = (IF ppc[p] = "wait" THEN sent[p] - 1 ELSE sent[p])
           /\ LastOffered(c.ch, p) = (IF ppc[p] = "wait" THEN sent[p] - 1 ELSE sent[p])
           /\ ppc'[p] # "idle" <=> ppc[p] = "wait"
<1>1. ppc[p] # "send" /\ ppc[p] \in {"idle", "wait", "send"}
  BY DEF Readers, TypeOK
<1>2. ppc'[p] = (IF ppc[p] = "wait" THEN "send" ELSE ppc[p])
  BY DEF WUnlock, TypeOK
<1>3. ppc[p] = "wait" => c \in todo'[p]
  BY DEF WUnlock
<1> QED
  BY <1>1, <1>2, <1>3 DEF LastOffered, StillToCome

\* Steps that move no message, and of producers only the map, keep what was seen.
LEMMA SeenAlone ==
    ASSUME TypeOK, SeenInv, FullInv,
           UNCHANGED <<clients, buf, out, dropped, since, sent, todo, ppc>>,
           \A h \in Handlers : hpc'[h] \in {"idle", "subscribe"} => hpc[h] \in {"idle", "subscribe"}
    PROVE  SeenInv' /\ FullInv'
<1>1. \A h \in Handlers : Seen(h)' = Seen(h)
  BY DEF Seen
<1>2. \A h \in Handlers, p \in Producers : LastOffered(h, p)' = LastOffered(h, p)
  BY DEF LastOffered, StillToCome
<1>3. \A c \in clients : c.ch \in Handlers
  BY DEF TypeOK, Entry
<1>4. \A c \in clients, p \in Producers : SeenSince(c.ch, p)'
  BY <1>1, <1>2, <1>3 DEF SeenInv, SeenSince
<1> QED
  BY <1>1, <1>4 DEF SeenInv, FullInv

\* A new subscriber has seen nothing, and nothing was offered to it.
LEMMA SubscribeSeen ==
    ASSUME IInv, SeenInv, FullInv, NEW h \in Handlers, Subscribe(h) PROVE SeenInv' /\ FullInv'
<1> USE DEF IInv
<1>1. \A k \in Handlers : Seen(k)' = Seen(k)
  BY DEF Subscribe, Seen
<1>2. /\ \A c \in clients' : c.ch \in Handlers /\ (c \in clients \/ c.ch = h)
      /\ \A c \in clients : c.ch # h
  <2>1. \A c \in clients : c.ch \in Handlers /\ c.ch # h
    BY DEF Subscribe, EntriesInv, TypeOK, Entry
  <2>2. \A c \in clients' : c \in clients \/ c = [id |-> nextID, ch |-> h]
    BY DEF Subscribe
  <2> QED
    BY <2>1, <2>2
<1>3. ASSUME NEW c \in clients', NEW p \in Producers PROVE SeenSince(c.ch, p)'
  <2>1. /\ LastOffered(c.ch, p)' = (IF ppc[p] = "wait" THEN sent[p] - 1 ELSE sent[p])
        /\ LastOffered(c.ch, p) = (IF ppc[p] = "wait" THEN sent[p] - 1 ELSE sent[p])
    BY OfferedUnlocked DEF Subscribe, WLocked
  <2>2. CASE c \in clients
    <3>1. c.ch # h /\ c.ch \in Handlers
      BY <1>2, <2>2
    <3>2. since'[c.ch] = since[c.ch]
      BY <3>1 DEF Subscribe, TypeOK
    <3> QED
      BY <1>1, <2>1, <2>2, <3>1, <3>2 DEF SeenInv, SeenSince
  <2>3. CASE c.ch = h
    <3>1. Seen(h)' = {}
      BY <1>1 DEF Subscribe, SeenInv
    <3>2. since'[h][p] = (IF ppc[p] = "wait" THEN sent[p] - 1 ELSE sent[p])
      BY DEF Subscribe, TypeOK
    <3>3. sent[p] \in Nat /\ (ppc[p] = "wait" => sent[p] > 0)
      BY DEF SeenInv, TypeOK
    <3> QED
      BY <2>1, <2>3, <3>1, <3>2, <3>3 DEF SeenSince
  <2> QED
    BY <1>2, <2>2, <2>3
<1>4. \A p \in Producers : ppc'[p] # "idle" => sent'[p] > 0
  BY DEF Subscribe, WUnlock, SeenInv, TypeOK
<1>5. \A k \in Handlers : hpc'[k] \in {"idle", "subscribe"} => hpc[k] \in {"idle", "subscribe"}
  BY DEF Subscribe, TypeOK
<1>6. FullInv'
  BY DEF Subscribe, FullInv
<1> QED
  BY <1>1, <1>3, <1>4, <1>5, <1>6 DEF SeenInv

\* The entries that are left when one is gone keep what was offered to them.
LEMMA CancelSeen ==
    ASSUME IInv, SeenInv, FullInv, NEW h \in Handlers, Cancel(h) PROVE SeenInv' /\ FullInv'
<1> USE DEF IInv
<1>1. \A k \in Handlers : Seen(k)' = Seen(k)
  BY DEF Cancel, Seen, history
<1>2. clients' \subseteq clients /\ \A c \in clients : c.ch \in Handlers
  BY DEF Cancel, TypeOK, Entry
<1>3. ASSUME NEW c \in clients', NEW p \in Producers PROVE SeenSince(c.ch, p)'
  <2>1. LastOffered(c.ch, p)' = LastOffered(c.ch, p)
    BY OfferedUnlocked DEF Cancel, WLocked
  <2> QED
    BY <1>1, <1>2, <2>1 DEF SeenInv, SeenSince, Cancel, history
<1>4. \A p \in Producers : ppc'[p] # "idle" => sent'[p] > 0
  BY DEF Cancel, WUnlock, SeenInv, TypeOK
<1>5. \A k \in Handlers : hpc'[k] \in {"idle", "subscribe"} => hpc[k] \in {"idle", "subscribe"}
  BY DEF Cancel, TypeOK
<1>6. FullInv'
  BY DEF Cancel, FullInv, history
<1> QED
  BY <1>1, <1>3, <1>4, <1>5, <1>6 DEF SeenInv

\* A message that is taken was seen before.
LEMMA ReceiveSeen ==
    ASSUME IInv, SeenInv, FullInv, NEW h \in Handlers, Receive(h) PROVE SeenInv' /\ FullInv'
<1> USE DEF IInv
<1>1. PICK b \in Seq(Producers \X Nat), o \in Seq(Producers \X Nat) :
          b = buf[h] /\ o = out[h] /\ b # <<>>
  BY DEF Receive, TypeOK
<1>2. /\ buf'[h] = Tail(b) /\ out'[h] = Append(o, Head(b))
      /\ \A k \in Handlers \ {h} : buf'[k] = buf[k] /\ out'[k] = out[k]
  BY <1>1 DEF Receive, TypeOK
<1>3. Head(b) \in Producers \X Nat /\ Tail(b) \in Seq(Producers \X Nat)
  BY <1>1
<1>4. ASSUME NEW k \in Handlers PROVE Seen(k)' = Seen(k)
  <2>1. CASE k = h
    <3>1. Elements(out'[h]) = Elements(o) \cup {Head(b)}
      <4>1. Elements(Append(o, Head(b))) = Elements(o) \cup {Head(b)}
        BY <1>1, <1>3, ElementsAppend, Zenon
      <4> QED
        BY <1>2, <4>1
    <3>2. Elements(b) = {Head(b)} \cup Elements(buf'[h])
      <4>1. Elements(b) = {Head(b)} \cup Elements(Tail(b))
        BY <1>1, ElementsHead, Zenon
      <4> QED
        BY <1>2, <4>1
    <3>3. dropped' = dropped
      BY DEF Receive, history
    <3> QED
      BY <1>1, <2>1, <3>1, <3>2, <3>3 DEF Seen
  <2>2. CASE k # h
    BY <1>2, <2>2 DEF Seen, Receive, history
  <2> QED
    BY <2>1, <2>2
<1>5. \A c \in clients : c.ch \in Handlers
  BY DEF TypeOK, Entry
<1>6. \A k \in Handlers, p \in Producers : LastOffered(k, p)' = LastOffered(k, p)
  BY DEF LastOffered, StillToCome, Receive
<1>7. \A c \in clients', p \in Producers : SeenSince(c.ch, p)'
  BY <1>4, <1>5, <1>6 DEF SeenInv, SeenSince, Receive, brokerVars, history
<1>8. \A k \in Handlers : hpc'[k] \in {"idle", "subscribe"} => hpc[k] \in {"idle", "subscribe"}
  BY DEF Receive, TypeOK
<1>9. FullInv'
  <2>1. Len(buf'[h]) + Len(out'[h]) = Len(buf[h]) + Len(out[h])
    <3>1. PICK m \in Nat, n \in Nat : m + 1 = Len(b) /\ n = Len(o)
      <4>1. Len(b) \in Nat /\ Len(b) # 0 /\ Len(o) \in Nat
        BY <1>1
      <4>2. Len(b) - 1 \in Nat /\ (Len(b) - 1) + 1 = Len(b)
        BY <4>1
      <4> QED
        BY <4>1, <4>2
    <3>2. Len(Tail(b)) = m /\ Len(Append(o, Head(b))) = n + 1
      BY <1>1, <1>3, <3>1
    <3>3. Len(buf'[h]) = m /\ Len(out'[h]) = n + 1 /\ Len(buf[h]) = m + 1 /\ Len(out[h]) = n
      BY <1>1, <1>2, <3>1, <3>2
    <3>4. m + (n + 1) = (m + 1) + n
      BY <3>1
    <3> QED
      BY <3>3, <3>4
  <2>2. \A k \in Handlers : Len(buf'[k]) + Len(out'[k]) = Len(buf[k]) + Len(out[k])
    BY <1>2, <2>1
  <2> QED
    BY <2>2 DEF FullInv, Receive, history
<1> QED
  BY <1>4, <1>7, <1>8, <1>9 DEF SeenInv, Receive

\* A Broadcast that begins comes to every subscriber.
LEMMA RLockSeen ==
    ASSUME IInv, SeenInv, FullInv, NEW p \in Producers, RLock(p) PROVE SeenInv' /\ FullInv'
<1> USE DEF IInv
<1>1. \A k \in Handlers : Seen(k)' = Seen(k)
  BY DEF RLock, Seen, history
<1>2. \A c \in clients : c.ch \in Handlers
  BY DEF TypeOK, Entry
<1>3. sent'[p] = sent[p] + 1 /\ sent[p] \in Nat /\ \A q \in Producers \ {p} : sent'[q] = sent[q]
  BY DEF RLock, TypeOK
<1>4. ASSUME NEW c \in clients, NEW q \in Producers PROVE LastOffered(c.ch, q)' = LastOffered(c.ch, q)
  <2>1. CASE q = p
    <3>1. StillToCome(c.ch, p)' /\ ~StillToCome(c.ch, p)
      BY DEF RLock, StillToCome, TypeOK
    <3> QED
      BY <1>3, <2>1, <3>1 DEF LastOffered
  <2>2. CASE q # p
    BY <1>3, <2>2 DEF RLock, LastOffered, StillToCome, TypeOK
  <2> QED
    BY <2>1, <2>2
<1>5. \A c \in clients', q \in Producers : SeenSince(c.ch, q)'
  BY <1>1, <1>2, <1>4 DEF SeenInv, SeenSince, RLock, brokerVars, history
<1>6. \A q \in Producers : ppc'[q] # "idle" => sent'[q] > 0
  <2> SUFFICES ASSUME NEW q \in Producers, ppc'[q] # "idle" PROVE sent'[q] > 0
    OBVIOUS
  <2>1. CASE q = p
    BY <1>3, <2>1
  <2>2. CASE q # p
    BY <1>3, <2>2 DEF RLock, SeenInv, TypeOK
  <2> QED
    BY <2>1, <2>2
<1>7. FullInv'
  BY DEF RLock, FullInv, history
<1> QED
  BY <1>1, <1>5, <1>6, <1>7 DEF SeenInv, RLock

\* What holds Cap messages holds as many with some more.
LEMMA AtLeast ==
    \A m, n \in Nat : /\ m >= Cap => m + n >= Cap
                      /\ m + n >= Cap => (m + 1) + n >= Cap
<1>1. Cap \in Nat
  BY CapAssumption
<1> QED
  BY <1>1

\* A subscriber whose turn it is has seen the message then.
LEMMA OfferSeen ==
    ASSUME IInv, SeenInv, FullInv, NEW p \in Producers, NEW c \in todo[p], Offer(p, c)
    PROVE  SeenInv' /\ FullInv'
<1> USE DEF IInv
<1>1. c \in clients /\ c.ch \in Handlers /\ \A d \in clients : d.ch \in Handlers
  BY DEF Offer, LockInv, TypeOK, Entry
<1>2. <<p, sent[p]>> \in Producers \X Nat /\ sent[p] \in Nat /\ sent[p] > 0
  BY DEF Offer, TypeOK, SeenInv
<1>3. PICK b \in Seq(Producers \X Nat) : b = buf[c.ch]
  BY <1>1 DEF TypeOK
<1>4. Seen(c.ch)' = Seen(c.ch) \cup {<<p, sent[p]>>}
  <2>1. CASE HasRoom(c.ch)
    <3>1. buf'[c.ch] = Append(b, <<p, sent[p]>>) /\ out' = out /\ dropped' = dropped
      BY <1>1, <1>3, <2>1 DEF Offer, TypeOK
    <3>2. Elements(buf'[c.ch]) = Elements(b) \cup {<<p, sent[p]>>}
      <4>1. Elements(Append(b, <<p, sent[p]>>)) = Elements(b) \cup {<<p, sent[p]>>}
        <5>1. PICK x \in Producers \X Nat : x = <<p, sent[p]>>
          BY <1>2
        <5>2. Elements(Append(b, x)) = Elements(b) \cup {x}
          BY <1>3, <5>1, ElementsAppend, Zenon
        <5> QED
          BY <5>1, <5>2
      <4> QED
        BY <3>1, <4>1
    <3> QED
      BY <1>3, <3>1, <3>2 DEF Seen
  <2>2. CASE ~HasRoom(c.ch)
    <3>1. dropped'[c.ch] = dropped[c.ch] \cup {<<p, sent[p]>>} /\ buf' = buf /\ out' = out
      BY <1>1, <2>2 DEF Offer, TypeOK
    <3> QED
      BY <3>1 DEF Seen
  <2> QED
    BY <2>1, <2>2
<1>5. \A k \in Handlers : k # c.ch => Seen(k)' = Seen(k)
  BY DEF Seen, Offer, TypeOK
<1>6. todo'[p] = todo[p] \ {c} /\ \A q \in Producers \ {p} : todo'[q] = todo[q]
  BY DEF Offer, TypeOK
<1>7. ASSUME NEW d \in clients, NEW q \in Producers PROVE SeenSince(d.ch, q)'
  <2>1. SeenSince(d.ch, q) /\ since' = since
    BY DEF SeenInv, Offer
  <2>2. CASE q = p /\ d.ch = c.ch
    <3>1. StillToCome(d.ch, p)
      BY <2>2 DEF Offer, StillToCome
    <3>2. ~StillToCome(d.ch, p)'
      <4>1. \A e \in todo'[p] : e.ch # c.ch
        BY <1>1, <1>6, OneEntry DEF Offer, LockInv
      <4> QED
        BY <2>2, <4>1 DEF StillToCome, Offer
    <3>3. LastOffered(d.ch, p) = sent[p] - 1 /\ LastOffered(d.ch, p)' = sent[p]
      BY <3>1, <3>2 DEF LastOffered, Offer
    <3>4. \A n \in Nat : <<p, n>> \in Seen(d.ch)' <=> <<p, n>> \in Seen(d.ch) \/ n = sent[p]
      BY <1>4, <2>2
    <3>5. since[d.ch][p] \in Int
      BY <1>1 DEF TypeOK
    <3> QED
      BY <1>2, <2>1, <2>2, <3>3, <3>4, <3>5 DEF SeenSince
  <2>3. CASE q # p \/ d.ch # c.ch
    <3>1. StillToCome(d.ch, q)' <=> StillToCome(d.ch, q)
      BY <1>6, <2>3 DEF StillToCome, Offer
    <3>2. LastOffered(d.ch, q)' = LastOffered(d.ch, q)
      BY <3>1 DEF LastOffered, Offer
    <3>3. \A n \in Nat : <<q, n>> \in Seen(d.ch)' <=> <<q, n>> \in Seen(d.ch)
      BY <1>1, <1>4, <1>5, <2>3
    <3> QED
      BY <2>1, <3>2, <3>3 DEF SeenSince
  <2> QED
    BY <2>2, <2>3
<1>8. \A k \in Handlers : hpc[k] \in {"idle", "subscribe"} => k # c.ch
  BY <1>1 DEF EntriesInv
<1>9. FullInv'
  <2> SUFFICES ASSUME NEW k \in Handlers, dropped'[k] # {} PROVE Len(buf'[k]) + Len(out'[k]) >= Cap
    BY DEF FullInv
  <2>1. PICK m \in Nat, n \in Nat : m = Len(buf[k]) /\ n = Len(out[k])
    BY DEF TypeOK
  <2>2. CASE k # c.ch
    <3>1. buf'[k] = buf[k] /\ out'[k] = out[k] /\ dropped'[k] = dropped[k]
      BY <2>2 DEF Offer, TypeOK
    <3> QED
      BY <3>1 DEF FullInv
  <2>3. CASE k = c.ch /\ HasRoom(k)
    <3>1. Len(buf'[k]) = m + 1 /\ out'[k] = out[k] /\ dropped'[k] = dropped[k]
      BY <1>2, <1>3, <2>1, <2>3 DEF Offer, TypeOK
    <3>2. m + n >= Cap
      BY <2>1, <3>1 DEF FullInv
    <3>3. Len(buf'[k]) + Len(out'[k]) = (m + 1) + n
      BY <2>1, <3>1
    <3>4. (m + 1) + n >= Cap
      BY <3>2, AtLeast
    <3> QED
      BY <3>3, <3>4
  <2>4. CASE k = c.ch /\ ~HasRoom(k)
    <3>1. buf'[k] = buf[k] /\ out'[k] = out[k]
      BY <2>4 DEF Offer
    <3>2. m >= Cap
      BY <2>1, <2>4, CapAssumption DEF HasRoom
    <3>3. Len(buf'[k]) + Len(out'[k]) = m + n
      BY <2>1, <3>1
    <3>4. m + n >= Cap
      BY <3>2, AtLeast
    <3> QED
      BY <3>3, <3>4
  <2> QED
    BY <2>2, <2>3, <2>4
<1> QED
  BY <1>5, <1>7, <1>8, <1>9 DEF SeenInv, Offer, brokerVars

\* A Broadcast that is over has come to every subscriber.
LEMMA RUnlockSeen ==
    ASSUME IInv, SeenInv, FullInv, NEW p \in Producers, RUnlock(p) PROVE SeenInv' /\ FullInv'
<1> USE DEF IInv
<1>1. \A k \in Handlers : Seen(k)' = Seen(k)
  BY DEF RUnlock, Seen, history
<1>2. \A k \in Handlers, q \in Producers : LastOffered(k, q)' = LastOffered(k, q)
  BY DEF RUnlock, LastOffered, StillToCome, TypeOK
<1>3. \A c \in clients : c.ch \in Handlers
  BY DEF TypeOK, Entry
<1>4. \A c \in clients', q \in Producers : SeenSince(c.ch, q)'
  BY <1>1, <1>2, <1>3 DEF SeenInv, SeenSince, RUnlock, brokerVars, history
<1>5. \A q \in Producers : ppc'[q] # "idle" => sent'[q] > 0
  BY DEF RUnlock, SeenInv, TypeOK
<1>6. FullInv'
  BY DEF RUnlock, FullInv, history
<1> QED
  BY <1>1, <1>4, <1>5, <1>6 DEF SeenInv, RUnlock

\* SeenInv and FullInv are invariants.
THEOREM Accounting == Spec => [](IInv /\ SeenInv /\ FullInv)
<1>1. Init => SeenInv /\ FullInv
  <2> SUFFICES ASSUME Init PROVE SeenInv /\ FullInv
    OBVIOUS
  <2>1. \A h \in Handlers : Seen(h) = {}
    BY DEF Init, Seen, Elements
  <2> QED
    BY <2>1 DEF Init, SeenInv, FullInv
<1>2. IInv /\ SeenInv /\ FullInv /\ [Next]_vars => SeenInv' /\ FullInv'
  <2> SUFFICES ASSUME IInv, SeenInv, FullInv, [Next]_vars PROVE SeenInv' /\ FullInv'
    OBVIOUS
  <2>1. TypeOK
    BY DEF IInv
  <2>2. ASSUME NEW h \in Handlers, WLock(h) \/ ContextDone(h) \/ Disconnect(h)
        PROVE  SeenInv' /\ FullInv'
    <3>1. UNCHANGED <<clients, buf, out, dropped, since, sent, todo, ppc>>
      BY <2>2 DEF WLock, ContextDone, Disconnect, brokerVars, history
    <3>2. \A k \in Handlers : hpc'[k] \in {"idle", "subscribe"} => hpc[k] \in {"idle", "subscribe"}
      BY <2>1, <2>2 DEF WLock, ContextDone, Disconnect, TypeOK
    <3> QED
      BY <2>1, <3>1, <3>2, SeenAlone
  <2>3. CASE UNCHANGED vars
    <3>1. UNCHANGED <<clients, buf, out, dropped, since, sent, todo, ppc>> /\ hpc' = hpc
      BY <2>3 DEF vars
    <3> QED
      BY <2>1, <3>1, SeenAlone
  <2>4. CASE Next
    BY <2>2, <2>4, SubscribeSeen, CancelSeen, ReceiveSeen, RLockSeen, OfferSeen, RUnlockSeen
    DEF Next, HandleLog, Broadcast
  <2> QED
    BY <2>3, <2>4
<1> QED
  BY <1>1, <1>2, Invariance, PTL DEF Spec

\* NoCollateralLoss, for every instance: what a subscriber misses, it misses because
\* its own channel was full (the default branch of the select in Broadcast).
THEOREM NoCollateralLossHolds == Spec => []NoCollateralLoss
<1>1. IInv /\ SeenInv /\ FullInv => NoCollateralLoss
  <2> SUFFICES ASSUME IInv, SeenInv, FullInv PROVE NoCollateralLoss
    OBVIOUS
  <2>1. ASSUME NEW c \in clients, NEW p \in Producers PROVE Accounted(c.ch, p) = Offered(c.ch, p)
    <3>1. /\ sent[p] \in Nat /\ sent[p] <= MaxMsgs[p] /\ MaxMsgs[p] \in Nat
          /\ since[c.ch][p] \in Int
      BY MaxMsgsAssumption DEF IInv, TypeOK, Entry
    <3>2. SeenSince(c.ch, p) /\ LastOffered(c.ch, p) \in Int /\ LastOffered(c.ch, p) <= sent[p]
      BY <3>1 DEF SeenInv, LastOffered
    <3>3. PICK a \in Int, z \in Int, m \in Nat :
              a = since[c.ch][p] /\ z = LastOffered(c.ch, p) /\ m = MaxMsgs[p]
      BY <3>1, <3>2
    <3>4. Offered(c.ch, p) = (a + 1)..z
      BY <3>3 DEF Offered, LastOffered, StillToCome
    <3>5. Accounted(c.ch, p) = {n \in 1..m : <<p, n>> \in Seen(c.ch)}
      BY <3>3 DEF Accounted, Seen, Elements
    <3>6. 0 <= a /\ z <= m /\ \A n \in Nat : <<p, n>> \in Seen(c.ch) <=> a < n /\ n <= z
      BY <3>1, <3>2, <3>3 DEF SeenSince
    <3>7. \A n : n \in 1..m /\ <<p, n>> \in Seen(c.ch) <=> n \in (a + 1)..z
      BY <3>3, <3>6
    <3> QED
      BY <3>4, <3>5, <3>7
  <2> QED
    BY <2>1 DEF FullInv, NoCollateralLoss
<1> QED
  BY <1>1, Accounting, PTL

\* What was accepted and what of it is still in the channel.
LEMMA AcceptedAppend ==
    \A s, t \in Seq(Producers \X Nat) : \A x \in Producers \X Nat :
        s \o Append(t, x) = Append(s \o t, x)
<1> DEFINE S == Producers \X Nat
<1> SUFFICES ASSUME NEW s \in Seq(S), NEW t \in Seq(S), NEW x \in S
             PROVE  s \o Append(t, x) = Append(s \o t, x)
  OBVIOUS
<1> HIDE DEF S
<1>1. Append(t, x) = t \o <<x>> /\ Append(s \o t, x) = (s \o t) \o <<x>> /\ <<x>> \in Seq(S)
  BY AppendIsConcat, ConcatProperties
<1> QED
  BY <1>1, ConcatAssociative

\* Taking the first of what waits leaves what was accepted as it is.
LEMMA AcceptedTaken ==
    ASSUME NEW S, NEW s \in Seq(S), NEW t \in Seq(S), t # <<>>
    PROVE  /\ Append(s, Head(t)) \o Tail(t) = s \o t
           /\ Len(Append(s, Head(t))) = Len(s) + 1 /\ Len(s) < Len(s \o t)
<1>1. Head(t) \in S /\ Tail(t) \in Seq(S) /\ <<Head(t)>> \in Seq(S)
  BY HeadTailProperties
<1>2. Append(s, Head(t)) = s \o <<Head(t)>>
  BY <1>1, AppendIsConcat
<1>3. (s \o <<Head(t)>>) \o Tail(t) = s \o (<<Head(t)>> \o Tail(t))
  BY <1>1, ConcatAssociative
<1>4. <<Head(t)>> \o Tail(t) = t
  OBVIOUS
<1>5. Len(s) \in Nat /\ Len(t) \in Nat /\ Len(t) # 0 /\ Len(s \o t) = Len(s) + Len(t)
  OBVIOUS
<1>6. Len(s) < Len(s \o t)
  BY <1>5
<1> QED
  BY <1>1, <1>2, <1>3, <1>4, <1>6

\* An accepted message was taken or waits.
LEMMA AcceptedElements ==
    ASSUME NEW S, NEW s \in Seq(S), NEW t \in Seq(S), NEW i \in 1..Len(s \o t)
    PROVE  (s \o t)[i] \in Elements(s) \cup Elements(t)
<1>1. PICK m \in Nat, n \in Nat : m = Len(s) /\ n = Len(t)
  BY LenProperties
<1>2. i \in 1..(m + n) /\ (s \o t)[i] = IF i <= m THEN s[i] ELSE t[i - m]
  BY <1>1, ConcatProperties
<1>3. CASE i <= m
  <2>1. i \in 1..m
    BY <1>1, <1>2, <1>3
  <2> QED
    BY <1>1, <1>2, <1>3, <2>1 DEF Elements
<1>4. CASE ~(i <= m)
  <2>1. i - m \in 1..n
    BY <1>1, <1>2, <1>4
  <2> QED
    BY <1>1, <1>2, <1>4, <2>1 DEF Elements
<1> QED
  BY <1>3, <1>4

\* The state of LogStream that stands for that of the broker.
streamPhase == [h \in Handlers |-> IF hpc[h] \in {"idle", "subscribe"} THEN "out"
                                   ELSE IF hpc[h] = "done" THEN "left" ELSE "in"]
streamAccepted == [h \in Handlers |-> out[h] \o buf[h]]
streamTaken == [h \in Handlers |-> Len(out[h])]

\* Steps that are not seen in the stream.
LEMMA StreamStutters ==
    ASSUME UNCHANGED <<out, buf>>, TypeOK,
           \A h \in Handlers :
               \/ hpc'[h] = hpc[h]
               \/ hpc[h] \in {"idle", "subscribe"} /\ hpc'[h] \in {"idle", "subscribe"}
               \/ hpc[h] \in {"stream", "cancel"} /\ hpc'[h] \in {"stream", "cancel"}
    PROVE  UNCHANGED Stream!vars
<1>1. streamPhase' = streamPhase
  BY DEF streamPhase
<1>2. streamAccepted' = streamAccepted /\ streamTaken' = streamTaken
  BY DEF streamAccepted, streamTaken
<1> QED
  BY <1>1, <1>2 DEF Stream!vars, streamPhase, streamAccepted, streamTaken

\* A new subscriber joins the stream.
LEMMA SubscribeJoins ==
    ASSUME TypeOK, NEW h \in Handlers, Subscribe(h) PROVE Stream!Join(h)
<1>1. streamPhase[h] = "out" /\ streamPhase' = [streamPhase EXCEPT ![h] = "in"]
  BY DEF Subscribe, TypeOK, streamPhase
<1>2. streamAccepted' = streamAccepted /\ streamTaken' = streamTaken
  BY DEF Subscribe, streamAccepted, streamTaken
<1> QED
  BY <1>1, <1>2 DEF Stream!Join, streamPhase, streamAccepted, streamTaken

\* A subscriber that cancels leaves the stream.
LEMMA CancelLeaves ==
    ASSUME TypeOK, NEW h \in Handlers, Cancel(h) PROVE Stream!Leave(h)
<1>1. streamPhase[h] = "in" /\ streamPhase' = [streamPhase EXCEPT ![h] = "left"]
  BY DEF Cancel, TypeOK, streamPhase
<1>2. streamAccepted' = streamAccepted /\ streamTaken' = streamTaken
  BY DEF Cancel, history, streamAccepted, streamTaken
<1> QED
  BY <1>1, <1>2 DEF Stream!Leave, streamPhase, streamAccepted, streamTaken

\* A message that a request receives is taken from the stream, in its turn.
LEMMA ReceiveTakes ==
    ASSUME TypeOK, NEW h \in Handlers, Receive(h) PROVE Stream!Take(h)
<1>1. PICK b \in Seq(Producers \X Nat), o \in Seq(Producers \X Nat) :
          b = buf[h] /\ o = out[h] /\ b # <<>>
  BY DEF Receive, TypeOK
<1>2. /\ buf'[h] = Tail(b) /\ out'[h] = Append(o, Head(b))
      /\ \A k \in Handlers \ {h} : buf'[k] = buf[k] /\ out'[k] = out[k]
  BY <1>1 DEF Receive, TypeOK
<1>3. /\ Append(o, Head(b)) \o Tail(b) = o \o b
      /\ Len(Append(o, Head(b))) = Len(o) + 1 /\ Len(o) < Len(o \o b)
  BY <1>1, AcceptedTaken
<1>4. streamAccepted' = streamAccepted
  BY <1>1, <1>2, <1>3 DEF streamAccepted
<1>5. streamTaken[h] < Len(streamAccepted[h]) /\ streamTaken' = [streamTaken EXCEPT ![h] = @ + 1]
  BY <1>1, <1>2, <1>3 DEF streamTaken, streamAccepted
<1>6. streamPhase' = streamPhase
  BY DEF Receive, TypeOK, streamPhase
<1> QED
  BY <1>4, <1>5, <1>6 DEF Stream!Take, streamPhase, streamAccepted, streamTaken

\* A message that finds room is accepted for a reader in the stream, and comes after
\* all the reader was given of that producer.
LEMMA OfferAccepts ==
    ASSUME IInv, SeenInv, NEW p \in Producers, NEW c \in todo[p], Offer(p, c), HasRoom(c.ch),
           NEW n \in Nat, n = sent[p]
    PROVE  Stream!Accept(c.ch, p, n)
<1>1. c \in clients /\ c.ch \in Handlers /\ hpc[c.ch] \in {"stream", "cancel"}
  BY DEF Offer, IInv, LockInv, EntriesInv, TypeOK, Entry
<1>2. PICK b \in Seq(Producers \X Nat), o \in Seq(Producers \X Nat) :
          b = buf[c.ch] /\ o = out[c.ch]
  BY <1>1 DEF IInv, TypeOK
<1>3. <<p, sent[p]>> \in Producers \X Nat
  BY DEF IInv, TypeOK
<1>4. streamPhase[c.ch] = "in" /\ streamPhase' = streamPhase /\ streamTaken' = streamTaken
  BY <1>1 DEF Offer, streamPhase, streamTaken
<1>5. streamAccepted' = [streamAccepted EXCEPT ![c.ch] = Append(@, <<p, sent[p]>>)]
  <2>1. buf' = [buf EXCEPT ![c.ch] = Append(b, <<p, sent[p]>>)] /\ out' = out
    BY <1>2 DEF Offer
  <2>2. o \o Append(b, <<p, sent[p]>>) = Append(o \o b, <<p, sent[p]>>)
    <3>1. PICK x \in Producers \X Nat : x = <<p, sent[p]>>
      BY <1>3
    <3>2. o \o Append(b, x) = Append(o \o b, x)
      BY <1>2, <3>1, AcceptedAppend, ZenonT(30)
    <3> QED
      BY <3>1, <3>2
  <2> QED
    BY <1>1, <1>2, <2>1, <2>2 DEF streamAccepted, IInv, TypeOK
<1>6. ASSUME NEW i \in 1..Len(streamAccepted[c.ch]), streamAccepted[c.ch][i][1] = p
      PROVE  streamAccepted[c.ch][i][2] < sent[p]
  <2>1. streamAccepted[c.ch] = o \o b
    BY <1>1, <1>2 DEF streamAccepted
  <2>2. streamAccepted[c.ch][i] \in Seen(c.ch)
    BY <1>2, <2>1, AcceptedElements DEF Seen
  <2>3. streamAccepted[c.ch][i] \in Producers \X Nat
    <3>1. o \o b \in Seq(Producers \X Nat)
      BY <1>2, ConcatProperties
    <3>2. PICK a \in Seq(Producers \X Nat) : a = o \o b
      BY <3>1
    <3>3. a[i] \in Producers \X Nat
      <4>1. i \in 1..Len(a)
        BY <2>1, <3>2
      <4> QED
        BY <3>2, <4>1
    <3> QED
      BY <2>1, <3>2, <3>3
  <2>4. PICK k \in Nat : streamAccepted[c.ch][i] = <<p, k>>
    BY <1>6, <2>3, SMTT(30)
  <2>5. SeenSince(c.ch, p) /\ LastOffered(c.ch, p) = sent[p] - 1 /\ sent[p] \in Nat
    BY <1>1 DEF SeenInv, LastOffered, StillToCome, Offer, IInv, TypeOK
  <2>6. k <= sent[p] - 1
    BY <2>2, <2>4, <2>5 DEF SeenSince
  <2> QED
    BY <2>4, <2>5, <2>6
<1> QED
  BY <1>4, <1>5, <1>6 DEF Stream!Accept, streamPhase, streamAccepted, streamTaken

\* ImplementsLogStream, for every instance: per reader no message twice, none out
\* of its producer's order, none after it left.
THEOREM ImplementsLogStreamHolds == Spec => ImplementsLogStream
<1>1. Init => Stream!Init
  BY DEF Init, Stream!Init
<1>2. IInv /\ SeenInv /\ [Next]_vars => [Stream!Next]_(Stream!vars)
  <2> SUFFICES ASSUME IInv, SeenInv, [Next]_vars PROVE Stream!Next \/ UNCHANGED Stream!vars
    OBVIOUS
  <2>1. TypeOK
    BY DEF IInv
  <2>2. ASSUME NEW h \in Handlers, HandleLog(h) \/ Disconnect(h)
        PROVE  Stream!Next \/ UNCHANGED Stream!vars
    <3>1. CASE Subscribe(h)
      BY <2>1, <3>1, SubscribeJoins DEF Stream!Next
    <3>2. CASE Cancel(h)
      BY <2>1, <3>2, CancelLeaves DEF Stream!Next
    <3>3. CASE Receive(h)
      BY <2>1, <3>3, ReceiveTakes DEF Stream!Next
    <3>4. CASE WLock(h) \/ ContextDone(h) \/ Disconnect(h)
      BY <2>1, <3>4, StreamStutters DEF WLock, ContextDone, Disconnect, TypeOK
    <3> QED
      BY <2>2, <3>1, <3>2, <3>3, <3>4 DEF HandleLog
  <2>3. ASSUME NEW p \in Producers, Broadcast(p) PROVE Stream!Next \/ UNCHANGED Stream!vars
    <3>1. CASE RLock(p) \/ RUnlock(p)
      BY <2>1, <3>1, StreamStutters DEF RLock, RUnlock
    <3>2. ASSUME NEW c \in todo[p], Offer(p, c), HasRoom(c.ch) PROVE Stream!Next
      <4>1. PICK n \in Nat : n = sent[p]
        BY <2>1 DEF TypeOK
      <4>2. Stream!Accept(c.ch, p, n)
        BY <3>2, <4>1, OfferAccepts
      <4>3. c.ch \in Handlers /\ n \in UNION {1..MaxMsgs[q] : q \in Producers}
        <5>1. c.ch \in Handlers /\ sent[p] \in Nat /\ sent[p] > 0 /\ sent[p] <= MaxMsgs[p]
          BY <2>1, <3>2 DEF Offer, SeenInv, TypeOK, Entry
        <5>2. sent[p] \in 1..MaxMsgs[p]
          BY <5>1, MaxMsgsAssumption
        <5> QED
          BY <4>1, <5>1, <5>2
      <4> QED
        BY <4>2, <4>3 DEF Stream!Next
    <3>3. ASSUME NEW c \in todo[p], Offer(p, c), ~HasRoom(c.ch) PROVE UNCHANGED Stream!vars
      BY <2>1, <3>3, StreamStutters DEF Offer
    <3> QED
      BY <2>3, <3>1, <3>2, <3>3 DEF Broadcast
  <2>4. CASE UNCHANGED vars
    BY <2>1, <2>4, StreamStutters DEF vars
  <2> QED
    BY <2>2, <2>3, <2>4 DEF Next
<1> QED
  BY <1>1, <1>2, Accounting, PTL DEF Spec, ImplementsLogStream, Stream!Spec
=============================================================================
