----------------------------- MODULE LogBroker -----------------------------
(***************************************************************************)
(* internal/debugadmin/log_broker.go, with the only subscriber it has, the *)
(* /log handler of http_server.go.                                         *)
(*                                                                         *)
(* Producers are the goroutines that call Broadcast (the two consumers of  *)
(* every target, waitForExit, the vector writer); Handlers are requests    *)
(* for /log, each of which subscribes once.  The channel made by Subscribe *)
(* is named after the handler that got it.  Message <<p, n>> is the n-th   *)
(* message of producer p.                                                  *)
(*                                                                         *)
(* The lock is a sync.RWMutex: a writer first announces itself (wOwner),   *)
(* which holds new readers back, and enters once the active readers have   *)
(* left; its Unlock admits every reader that waits.  A Broadcast visits    *)
(* the clients one at a time, in any order, as Go ranges over a map.       *)
(***************************************************************************)
EXTENDS Integers, Sequences, FiniteSets

CONSTANTS Handlers,    \* the requests for /log
          Producers,   \* the goroutines that broadcast
          Cap,         \* capacity of a client's channel (256 in the code)
          MaxMsgs,     \* bound: MaxMsgs[p], the messages p broadcasts
          Leavers,     \* bound: the requests whose reader may go away
          None         \* no goroutine

ASSUME CapAssumption == Cap \in Nat \ {0}
ASSUME MaxMsgsAssumption == MaxMsgs \in [Producers -> Nat]
ASSUME LeaversAssumption == Leavers \subseteq Handlers
ASSUME NoneAssumption == None \notin Handlers

VARIABLES
    nextID,    \* LogBroker.nextID
    clients,   \* LogBroker.clients: entries [id, ch], one per key of the map
    closed,    \* the channels that have been closed
    buf,       \* buf[h]: what is in h's channel
    wOwner,    \* the writer that has announced itself to the RWMutex
    hpc,       \* where handler h is in handleLog
    hid,       \* the id captured by h's cancel function
    gone,      \* the requests whose context is done
    out,       \* out[h]: the messages h took from its channel
    ppc,       \* where producer p is in Broadcast
    sent,      \* sent[p]: the calls of Broadcast p has made
    todo,      \* the entries the running Broadcast of p has still to visit
    since,     \* history: since[h][p], the messages of p before h subscribed
    dropped    \* history: dropped[h], what found h's channel full

brokerVars == <<nextID, clients, closed>>
history == <<since, dropped>>
vars == <<nextID, clients, closed, buf, wOwner, hpc, hid, gone, out,
          ppc, sent, todo, since, dropped>>

Entry == [id : Nat, ch : Handlers]

TypeOK ==
    /\ nextID \in Nat
    /\ clients \subseteq Entry
    /\ closed \subseteq Handlers
    /\ buf \in [Handlers -> Seq(Producers \X Nat)] /\ \A h \in Handlers : Len(buf[h]) <= Cap
    /\ wOwner \in Handlers \cup {None}
    /\ hpc \in [Handlers -> {"idle", "subscribe", "stream", "cancel", "done"}]
    /\ hid \in [Handlers -> Int]
    /\ gone \subseteq Handlers
    /\ out \in [Handlers -> Seq(Producers \X Nat)]
    /\ ppc \in [Producers -> {"idle", "wait", "send"}]
    /\ sent \in [Producers -> Nat] /\ \A p \in Producers : sent[p] <= MaxMsgs[p]
    /\ todo \in [Producers -> SUBSET Entry]
    /\ since \in [Handlers -> [Producers -> Int]]
    /\ dropped \in [Handlers -> SUBSET (Producers \X Nat)]

Init ==
    /\ nextID = 0
    /\ clients = {}
    /\ closed = {}
    /\ buf = [h \in Handlers |-> <<>>]
    /\ wOwner = None
    /\ hpc = [h \in Handlers |-> "idle"]
    /\ hid = [h \in Handlers |-> -1]
    /\ gone = {}
    /\ out = [h \in Handlers |-> <<>>]
    /\ ppc = [p \in Producers |-> "idle"]
    /\ sent = [p \in Producers |-> 0]
    /\ todo = [p \in Producers |-> {}]
    /\ since = [h \in Handlers |-> [p \in Producers |-> 0]]
    /\ dropped = [h \in Handlers |-> {}]

-----------------------------------------------------------------------------
(* The RWMutex.                                                            *)

\* The producers that hold the lock for reading.
Readers == {p \in Producers : ppc[p] = "send"}

\* mu.Lock(), in Subscribe (GET /log has come in) or in cancel: h announces
\* itself and waits for the readers to leave.
WLock(h) ==
    /\ hpc[h] \in {"idle", "cancel"}
    /\ wOwner = None
    /\ wOwner' = h
    /\ hpc' = [hpc EXCEPT ![h] = IF @ = "idle" THEN "subscribe" ELSE @]
    /\ UNCHANGED <<brokerVars, buf, hid, gone, out, ppc, sent, todo, history>>

\* Mutant of WLocked: cancel and Subscribe do not wait for the broadcasts.
WLockedDespiteReaders(h) == wOwner = h

\* h is inside its critical section.
WLocked(h) == wOwner = h /\ Readers = {}

\* mu.Unlock(): every producer that waits in RLock gets it, and starts to
\* range over the map it finds.
WUnlock ==
    /\ wOwner' = None
    /\ ppc' = [p \in Producers |-> IF ppc[p] = "wait" THEN "send" ELSE ppc[p]]
    /\ todo' = [p \in Producers |-> IF ppc[p] = "wait" THEN clients' ELSE todo[p]]

-----------------------------------------------------------------------------
(* handleLog and Subscribe.                                                *)

Subscribe(h) ==
    /\ hpc[h] = "subscribe"
    /\ WLocked(h)
    /\ hid' = [hid EXCEPT ![h] = nextID]
    /\ nextID' = nextID + 1
    /\ clients' = {c \in clients : c.id # nextID} \cup {[id |-> nextID, ch |-> h]}
    /\ hpc' = [hpc EXCEPT ![h] = "stream"]
    /\ since' = [since EXCEPT ![h] =
                    [p \in Producers |-> sent[p] - (IF ppc[p] = "wait" THEN 1 ELSE 0)]]
    /\ WUnlock
    /\ UNCHANGED <<closed, buf, gone, out, sent, dropped>>

\* The reader closes its connection: the request's context is done.
Disconnect(h) ==
    /\ hpc[h] = "stream"
    /\ h \in Leavers \ gone
    /\ gone' = gone \cup {h}
    /\ UNCHANGED <<brokerVars, buf, wOwner, hpc, hid, out, ppc, sent, todo, history>>

\* case message := <-ch, and its write to the response.  The write may block
\* for as long as the reader likes, which is this action not happening; it may
\* fail once the reader has gone.
Receive(h) ==
    /\ hpc[h] = "stream"
    /\ buf[h] # <<>>
    /\ buf' = [buf EXCEPT ![h] = Tail(@)]
    /\ out' = [out EXCEPT ![h] = Append(@, Head(buf[h]))]
    /\ \/ UNCHANGED hpc
       \/ h \in gone /\ hpc' = [hpc EXCEPT ![h] = "cancel"]
    /\ UNCHANGED <<brokerVars, wOwner, hid, gone, ppc, sent, todo, history>>

\* Mutant of ContextDone: the handler returns without calling cancel.
ContextDoneNoCancel(h) ==
    /\ hpc[h] = "stream"
    /\ h \in gone
    /\ hpc' = [hpc EXCEPT ![h] = "done"]
    /\ UNCHANGED <<brokerVars, buf, wOwner, hid, gone, out, ppc, sent, todo, history>>

\* Mutant of ContextDone: the handler only waits for messages.
ContextDoneIgnored(h) == FALSE /\ UNCHANGED vars

\* case <-r.Context().Done()
ContextDone(h) ==
    /\ hpc[h] = "stream"
    /\ h \in gone
    /\ hpc' = [hpc EXCEPT ![h] = "cancel"]
    /\ UNCHANGED <<brokerVars, buf, wOwner, hid, gone, out, ppc, sent, todo, history>>

\* The deferred cancel(): delete the entry if it is there, and close whatever
\* channel the map holds under that id.
Cancel(h) ==
    /\ hpc[h] = "cancel"
    /\ WLocked(h)
    /\ LET mine == {c \in clients : c.id = hid[h]}
       IN /\ clients' = clients \ mine
          /\ closed' = closed \cup {c.ch : c \in mine}
    /\ hpc' = [hpc EXCEPT ![h] = "done"]
    /\ WUnlock
    /\ UNCHANGED <<nextID, buf, hid, gone, out, sent, history>>

-----------------------------------------------------------------------------
(* Broadcast.                                                              *)

\* mu.RLock(): held back while a writer has announced itself.
RLock(p) ==
    /\ ppc[p] = "idle"
    /\ sent[p] < MaxMsgs[p]
    /\ sent' = [sent EXCEPT ![p] = @ + 1]
    /\ IF wOwner = None
       THEN /\ ppc' = [ppc EXCEPT ![p] = "send"]
            /\ todo' = [todo EXCEPT ![p] = clients]
       ELSE /\ ppc' = [ppc EXCEPT ![p] = "wait"]
            /\ UNCHANGED todo
    /\ UNCHANGED <<brokerVars, buf, wOwner, hpc, hid, gone, out, history>>

\* h's channel takes another message.
HasRoomButOne(h) == Len(buf[h]) + 1 < Cap    \* mutant: one slot is never used
HasRoomForOneMore(h) == Len(buf[h]) <= Cap   \* mutant: one message too many
HasRoom(h) == Len(buf[h]) < Cap

\* Mutant of Offer: a full channel ends the loop over the clients.
OfferOrGiveUp(p, c) ==
    /\ ppc[p] = "send" /\ c \in todo[p]
    /\ IF HasRoom(c.ch)
       THEN /\ buf' = [buf EXCEPT ![c.ch] = Append(@, <<p, sent[p]>>)]
            /\ todo' = [todo EXCEPT ![p] = @ \ {c}]
            /\ UNCHANGED dropped
       ELSE /\ todo' = [todo EXCEPT ![p] = {}]
            /\ dropped' = [dropped EXCEPT ![c.ch] = @ \cup {<<p, sent[p]>>}]
            /\ UNCHANGED buf
    /\ UNCHANGED <<brokerVars, wOwner, hpc, hid, gone, out, ppc, sent, since>>

\* Mutant of Offer: the send has no default branch and blocks.
OfferBlocking(p, c) ==
    /\ ppc[p] = "send" /\ c \in todo[p]
    /\ HasRoom(c.ch)
    /\ buf' = [buf EXCEPT ![c.ch] = Append(@, <<p, sent[p]>>)]
    /\ todo' = [todo EXCEPT ![p] = @ \ {c}]
    /\ UNCHANGED <<brokerVars, wOwner, hpc, hid, gone, out, ppc, sent, history>>

\* One iteration: a send that never blocks; a full channel loses the message.
Offer(p, c) ==
    /\ ppc[p] = "send"
    /\ c \in todo[p]
    /\ todo' = [todo EXCEPT ![p] = @ \ {c}]
    /\ IF HasRoom(c.ch)
       THEN /\ buf' = [buf EXCEPT ![c.ch] = Append(@, <<p, sent[p]>>)]
            /\ UNCHANGED dropped
       ELSE /\ dropped' = [dropped EXCEPT ![c.ch] = @ \cup {<<p, sent[p]>>}]
            /\ UNCHANGED buf
    /\ UNCHANGED <<brokerVars, wOwner, hpc, hid, gone, out, ppc, sent, since>>

\* mu.RUnlock()
RUnlock(p) ==
    /\ ppc[p] = "send"
    /\ todo[p] = {}
    /\ ppc' = [ppc EXCEPT ![p] = "idle"]
    /\ UNCHANGED <<brokerVars, buf, wOwner, hpc, hid, gone, out, sent, todo, history>>

-----------------------------------------------------------------------------
Broadcast(p) == RLock(p) \/ (\E c \in todo[p] : Offer(p, c)) \/ RUnlock(p)

HandleLog(h) == \/ WLock(h) \/ Subscribe(h)
                \/ Receive(h) \/ ContextDone(h) \/ Cancel(h)

Next == \/ \E h \in Handlers : HandleLog(h) \/ Disconnect(h)
        \/ \E p \in Producers : Broadcast(p)

Spec == Init /\ [][Next]_vars

\* Code that only computes is never suspended for ever.  Nothing is assumed of
\* a reader that is still connected: its handler may stay in a write for ever.
\* Once it has gone, net/http makes the write return and the context is done.
Fairness ==
    /\ \A p \in Producers : WF_vars((\E c \in todo[p] : Offer(p, c)) \/ RUnlock(p))
    /\ \A h \in Handlers : /\ SF_vars(hpc[h] = "cancel" /\ WLock(h))
                           /\ WF_vars(Subscribe(h) \/ Cancel(h))
                           /\ WF_vars(ContextDone(h))

FairSpec == Spec /\ Fairness

-----------------------------------------------------------------------------
(* Properties.                                                             *)

\* No Broadcast is about to send on a closed channel and no cancel about to
\* close one twice: both would panic and take the whole admin down.  The
\* entries a Broadcast still has to visit are entries of the map, and the map
\* holds no closed channel.
NoSendOnClosed ==
    /\ \A p \in Producers : ppc[p] = "send" => todo[p] \subseteq clients
    /\ \A c \in clients : c.ch \notin closed

\* A handler that streams is in the map under its own id with its own channel,
\* and one that has returned has left nothing behind: no subscription is
\* lost, shared or leaked.
OwnSubscription ==
    \A h \in Handlers :
        /\ hpc[h] \in {"stream", "cancel"} => [id |-> hid[h], ch |-> h] \in clients
        /\ \A c \in clients : c.ch = h => c.id = hid[h] /\ hpc[h] # "done"

\* The messages of p that were offered to h so far: all those broadcast since h
\* subscribed, but for the one whose visit of h is still to come.
Offered(h, p) ==
    (since[h][p] + 1) ..
    (IF ppc[p] = "wait" \/ (ppc[p] = "send" /\ \E c \in todo[p] : c.ch = h)
     THEN sent[p] - 1 ELSE sent[p])

\* The messages of p that h took, has in its channel, or lost to a full one.
Accounted(h, p) ==
    {n \in 1..MaxMsgs[p] : <<p, n>> \in
        {out[h][i] : i \in 1..Len(out[h])} \cup {buf[h][i] : i \in 1..Len(buf[h])}
            \cup dropped[h]}

\* A subscriber is offered every message broadcast while it is subscribed,
\* however slow or numerous the other subscribers are: what it misses, it
\* misses because its own channel was full.  A burst that fits the channel is kept
\* whole, even by a reader that reads nothing: the first message is lost only
\* when Cap messages were waiting.
NoCollateralLoss ==
    /\ \A c \in clients, p \in Producers : Accounted(c.ch, p) = Offered(c.ch, p)
    /\ \A h \in Handlers : dropped[h] # {} => Len(buf[h]) + Len(out[h]) >= Cap

\* The broker implements the lossy multicast of LogStream: per reader no
\* message twice, none out of its producer's order, none after the reader left.
Stream == INSTANCE LogStream WITH
    Readers <- Handlers,
    Numbers <- UNION {1..MaxMsgs[p] : p \in Producers},
    phase <- [h \in Handlers |->
                 IF hpc[h] \in {"idle", "subscribe"} THEN "out"
                 ELSE IF hpc[h] = "done" THEN "left" ELSE "in"],
    accepted <- [h \in Handlers |-> out[h] \o buf[h]],
    taken <- [h \in Handlers |-> Len(out[h])]

ImplementsLogStream == Stream!Spec

\* Broadcast never waits for a reader: whoever calls it returns, whether or not
\* the connected readers ever take another byte.
BroadcastReturns == \A p \in Producers : ppc[p] # "idle" ~> ppc[p] = "idle"

\* A reader that has gone is unsubscribed and its handler returns.
GoneReaderLeaves == \A h \in Handlers : h \in gone ~> hpc[h] = "done"
=============================================================================
