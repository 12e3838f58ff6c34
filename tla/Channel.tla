------------------------------ MODULE Channel ------------------------------
(***************************************************************************)
(* One fan-out hub of the relay: relay/internal/channel.go, driven by the  *)
(* publisher and subscriber handlers of relay/internal/server.go.          *)
(*                                                                         *)
(* Handlers are goroutines.  A section under Channel.mu is one step when   *)
(* it touches only fields that mu guards; the unsubscribe section is two   *)
(* steps, because the broadcaster reads closed and send without the lock.  *)
(* A member of Pubs is a /publish connection slot, used for any number of  *)
(* requests in turn.  A member of Subs is ONE /subscribe request and the   *)
(* subscriber object it allocates.  A request that is refused (409, 503)   *)
(* changes nothing, so a refusal is a stuttering step.                     *)
(*                                                                         *)
(* Packets are numbered 1, 2, ... in the order in which Broadcast takes    *)
(* its snapshots; published, last, received and joinedAt are history.      *)
(***************************************************************************)
EXTENDS Integers, Sequences, FiniteSets

CONSTANTS
    Pubs,     \* /publish connection slots
    Subs,     \* /subscribe requests, one subscriber object each
    None,     \* nobody holds mu; no subscriber is being served
    MaxSubs,  \* max_subscribers_per_channel
    SendBuf,  \* subscriber_send_buffer; Config.Defaults turns 0 into 64
    MaxPkts   \* bound: packets the publishers send in one behaviour

ASSUME ChannelAssumption ==
    /\ None \notin Subs
    /\ MaxSubs \in Nat
    /\ SendBuf \in Nat \ {0}
    /\ MaxPkts \in Nat

VARIABLES
    hasPub,     \* Channel.hasPub
    subs,       \* Channel.subs, guarded by mu
    mu,         \* the unsubscribing request that holds Channel.mu, or None
    scratch,    \* what is left to visit of Channel.broadcastScratch
    pubPc,      \* where each publisher handler is
    pkt,        \* the packet a publisher handler is broadcasting
    cur,        \* the subscriber deliver is working on
    subPc,      \* where each subscriber handler is
    queue,      \* subscriber.send, a buffered Go channel
    closed,     \* subscriber.closed, the atomic flag
    chClosed,   \* close(s.send) has happened
    dropped,    \* subscriber.dropped
    hand,       \* the packet conn.Write is sending
    gone,       \* the viewer's end of the connection is closed or broken
    cancelled,  \* ctx of the subscriber handler is done
    published,  \* history: packets broadcast so far
    joinedAt,   \* history: published when Subscribe ran
    received,   \* history: packets written to the viewer
    last        \* history: the last packet written, joinedAt before any

chVars  == <<hasPub, subs, mu>>
pubVars == <<scratch, pubPc, pkt, cur, published>>
subVars == <<subPc, hand, gone, cancelled, joinedAt, received, last>>
bufVars == <<queue, closed, chClosed, dropped>>
vars    == <<chVars, pubVars, subVars, bufVars>>

PubPcs == {"idle", "accept", "read", "snapshot", "visit", "try", "drop",
           "retry", "return"}
SubPcs == {"idle", "accept", "select", "writing", "return", "unsub", "done"}

\* Inside handlePublish between ClaimPublisher and the deferred release.
InSlot(p) == pubPc[p] # "idle"

\* Inside the three selects of deliver.
Delivering(p) == pubPc[p] \in {"try", "drop", "retry"}

\* The handler has a live subscription and serves it.
Active(s) == subPc[s] \in {"accept", "select", "writing"}

\* Subscribe has run for this request.
Joined(s) == subPc[s] # "idle"

Full(s) == Len(queue[s]) >= SendBuf

(* Small pieces of the handlers.  A definition whose name ends in M is the *)
(* next one with a plausible mistake; no action uses it.                   *)

\* The test of ClaimPublisher.
SlotFreeM == TRUE
SlotFree == ~hasPub

\* The test of Subscribe.
HasRoomM == Cardinality(subs) <= MaxSubs
HasRoom == Cardinality(subs) < MaxSubs

\* s.send <- msg, on a channel with room.
PushM(p, s) == [queue EXCEPT ![s] = <<pkt[p]>> \o @]
Push(p, s) == [queue EXCEPT ![s] = Append(@, pkt[p])]

\* <-s.send in deliver, on a channel with a packet.
DiscardOldestM(s) == queue
DiscardOldest(s) == [queue EXCEPT ![s] = Tail(@)]

\* s.dropped++, if the case is one that counts.
CountDropM(s, counts) == dropped
CountDropM2(s, counts) == IF counts THEN [dropped EXCEPT ![s] = @ - 1]
                          ELSE dropped
CountDrop(s, counts) == IF counts THEN [dropped EXCEPT ![s] = @ + 1]
                        ELSE dropped

\* cancel() in the watcher goroutine.
CancelCtxM(s) == UNCHANGED cancelled
CancelCtx(s) == cancelled' = [cancelled EXCEPT ![s] = TRUE]

GoPub(p, to) == pubPc' = [pubPc EXCEPT ![p] = to]
GoSub(s, to) == subPc' = [subPc EXCEPT ![s] = to]

Init ==
    /\ hasPub = FALSE
    /\ subs = {}
    /\ mu = None
    /\ scratch = {}
    /\ pubPc = [p \in Pubs |-> "idle"]
    /\ pkt = [p \in Pubs |-> 0]
    /\ cur = [p \in Pubs |-> None]
    /\ subPc = [s \in Subs |-> "idle"]
    /\ queue = [s \in Subs |-> <<>>]
    /\ closed = [s \in Subs |-> FALSE]
    /\ chClosed = [s \in Subs |-> FALSE]
    /\ dropped = [s \in Subs |-> 0]
    /\ hand = [s \in Subs |-> 0]
    /\ gone = [s \in Subs |-> FALSE]
    /\ cancelled = [s \in Subs |-> FALSE]
    /\ published = 0
    /\ joinedAt = [s \in Subs |-> 0]
    /\ received = [s \in Subs |-> 0]
    /\ last = [s \in Subs |-> 0]

-----------------------------------------------------------------------------
(* handlePublish: claim, upgrade, read loop, release.                      *)

\* ClaimPublisher succeeds; with hasPub set the request gets 409 and ends.
ClaimPublisher(p) ==
    /\ pubPc[p] = "idle"
    /\ mu = None
    /\ SlotFree
    /\ hasPub' = TRUE
    /\ GoPub(p, "accept")
    /\ UNCHANGED <<subs, mu, scratch, pkt, cur, published, subVars, bufVars>>

\* websocket.Accept and the subprotocol test; on failure the handler returns.
AcceptPublish(p) ==
    /\ pubPc[p] = "accept"
    /\ \E to \in {"read", "return"} : GoPub(p, to)
    /\ UNCHANGED <<chVars, scratch, pkt, cur, published, subVars, bufVars>>

\* conn.Read returns a binary message that starts with MAGIC.
ReadPacket(p) ==
    /\ pubPc[p] = "read"
    /\ published < MaxPkts
    /\ GoPub(p, "snapshot")
    /\ UNCHANGED <<chVars, scratch, pkt, cur, published, subVars, bufVars>>

\* conn.Read fails, or the message is not binary, or its magic is wrong.
ReadEnd(p) ==
    /\ pubPc[p] = "read"
    /\ GoPub(p, "return")
    /\ UNCHANGED <<chVars, scratch, pkt, cur, published, subVars, bufVars>>

\* The deferred ReleasePublisher, which runs after every Broadcast call.
ReleasePublisher(p) ==
    /\ pubPc[p] = "return"
    /\ mu = None
    /\ hasPub' = FALSE
    /\ GoPub(p, "idle")
    /\ UNCHANGED <<subs, mu, scratch, pkt, cur, published, subVars, bufVars>>

-----------------------------------------------------------------------------
(* Broadcast: a snapshot under mu, then deliver to each without the lock.  *)

Snapshot(p) ==
    /\ pubPc[p] = "snapshot"
    /\ mu = None
    /\ scratch' = subs
    /\ published' = published + 1
    /\ pkt' = [pkt EXCEPT ![p] = published + 1]
    /\ GoPub(p, "visit")
    /\ UNCHANGED <<chVars, cur, subVars, bufVars>>

\* The loop over the snapshot, in map order: skip a flagged subscriber.
Visit(p, s) ==
    /\ pubPc[p] = "visit"
    /\ s \in scratch
    /\ scratch' = scratch \ {s}
    /\ IF closed[s] THEN UNCHANGED <<pubPc, cur>>
                    ELSE GoPub(p, "try") /\ cur' = [cur EXCEPT ![p] = s]
    /\ UNCHANGED <<chVars, pkt, published, subVars, bufVars>>

BroadcastDone(p) ==
    /\ pubPc[p] = "visit"
    /\ scratch = {}
    /\ pkt' = [pkt EXCEPT ![p] = 0]
    /\ GoPub(p, "read")
    /\ UNCHANGED <<chVars, scratch, cur, published, subVars, bufVars>>

\* deliver is over, normally or by recovering from a send on a closed channel.
DeliverReturnsM(p) ==
    /\ GoPub(p, "return")
    /\ cur' = [cur EXCEPT ![p] = None]
DeliverReturns(p) ==
    /\ GoPub(p, "visit")
    /\ cur' = [cur EXCEPT ![p] = None]

\* First select of deliver: send, or fall through when the queue is full.
\* (The mistake: no return after a successful send.)
TrySendM(p, s) ==
    /\ pubPc[p] = "try"
    /\ cur[p] = s
    /\ queue' = IF chClosed[s] \/ Full(s) THEN queue ELSE Push(p, s)
    /\ IF chClosed[s] THEN DeliverReturns(p)
       ELSE GoPub(p, "drop") /\ UNCHANGED cur
    /\ UNCHANGED <<chVars, scratch, pkt, published, subVars,
                   closed, chClosed, dropped>>
TrySend(p, s) ==
    /\ pubPc[p] = "try"
    /\ cur[p] = s
    /\ \/ /\ chClosed[s]
          /\ DeliverReturns(p)
          /\ UNCHANGED queue
       \/ /\ ~chClosed[s] /\ ~Full(s)
          /\ queue' = Push(p, s)
          /\ DeliverReturns(p)
       \/ /\ ~chClosed[s] /\ Full(s)
          /\ GoPub(p, "drop")
          /\ UNCHANGED <<cur, queue>>
    /\ UNCHANGED <<chVars, scratch, pkt, published, subVars,
                   closed, chClosed, dropped>>

\* Second select: take the oldest packet.  A closed and empty channel yields
\* a zero value, which is counted as a drop too; an empty open one nothing.
DropOldest(p, s) ==
    /\ pubPc[p] = "drop"
    /\ cur[p] = s
    /\ GoPub(p, "retry")
    /\ \/ /\ queue[s] # <<>>
          /\ queue' = DiscardOldest(s)
       \/ /\ queue[s] = <<>>
          /\ UNCHANGED queue
    /\ dropped' = CountDrop(s, queue[s] # <<>> \/ chClosed[s])
    /\ UNCHANGED <<chVars, scratch, pkt, cur, published, subVars,
                   closed, chClosed>>

\* Third select: send again, or drop the new packet entirely.
Resend(p, s) ==
    /\ pubPc[p] = "retry"
    /\ cur[p] = s
    /\ DeliverReturns(p)
    /\ queue' = IF chClosed[s] \/ Full(s) THEN queue
                ELSE Push(p, s)
    /\ dropped' = CountDrop(s, ~chClosed[s] /\ Full(s))
    /\ UNCHANGED <<chVars, scratch, pkt, published, subVars,
                   closed, chClosed>>

-----------------------------------------------------------------------------
(* handleSubscribe: subscribe, upgrade, writer loop, unsubscribe.          *)

\* Subscribe succeeds; at the cap the request gets 503 and ends.
Subscribe(s) ==
    /\ subPc[s] = "idle"
    /\ mu = None
    /\ HasRoom
    /\ subs' = subs \cup {s}
    /\ GoSub(s, "accept")
    /\ joinedAt' = [joinedAt EXCEPT ![s] = published]
    /\ last' = [last EXCEPT ![s] = published]
    /\ UNCHANGED <<hasPub, mu, pubVars, hand, gone, cancelled, received,
                   bufVars>>

\* websocket.Accept and the subprotocol test; on failure the handler returns.
AcceptSubscribe(s) ==
    /\ subPc[s] = "accept"
    /\ \E to \in {"select", "return"} : GoSub(s, to)
    /\ UNCHANGED <<chVars, pubVars, hand, gone, cancelled, joinedAt,
                   received, last, bufVars>>

\* Environment: the viewer closes the tab or its network fails.
ViewerGone(s) ==
    /\ subPc[s] \in {"select", "writing"}
    /\ ~gone[s]
    /\ gone' = [gone EXCEPT ![s] = TRUE]
    /\ UNCHANGED <<chVars, pubVars, subPc, hand, cancelled, joinedAt,
                   received, last, bufVars>>

\* The watcher goroutine: conn.Read fails, so it cancels ctx.
Watcher(s) ==
    /\ subPc[s] \in {"select", "writing"}
    /\ gone[s] /\ ~cancelled[s]
    /\ CancelCtx(s)
    /\ UNCHANGED <<chVars, pubVars, subPc, hand, gone, joinedAt,
                   received, last, bufVars>>

\* select: ctx.Done().
CtxDone(s) ==
    /\ subPc[s] = "select"
    /\ cancelled[s]
    /\ GoSub(s, "return")
    /\ UNCHANGED <<chVars, pubVars, hand, gone, cancelled, joinedAt,
                   received, last, bufVars>>

\* select: a packet from recv.  Nobody but this handler closes recv, after
\* the loop, so the !ok branch is not taken here.
Recv(s) ==
    /\ subPc[s] = "select"
    /\ queue[s] # <<>>
    /\ hand' = [hand EXCEPT ![s] = Head(queue[s])]
    /\ queue' = [queue EXCEPT ![s] = Tail(@)]
    /\ GoSub(s, "writing")
    /\ UNCHANGED <<chVars, pubVars, gone, cancelled, joinedAt, received,
                   last, closed, chClosed, dropped>>

\* conn.Write succeeds; it may still do so when ctx is cancelled meanwhile.
WriteOk(s) ==
    /\ subPc[s] = "writing"
    /\ last' = [last EXCEPT ![s] = hand[s]]
    /\ received' = [received EXCEPT ![s] = @ + 1]
    /\ hand' = [hand EXCEPT ![s] = 0]
    /\ GoSub(s, "select")
    /\ UNCHANGED <<chVars, pubVars, gone, cancelled, joinedAt, bufVars>>

\* conn.Write fails: broken connection, cancelled ctx or the 5 s timeout.
WriteFail(s) ==
    /\ subPc[s] = "writing"
    /\ hand' = [hand EXCEPT ![s] = 0]
    /\ GoSub(s, "return")
    /\ UNCHANGED <<chVars, pubVars, gone, cancelled, joinedAt,
                   received, last, bufVars>>

\* unsub, first half: lock, delete from the map, raise the flag.
UnsubFlag(s) ==
    /\ subPc[s] = "return"
    /\ mu = None
    /\ mu' = s
    /\ subs' = subs \ {s}
    /\ closed' = [closed EXCEPT ![s] = TRUE]
    /\ GoSub(s, "unsub")
    /\ UNCHANGED <<hasPub, pubVars, hand, gone, cancelled, joinedAt,
                   received, last, queue, chClosed, dropped>>

\* unsub, second half: close(s.send), unlock.
UnsubClose(s) ==
    /\ subPc[s] = "unsub"
    /\ mu' = None
    /\ chClosed' = [chClosed EXCEPT ![s] = TRUE]
    /\ GoSub(s, "done")
    /\ UNCHANGED <<hasPub, subs, pubVars, hand, gone, cancelled, joinedAt,
                   received, last, queue, closed, dropped>>

-----------------------------------------------------------------------------
\* The steps of a Broadcast call.
BroadcastStep(p) ==
    \/ Snapshot(p)
    \/ BroadcastDone(p)
    \/ \E s \in Subs : Visit(p, s) \/ TrySend(p, s) \/ DropOldest(p, s)
                         \/ Resend(p, s)

PubNext(p) ==
    \/ ClaimPublisher(p) \/ AcceptPublish(p) \/ ReadPacket(p) \/ ReadEnd(p)
    \/ ReleasePublisher(p) \/ BroadcastStep(p)

\* The steps a subscriber handler takes by itself once it has subscribed.
HandlerStep(s) ==
    \/ AcceptSubscribe(s) \/ Recv(s) \/ WriteOk(s) \/ WriteFail(s)
    \/ UnsubFlag(s) \/ UnsubClose(s)

SubNext(s) ==
    \/ Subscribe(s) \/ ViewerGone(s) \/ Watcher(s) \/ CtxDone(s)
    \/ HandlerStep(s)

Next == (\E p \in Pubs : PubNext(p)) \/ (\E s \in Subs : SubNext(s))

Spec == Init /\ [][Next]_vars

\* A goroutine that can run does run.  A publisher or a viewer may stay
\* connected for ever, so no fairness on ReadEnd and ViewerGone.  Go's select
\* chooses at random among the ready cases: strong fairness on CtxDone.
Fairness ==
    /\ \A p \in Pubs : WF_vars(BroadcastStep(p)) /\ WF_vars(ReleasePublisher(p))
    /\ \A s \in Subs : /\ WF_vars(HandlerStep(s))
                       /\ WF_vars(Watcher(s))
                       /\ SF_vars(CtxDone(s))

LiveSpec == Spec /\ Fairness

-----------------------------------------------------------------------------
(* Properties.                                                             *)

\* Types of the variables.
TypeOK ==
    /\ hasPub \in BOOLEAN
    /\ subs \subseteq Subs
    /\ mu \in Subs \cup {None}
    /\ scratch \subseteq Subs
    /\ pubPc \in [Pubs -> PubPcs]
    /\ pkt \in [Pubs -> Nat]
    /\ cur \in [Pubs -> Subs \cup {None}]
    /\ subPc \in [Subs -> SubPcs]
    /\ queue \in [Subs -> Seq(Nat)]
    /\ closed \in [Subs -> BOOLEAN]
    /\ chClosed \in [Subs -> BOOLEAN]
    /\ dropped \in [Subs -> Nat]
    /\ hand \in [Subs -> Nat]
    /\ gone \in [Subs -> BOOLEAN]
    /\ cancelled \in [Subs -> BOOLEAN]
    /\ published \in Nat
    /\ joinedAt \in [Subs -> Nat]
    /\ received \in [Subs -> Nat]
    /\ last \in [Subs -> Nat]

\* "At most one publisher": two handlers are never both between a successful
\* ClaimPublisher and their deferred ReleasePublisher, whatever requests are
\* refused meanwhile, so broadcastScratch has one user at a time.
OnePublisher ==
    \A p, q \in Pubs : InSlot(p) /\ InSlot(q) => p = q

\* The current broadcast still has to reach s.
Owed(s) == s \in scratch \/ \E p \in Pubs : Delivering(p) /\ cur[p] = s

\* What the viewer of s has had last, then what Write holds, then the queue.
Trail(s) ==
    <<last[s]>> \o (IF subPc[s] = "writing" THEN <<hand[s]>> ELSE <<>>)
                \o queue[s]

Increasing(q) == \A i, j \in 1..Len(q) : i < j => q[i] < q[j]

\* However drops and writes interleave, a viewer gets packets in the order
\* of broadcast, none twice and none from before its Subscribe.
InOrder == \A s \in Subs : Joined(s) => Increasing(Trail(s))

\* "Drop the oldest, push the new": once Broadcast has passed a subscriber
\* that is still served, the newest packet is the last of its trail; the
\* branch of deliver that drops the new packet entirely is never needed.
NewestKept ==
    \A s \in Subs : Active(s) /\ ~Owed(s) => Trail(s)[Len(Trail(s))] = published

\* Every packet broadcast since a served subscriber joined was written to it,
\* is held by Write, is queued, or is counted in subscriber.dropped.
NoSilentLoss ==
    \A s \in Subs : Active(s) =>
        received[s] + (Len(Trail(s)) - 1) + dropped[s]
            = published - joinedAt[s] - (IF Owed(s) THEN 1 ELSE 0)

\* The caps hold: subscribers per channel, packets queued per subscriber; and
\* a send channel is closed only for a flagged subscriber out of the map.
Bounded ==
    /\ Cardinality(subs) <= MaxSubs
    /\ \A s \in Subs : /\ Len(queue[s]) <= SendBuf
                       /\ chClosed[s] => closed[s] /\ s \notin subs

\* "Never the publisher's broadcast loop blocked": each Broadcast call ends
\* back in the read loop, past slow, leaving and gone subscribers.
BroadcastCompletes ==
    \A p \in Pubs : pubPc[p] = "snapshot" ~> pubPc[p] = "read"

\* A viewer that goes away is unsubscribed, mid-write or not.
GoneIsRemoved == \A s \in Subs : gone[s] ~> subPc[s] = "done"

\* The hub seen from outside: a handler that will unsubscribe has left.
Status == [s \in Subs |-> CASE subPc[s] = "idle" -> "out"
                             [] Active(s) -> "in"
                             [] OTHER -> "left"]
Fan == INSTANCE Fanout WITH
    Viewers <- Subs,
    MaxViewers <- MaxSubs,
    live <- hasPub,
    seen <- last,
    got <- received,
    status <- Status

\* The hub, with its locks, queues and races, implements Fanout: one live
\* publisher, and an increasing selection of its packets for each viewer.
ImplementsFanout == Fan!Spec
=============================================================================
