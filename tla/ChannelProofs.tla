--------------------------- MODULE ChannelProofs ---------------------------
(***************************************************************************)
(* Proofs about Channel, for any number of publishers and subscribe        *)
(* requests, any caps and any number of packets.  The inductive invariant  *)
(* is built in layers; each layer is proved invariant with the help of the *)
(* ones before it.                                                         *)
(***************************************************************************)
EXTENDS Channel, FiniteSetTheorems, TLAPS

-----------------------------------------------------------------------------
(* Types.                                                                  *)

USE DEF PubPcs, SubPcs

LEMMA SeqFacts ==
    ASSUME NEW q \in Seq(Nat), NEW x \in Nat
    PROVE  /\ <<>> \in Seq(Nat)
           /\ Append(q, x) \in Seq(Nat)
           /\ q # <<>> => Head(q) \in Nat /\ Tail(q) \in Seq(Nat)
  OBVIOUS

\* A queue holds numbers: the type TypeOK gives subscriber.send, by element.
LEMMA SeqElems ==
    ASSUME NEW q \in Seq(Nat)
    PROVE  Len(q) \in Nat /\ \A i \in 1..Len(q) : q[i] \in Nat
  OBVIOUS

LEMMA TypePub ==
    ASSUME TypeOK, NEW p \in Pubs, PubNext(p)
    PROVE  TypeOK'
<1>1. CASE ClaimPublisher(p)
    BY <1>1 DEF ClaimPublisher, GoPub, TypeOK, subVars, bufVars
<1>2. CASE AcceptPublish(p)
    BY <1>2 DEF AcceptPublish, GoPub, TypeOK, chVars, subVars, bufVars
<1>3. CASE ReadPacket(p)
    BY <1>3 DEF ReadPacket, GoPub, TypeOK, chVars, subVars, bufVars
<1>4. CASE ReadEnd(p)
    BY <1>4 DEF ReadEnd, GoPub, TypeOK, chVars, subVars, bufVars
<1>5. CASE ReleasePublisher(p)
    BY <1>5 DEF ReleasePublisher, GoPub, TypeOK, subVars, bufVars
<1>6. CASE Snapshot(p)
    BY <1>6 DEF Snapshot, GoPub, TypeOK, chVars, subVars, bufVars
<1>7. CASE BroadcastDone(p)
    BY <1>7 DEF BroadcastDone, GoPub, TypeOK, chVars, subVars, bufVars
<1>8. ASSUME NEW s \in Subs, Visit(p, s) PROVE TypeOK'
    BY <1>8 DEF Visit, GoPub, TypeOK, chVars, subVars, bufVars
<1>9. ASSUME NEW s \in Subs, TrySend(p, s) PROVE TypeOK'
  <2>1. Append(queue[s], pkt[p]) \in Seq(Nat)
    BY SeqFacts DEF TypeOK
  <2>2. queue' \in [Subs -> Seq(Nat)]
    BY <1>9, <2>1 DEF TrySend, Push, TypeOK
  <2>3. QED
    BY <1>9, <2>2 DEF TrySend, DeliverReturns, GoPub, TypeOK, chVars, subVars
<1>10. ASSUME NEW s \in Subs, DropOldest(p, s) PROVE TypeOK'
  <2>1. queue[s] # <<>> => Tail(queue[s]) \in Seq(Nat)
    BY SeqFacts DEF TypeOK
  <2>2. queue' \in [Subs -> Seq(Nat)]
    BY <1>10, <2>1 DEF DropOldest, DiscardOldest, TypeOK
  <2>3. dropped' \in [Subs -> Nat]
    <3>1. \/ dropped' = dropped
          \/ dropped' = [dropped EXCEPT ![s] = @ + 1]
      BY <1>10, Zenon DEF DropOldest, CountDrop
    <3>2. dropped \in [Subs -> Nat]
      BY DEF TypeOK
    <3>3. QED
      BY <3>1, <3>2
  <2>4. QED
    BY <1>10, <2>2, <2>3 DEF DropOldest, GoPub, TypeOK, chVars, subVars
<1>11. ASSUME NEW s \in Subs, Resend(p, s) PROVE TypeOK'
  <2>1. Append(queue[s], pkt[p]) \in Seq(Nat)
    BY SeqFacts DEF TypeOK
  <2>2. queue' \in [Subs -> Seq(Nat)]
    BY <1>11, <2>1 DEF Resend, Push, TypeOK
  <2>3. dropped' \in [Subs -> Nat]
    BY <1>11 DEF Resend, CountDrop, TypeOK
  <2>4. QED
    BY <1>11, <2>2, <2>3 DEF Resend, DeliverReturns, GoPub, TypeOK, chVars,
                             subVars
<1>12. QED
    BY <1>1, <1>2, <1>3, <1>4, <1>5, <1>6, <1>7, <1>8, <1>9, <1>10, <1>11
    DEF PubNext, BroadcastStep

LEMMA TypeSub ==
    ASSUME TypeOK, NEW s \in Subs, SubNext(s)
    PROVE  TypeOK'
<1>1. CASE Subscribe(s)
    BY <1>1 DEF Subscribe, GoSub, TypeOK, pubVars, bufVars
<1>2. CASE AcceptSubscribe(s)
    BY <1>2 DEF AcceptSubscribe, GoSub, TypeOK, chVars, pubVars, bufVars
<1>3. CASE ViewerGone(s)
    BY <1>3 DEF ViewerGone, TypeOK, chVars, pubVars, bufVars
<1>4. CASE Watcher(s)
    BY <1>4 DEF Watcher, CancelCtx, TypeOK, chVars, pubVars, bufVars
<1>5. CASE CtxDone(s)
    BY <1>5 DEF CtxDone, GoSub, TypeOK, chVars, pubVars, bufVars
<1>6. CASE Recv(s)
  <2>1. Head(queue[s]) \in Nat /\ Tail(queue[s]) \in Seq(Nat)
    BY <1>6, SeqFacts DEF Recv, TypeOK
  <2>2. queue' \in [Subs -> Seq(Nat)] /\ hand' \in [Subs -> Nat]
    BY <1>6, <2>1 DEF Recv, TypeOK
  <2>3. QED
    BY <1>6, <2>2 DEF Recv, GoSub, TypeOK, chVars, pubVars
<1>7. CASE WriteOk(s)
  <2>1. /\ last' \in [Subs -> Nat]
        /\ received' \in [Subs -> Nat]
        /\ hand' \in [Subs -> Nat]
    BY <1>7 DEF WriteOk, TypeOK
  <2>2. QED
    BY <1>7, <2>1 DEF WriteOk, GoSub, TypeOK, chVars, pubVars, bufVars
<1>8. CASE WriteFail(s)
    BY <1>8 DEF WriteFail, GoSub, TypeOK, chVars, pubVars, bufVars
<1>9. CASE UnsubFlag(s)
    BY <1>9 DEF UnsubFlag, GoSub, TypeOK, pubVars
<1>10. CASE UnsubClose(s)
    BY <1>10 DEF UnsubClose, GoSub, TypeOK, pubVars
<1>11. QED
    BY <1>1, <1>2, <1>3, <1>4, <1>5, <1>6, <1>7, <1>8, <1>9, <1>10
    DEF SubNext, HandlerStep

\* Every variable of the hub keeps its type, in every reachable state.
THEOREM Typing == Spec => []TypeOK
<1>1. Init => TypeOK
  <2>1. Init => queue \in [Subs -> Seq(Nat)]
    BY SeqFacts DEF Init
  <2>2. Init => /\ pkt \in [Pubs -> Nat]
                /\ cur \in [Pubs -> Subs \cup {None}]
                /\ pubPc \in [Pubs -> PubPcs]
                /\ subPc \in [Subs -> SubPcs]
    BY DEF Init
  <2>3. Init => /\ dropped \in [Subs -> Nat] /\ hand \in [Subs -> Nat]
                /\ joinedAt \in [Subs -> Nat] /\ received \in [Subs -> Nat]
                /\ last \in [Subs -> Nat] /\ published \in Nat
    BY DEF Init
  <2>4. Init => /\ closed \in [Subs -> BOOLEAN]
                /\ chClosed \in [Subs -> BOOLEAN]
                /\ gone \in [Subs -> BOOLEAN]
                /\ cancelled \in [Subs -> BOOLEAN]
    BY DEF Init
  <2>5. Init => /\ hasPub \in BOOLEAN /\ subs \subseteq Subs
                /\ mu \in Subs \cup {None} /\ scratch \subseteq Subs
    BY DEF Init
  <2>6. QED
    BY <2>1, <2>2, <2>3, <2>4, <2>5 DEF TypeOK
<1>2. TypeOK /\ [Next]_vars => TypeOK'
  <2>1. CASE UNCHANGED vars
    BY <2>1 DEF vars, chVars, pubVars, subVars, bufVars, TypeOK
  <2>2. QED
    BY <2>1, TypePub, TypeSub DEF Next
<1>3. QED
    BY <1>1, <1>2, PTL DEF Spec
-----------------------------------------------------------------------------
(* Who changes what: a publisher leaves the subscriber handlers alone but  *)
(* for their queues and drop counters, and the converse.                   *)

LEMMA PubFrame ==
    ASSUME NEW p \in Pubs, PubNext(p)
    PROVE  UNCHANGED <<subs, mu, subPc, hand, gone, cancelled, joinedAt,
                       received, last, closed, chClosed>>
  BY DEF PubNext, BroadcastStep, ClaimPublisher, AcceptPublish, ReadPacket,
         ReadEnd, ReleasePublisher, Snapshot, BroadcastDone, Visit, TrySend,
         DropOldest, Resend, chVars, subVars, bufVars

LEMMA SubFrame ==
    ASSUME NEW s \in Subs, SubNext(s)
    PROVE  UNCHANGED <<hasPub, scratch, pubPc, pkt, cur, published, dropped>>
  BY DEF SubNext, HandlerStep, Subscribe, AcceptSubscribe, ViewerGone,
         Watcher, CtxDone, Recv, WriteOk, WriteFail, UnsubFlag, UnsubClose,
         chVars, pubVars, bufVars

-----------------------------------------------------------------------------
(* The publisher slot.                                                     *)

\* OnePublisher is not inductive alone: a claim needs to know that a handler
\* inside the slot keeps hasPub set.
SlotInv == OnePublisher /\ \A p \in Pubs : InSlot(p) => hasPub

LEMMA SlotStep ==
    ASSUME TypeOK, SlotInv, [Next]_vars
    PROVE  SlotInv'
<1> USE DEF TypeOK, SlotInv, OnePublisher, InSlot
<1>1. ASSUME NEW p \in Pubs, PubNext(p) PROVE SlotInv'
  <2>1. CASE ClaimPublisher(p)
    BY <2>1 DEF ClaimPublisher, SlotFree, GoPub
  <2>2. CASE ReleasePublisher(p)
    BY <2>2 DEF ReleasePublisher, GoPub
  <2>3. CASE AcceptPublish(p) \/ ReadPacket(p) \/ ReadEnd(p)
    BY <2>3 DEF AcceptPublish, ReadPacket, ReadEnd, GoPub, chVars
  <2>4. CASE Snapshot(p) \/ BroadcastDone(p)
    BY <2>4 DEF Snapshot, BroadcastDone, GoPub, chVars
  <2>5. ASSUME NEW s \in Subs, Visit(p, s) PROVE SlotInv'
    BY <2>5 DEF Visit, GoPub, chVars
  <2>6. ASSUME NEW s \in Subs, TrySend(p, s) PROVE SlotInv'
    BY <2>6 DEF TrySend, DeliverReturns, GoPub, chVars
  <2>7. ASSUME NEW s \in Subs, DropOldest(p, s) \/ Resend(p, s)
        PROVE  SlotInv'
    BY <2>7 DEF DropOldest, Resend, DeliverReturns, GoPub, chVars
  <2>8. QED
    BY <1>1, <2>1, <2>2, <2>3, <2>4, <2>5, <2>6, <2>7
    DEF PubNext, BroadcastStep
<1>2. ASSUME NEW s \in Subs, SubNext(s) PROVE SlotInv'
    BY <1>2, SubFrame
<1>3. CASE UNCHANGED vars
    BY <1>3 DEF vars, chVars, pubVars
<1>4. QED
    BY <1>1, <1>2, <1>3 DEF Next

LEMMA SlotInvariant == Spec => []SlotInv
<1>1. Init => SlotInv
    BY DEF Init, SlotInv, OnePublisher, InSlot
<1>2. QED
    BY <1>1, SlotStep, Typing, PTL DEF Spec

\* At most one handler is between ClaimPublisher and ReleasePublisher, for
\* any number of competing /publish requests.
THEOREM OnePublisherHolds == Spec => []OnePublisher
<1>1. SlotInv => OnePublisher
    BY DEF SlotInv
<1>2. QED
    BY <1>1, SlotInvariant, PTL

-----------------------------------------------------------------------------
(* The subscriber map, the closed flag and the close of send agree with    *)
(* where the handler is.                                                   *)

MapInv ==
    \A s \in Subs :
        /\ s \in subs <=> subPc[s] \in {"accept", "select", "writing", "return"}
        /\ closed[s] <=> subPc[s] \in {"unsub", "done"}
        /\ chClosed[s] <=> subPc[s] = "done"

LEMMA MapStep ==
    ASSUME TypeOK, MapInv, [Next]_vars
    PROVE  MapInv'
<1> USE DEF TypeOK, MapInv
<1>1. ASSUME NEW p \in Pubs, PubNext(p) PROVE MapInv'
    BY <1>1, PubFrame
<1>2. ASSUME NEW s \in Subs, SubNext(s) PROVE MapInv'
  <2>1. CASE Subscribe(s)
    BY <2>1 DEF Subscribe, GoSub, bufVars
  <2>2. CASE AcceptSubscribe(s) \/ CtxDone(s) \/ WriteOk(s) \/ WriteFail(s)
    BY <2>2 DEF AcceptSubscribe, CtxDone, WriteOk, WriteFail, GoSub, chVars,
                bufVars
  <2>3. CASE ViewerGone(s) \/ Watcher(s)
    BY <2>3 DEF ViewerGone, Watcher, chVars, bufVars
  <2>4. CASE Recv(s)
    BY <2>4 DEF Recv, GoSub, chVars
  <2>5. CASE UnsubFlag(s)
    BY <2>5 DEF UnsubFlag, GoSub
  <2>6. CASE UnsubClose(s)
    BY <2>6 DEF UnsubClose, GoSub
  <2>7. QED
    BY <1>2, <2>1, <2>2, <2>3, <2>4, <2>5, <2>6 DEF SubNext, HandlerStep
<1>3. CASE UNCHANGED vars
    BY <1>3 DEF vars, chVars, subVars, bufVars
<1>4. QED
    BY <1>1, <1>2, <1>3 DEF Next

LEMMA MapInvariant == Spec => []MapInv
<1>1. Init => MapInv
    BY DEF Init, MapInv
<1>2. QED
    BY <1>1, MapStep, Typing, PTL DEF Spec
-----------------------------------------------------------------------------
(* The broadcast in progress.                                              *)

Broadcasting(p) == pubPc[p] = "visit" \/ Delivering(p)

\* The broadcaster sends the newest packet, the scratch slice is in use only
\* while somebody broadcasts, and whoever it still visits has subscribed.
BcastInv ==
    /\ \A p \in Pubs : Broadcasting(p) => pkt[p] = published
    /\ scratch # {} => \E p \in Pubs : Broadcasting(p)
    /\ \A s \in scratch : Joined(s)
    /\ \A p \in Pubs : Delivering(p) => /\ cur[p] \in Subs
                                        /\ cur[p] \notin scratch
                                        /\ Joined(cur[p])

LEMMA BcastStep ==
    ASSUME TypeOK, SlotInv, MapInv, BcastInv, [Next]_vars
    PROVE  BcastInv'
<1> USE DEF TypeOK, BcastInv, Broadcasting, Delivering, Joined
<1>1. ASSUME NEW p \in Pubs, PubNext(p) PROVE BcastInv'
  <2>0. UNCHANGED subPc
    BY <1>1, PubFrame
  <2>1. CASE ClaimPublisher(p) \/ ReleasePublisher(p)
    BY <2>0, <2>1 DEF ClaimPublisher, ReleasePublisher, GoPub
  <2>2. CASE AcceptPublish(p) \/ ReadPacket(p) \/ ReadEnd(p)
    BY <2>0, <2>2 DEF AcceptPublish, ReadPacket, ReadEnd, GoPub
  <2>3. CASE Snapshot(p)
    <3>1. \A q \in Pubs : q # p => pubPc[q] = "idle"
      BY <2>3 DEF SlotInv, OnePublisher, InSlot, Snapshot
    <3>2. \A s \in subs : Joined(s)
      BY DEF MapInv
    <3>3. QED
      BY <2>0, <2>3, <3>1, <3>2 DEF Snapshot, GoPub
  <2>4. CASE BroadcastDone(p)
    BY <2>0, <2>4 DEF BroadcastDone, GoPub
  <2>5. ASSUME NEW s \in Subs, Visit(p, s) PROVE BcastInv'
    <3>1. \A q \in Pubs : q # p => pubPc[q] = "idle"
      BY <2>5 DEF SlotInv, OnePublisher, InSlot, Visit
    <3>2. CASE closed[s]
      BY <2>0, <2>5, <3>1, <3>2 DEF Visit
    <3>3. CASE ~closed[s]
      <4>1. Delivering(p)' /\ cur'[p] = s /\ s \in scratch /\ s \notin scratch'
        BY <2>5, <3>3 DEF Visit, GoPub
      <4>2. \A q \in Pubs : q # p => pubPc'[q] = "idle"
        BY <2>5, <3>1, <3>3 DEF Visit, GoPub
      <4>3. scratch' \subseteq scratch /\ UNCHANGED <<pkt, published>>
        BY <2>5 DEF Visit
      <4>4. Broadcasting(p)
        BY <2>5 DEF Visit
      <4>5. QED
        BY <2>0, <4>1, <4>2, <4>3, <4>4
    <3>4. QED
      BY <3>2, <3>3
  <2>6. ASSUME NEW s \in Subs, TrySend(p, s) PROVE BcastInv'
    BY <2>0, <2>6 DEF TrySend, DeliverReturns, GoPub
  <2>7. ASSUME NEW s \in Subs, DropOldest(p, s) \/ Resend(p, s)
        PROVE  BcastInv'
    BY <2>0, <2>7 DEF DropOldest, Resend, DeliverReturns, GoPub
  <2>8. QED
    BY <1>1, <2>1, <2>2, <2>3, <2>4, <2>5, <2>6, <2>7
    DEF PubNext, BroadcastStep
<1>2. ASSUME NEW s \in Subs, SubNext(s) PROVE BcastInv'
  <2>1. UNCHANGED <<scratch, pubPc, pkt, cur, published>>
    BY <1>2, SubFrame
  <2>2. \A t \in Subs : Joined(t) => Joined(t)'
    BY <1>2 DEF SubNext, HandlerStep, Subscribe, AcceptSubscribe, ViewerGone,
                Watcher, CtxDone, Recv, WriteOk, WriteFail, UnsubFlag,
                UnsubClose, GoSub
  <2>3. QED
    BY <2>1, <2>2
<1>3. CASE UNCHANGED vars
    BY <1>3 DEF vars, pubVars, subVars
<1>4. QED
    BY <1>1, <1>2, <1>3 DEF Next

LEMMA BcastInvariant == Spec => []BcastInv
<1>1. Init => BcastInv
    BY DEF Init, BcastInv, Broadcasting, Delivering
<1>2. QED
    BY <1>1, BcastStep, Typing, SlotInvariant, MapInvariant, PTL DEF Spec
-----------------------------------------------------------------------------
(* Which subscribers the broadcast in progress still owes its packet.      *)

Safe == TypeOK /\ SlotInv /\ MapInv /\ BcastInv

LEMMA SafeInvariant == Spec => []Safe
  BY Typing, SlotInvariant, MapInvariant, BcastInvariant, PTL DEF Safe

LEMMA Alone ==
    ASSUME Safe, NEW p \in Pubs, InSlot(p)
    PROVE  \A q \in Pubs : q # p => pubPc[q] = "idle"
  BY DEF Safe, SlotInv, OnePublisher, InSlot

\* Outside Snapshot, Visit and deliver nothing changes.
Quiet(p) == ClaimPublisher(p) \/ AcceptPublish(p) \/ ReadPacket(p)
            \/ ReadEnd(p) \/ ReleasePublisher(p) \/ BroadcastDone(p)

LEMMA OwedQuiet ==
    ASSUME Safe, NEW p \in Pubs, Quiet(p)
    PROVE  /\ \A t \in Subs : Owed(t)' <=> Owed(t)
           /\ UNCHANGED <<published, queue, dropped>>
<1> USE DEF Quiet, Safe, TypeOK, GoPub, bufVars
<1>1. UNCHANGED <<scratch, cur, published, queue, dropped>>
    BY DEF ClaimPublisher, AcceptPublish, ReadPacket, ReadEnd,
           ReleasePublisher, BroadcastDone
<1>2. \A q \in Pubs : Delivering(q)' <=> Delivering(q)
    BY DEF ClaimPublisher, AcceptPublish, ReadPacket, ReadEnd,
           ReleasePublisher, BroadcastDone, Delivering
<1>3. QED
    BY <1>1, <1>2 DEF Owed

LEMMA OwedSnapshot ==
    ASSUME Safe, NEW p \in Pubs, Snapshot(p)
    PROVE  /\ \A t \in Subs : ~Owed(t) /\ (Owed(t)' <=> t \in subs)
           /\ published' = published + 1
           /\ UNCHANGED <<queue, dropped>>
<1>1. \A q \in Pubs : q # p => pubPc[q] = "idle"
    BY Alone DEF Snapshot, InSlot
<1>2. \A q \in Pubs : ~Broadcasting(q)
    BY <1>1 DEF Broadcasting, Delivering, Snapshot
<1>3. \A q \in Pubs : ~Delivering(q)'
    BY <1>1 DEF Delivering, Snapshot, GoPub, Safe, TypeOK
<1>4. QED
    BY <1>2, <1>3 DEF Owed, Broadcasting, Safe, BcastInv, Snapshot, bufVars

LEMMA OwedVisit ==
    ASSUME Safe, NEW p \in Pubs, NEW s \in Subs, Visit(p, s)
    PROVE  /\ \A t \in Subs : Owed(t)' <=> Owed(t) /\ ~(t = s /\ closed[s])
           /\ UNCHANGED <<published, queue, dropped>>
<1> USE DEF Safe, TypeOK
<1>1. \A q \in Pubs : q # p => pubPc[q] = "idle"
    BY Alone DEF Visit, InSlot
<1>2. \A q \in Pubs : ~Delivering(q)
    BY <1>1 DEF Delivering, Visit
<1>3. CASE closed[s]
    BY <1>2, <1>3 DEF Visit, Owed, Delivering, bufVars
<1>4. CASE ~closed[s]
  <2>1. \A q \in Pubs : Delivering(q)' <=> q = p
    BY <1>1, <1>4 DEF Delivering, Visit, GoPub
  <2>2. cur'[p] = s /\ scratch' = scratch \ {s} /\ s \in scratch
    BY <1>4 DEF Visit
  <2>3. \A t \in Subs : Owed(t)' <=> Owed(t)
    BY <1>2, <2>1, <2>2 DEF Owed
  <2>4. QED
    BY <1>4, <2>3 DEF Visit, bufVars
<1>5. QED
    BY <1>3, <1>4

\* A deliver that ends settles what its subscriber was owed.
LEMMA OwedReturn ==
    ASSUME Safe, NEW p \in Pubs, NEW s \in Subs, Delivering(p), cur[p] = s,
           DeliverReturns(p), UNCHANGED scratch
    PROVE  /\ Owed(s) /\ pkt[p] = published
           /\ \A t \in Subs : Owed(t)' <=> Owed(t) /\ t # s
<1> USE DEF Safe, TypeOK
<1>1. \A q \in Pubs : q # p => pubPc[q] = "idle"
    BY Alone DEF Delivering, InSlot
<1>2. \A q \in Pubs : Delivering(q) <=> q = p
    BY <1>1 DEF Delivering
<1>3. \A q \in Pubs : ~Delivering(q)'
    BY <1>1 DEF Delivering, DeliverReturns, GoPub
<1>4. s \notin scratch /\ pkt[p] = published
    BY DEF BcastInv, Broadcasting
<1>5. QED
    BY <1>2, <1>3, <1>4 DEF Owed

\* A deliver that goes on to its next select owes the same.
LEMMA OwedContinue ==
    ASSUME Safe, NEW p \in Pubs, Delivering(p), UNCHANGED <<scratch, cur>>,
           NEW to \in {"drop", "retry"}, GoPub(p, to)
    PROVE  \A t \in Subs : Owed(t)' <=> Owed(t)
<1>1. \A q \in Pubs : Delivering(q)' <=> Delivering(q)
    BY DEF Delivering, GoPub, Safe, TypeOK
<1>2. QED
    BY <1>1 DEF Owed

LEMMA OwedSub ==
    ASSUME Safe, NEW s \in Subs, SubNext(s)
    PROVE  \A t \in Subs : Owed(t)' <=> Owed(t)
  BY SubFrame DEF Owed, Delivering
-----------------------------------------------------------------------------
(* Order of delivery.                                                      *)

LEMMA AppendFacts ==
    ASSUME NEW q \in Seq(Nat), NEW x \in Nat
    PROVE  /\ Len(Append(q, x)) = Len(q) + 1
           /\ Append(q, x)[Len(q) + 1] = x
           /\ \A i \in 1..Len(q) : Append(q, x)[i] = q[i]
           /\ Append(q, x) # <<>>
  OBVIOUS

LEMMA EmptySeq ==
    ASSUME NEW q \in Seq(Nat), Len(q) = 0
    PROVE  q = <<>>
  OBVIOUS

LEMMA TailFacts ==
    ASSUME NEW q \in Seq(Nat), q # <<>>
    PROVE  /\ Len(q) \in Nat \ {0}
           /\ Head(q) = q[1]
           /\ Len(Tail(q)) = Len(q) - 1
           /\ \A i \in 1..(Len(q) - 1) : Tail(q)[i] = q[i + 1]
  OBVIOUS

\* Taking the head leaves the last element where it is.
LEMMA TailLast ==
    ASSUME NEW q \in Seq(Nat), q # <<>>
    PROVE  /\ Len(q) = 1 => Tail(q) = <<>>
           /\ Len(q) # 1 => /\ Tail(q) # <<>>
                            /\ Tail(q)[Len(Tail(q))] = q[Len(q)]
<1>1. Tail(q) \in Seq(Nat) /\ Len(q) \in Nat \ {0} /\ Len(Tail(q)) = Len(q) - 1
    BY TailFacts
<1>2. CASE Len(q) = 1
  <2>1. Len(Tail(q)) = 0
    BY <1>1, <1>2
  <2>2. QED
    BY <1>1, <1>2, <2>1, EmptySeq
<1>3. CASE Len(q) # 1
  <2>1. Len(q) - 1 \in 1..(Len(q) - 1)
    BY <1>1, <1>3
  <2>2. Tail(q)[Len(q) - 1] = q[(Len(q) - 1) + 1]
    BY <2>1, TailFacts
  <2>3. (Len(q) - 1) + 1 = Len(q) /\ Len(Tail(q)) # 0
    BY <1>1, <1>3
  <2>4. ASSUME Tail(q) = <<>> PROVE FALSE
    BY <2>3, <2>4
  <2>5. QED
    BY <1>1, <1>3, <2>2, <2>3, <2>4
<1>4. QED
    BY <1>2, <1>3

\* The newest packet that has left the queue of s for the connection.
Sent(s) == IF subPc[s] = "writing" THEN hand[s] ELSE last[s]

\* The trail of s, spelled out: written < held by Write < queued, in order.
Ord(s) ==
    /\ Increasing(queue[s])
    /\ \A i \in 1..Len(queue[s]) : Sent(s) < queue[s][i]
                                 /\ queue[s][i] <= published
    /\ subPc[s] = "writing" => last[s] < hand[s]
    /\ Sent(s) <= published

\* Nothing on the trail of s is as new as the packet being broadcast.
Below(s) ==
    /\ Sent(s) < published
    /\ \A i \in 1..Len(queue[s]) : queue[s][i] < published

OrderInv ==
    \A s \in Subs : /\ Ord(s)
                    /\ ~Joined(s) => queue[s] = <<>>
                    /\ Owed(s) => Below(s)

\* A subscriber whose part of the state does not move, apart from what is
\* published and owed.
LEMMA OrdSame ==
    ASSUME TypeOK, NEW s \in Subs, Ord(s), ~Joined(s) => queue[s] = <<>>,
           Owed(s) => Below(s),
           queue'[s] = queue[s], subPc'[s] = subPc[s], hand'[s] = hand[s],
           last'[s] = last[s], published' = published, Owed(s)' => Owed(s)
    PROVE  /\ Ord(s)'
           /\ ~Joined(s)' => queue'[s] = <<>>
           /\ Owed(s)' => Below(s)'
  BY DEF Ord, Below, Sent, Joined, Increasing

\* The broadcaster appends the packet it owes.
LEMMA OrdPush ==
    ASSUME TypeOK, NEW s \in Subs, Ord(s), Below(s),
           queue'[s] = Append(queue[s], published),
           subPc'[s] = subPc[s], hand'[s] = hand[s],
           last'[s] = last[s], published' = published
    PROVE  Ord(s)'
<1> USE DEF TypeOK
<1> DEFINE q == queue[s]
<1>1. q \in Seq(Nat) /\ published \in Nat /\ Len(q) \in Nat
    OBVIOUS
<1>2. /\ Len(queue'[s]) = Len(q) + 1
      /\ queue'[s][Len(q) + 1] = published
      /\ \A i \in 1..Len(q) : queue'[s][i] = q[i]
    BY <1>1, AppendFacts
<1>3. \A i \in 1..(Len(q) + 1) : i \in 1..Len(q) \/ i = Len(q) + 1
    BY <1>1
<1>4. Increasing(queue'[s])
  <2> SUFFICES ASSUME NEW i \in 1..(Len(q) + 1), NEW j \in 1..(Len(q) + 1),
                      i < j
               PROVE  queue'[s][i] < queue'[s][j]
    BY <1>2 DEF Increasing
  <2>1. i \in 1..Len(q)
    BY <1>1
  <2>2. CASE j \in 1..Len(q)
    BY <1>2, <2>1, <2>2 DEF Ord, Increasing
  <2>3. CASE j = Len(q) + 1
    BY <1>2, <2>1, <2>3 DEF Below
  <2>4. QED
    BY <1>3, <2>2, <2>3
<1>5. \A i \in 1..(Len(q) + 1) : Sent(s) < queue'[s][i]
                                /\ queue'[s][i] <= published
    BY <1>1, <1>2, <1>3 DEF Ord, Below
<1>6. Sent(s)' = Sent(s)
    BY DEF Sent
<1>7. QED
    BY <1>2, <1>4, <1>5, <1>6 DEF Ord

\* The head leaves the queue: the broadcaster discards it, or Write takes it.
LEMMA OrdTail ==
    ASSUME TypeOK, NEW s \in Subs, Ord(s), queue[s] # <<>>,
           queue'[s] = Tail(queue[s]), published' = published
    PROVE  /\ Increasing(queue'[s])
           /\ \A i \in 1..Len(queue'[s]) : queue[s][1] < queue'[s][i]
                                         /\ Sent(s) < queue'[s][i]
                                         /\ queue'[s][i] <= published
           /\ Below(s) => \A i \in 1..Len(queue'[s]) : queue'[s][i] < published
<1> USE DEF TypeOK
<1> DEFINE q == queue[s]
<1>1. q \in Seq(Nat)
    OBVIOUS
<1>2. /\ Len(q) \in Nat \ {0}
      /\ Len(queue'[s]) = Len(q) - 1
      /\ \A i \in 1..(Len(q) - 1) : queue'[s][i] = q[i + 1]
    BY <1>1, TailFacts
<1>3. \A i \in 1..(Len(q) - 1) : i + 1 \in 1..Len(q) /\ 1 \in 1..Len(q) /\ 1 < i + 1
    BY <1>2
<1>4. Increasing(queue'[s])
    BY <1>2, <1>3 DEF Ord, Increasing
<1>5. QED
    BY <1>2, <1>3, <1>4 DEF Ord, Increasing, Below
\* What deliver may do to the queue of the subscriber it serves.
LEMMA DeliverEffect ==
    ASSUME Safe, NEW p \in Pubs, NEW s \in Subs,
           TrySend(p, s) \/ DropOldest(p, s) \/ Resend(p, s)
    PROVE  /\ Owed(s) /\ pkt[p] = published /\ published' = published
           /\ \A t \in Subs : t # s => queue'[t] = queue[t]
           /\ \/ /\ queue' = queue
                 /\ \A t \in Subs : Owed(t)' => Owed(t)
              \/ /\ queue[s] # <<>>
                 /\ queue'[s] = Tail(queue[s])
                 /\ \A t \in Subs : Owed(t)' <=> Owed(t)
              \/ /\ queue'[s] = Append(queue[s], published)
                 /\ \A t \in Subs : Owed(t)' <=> Owed(t) /\ t # s
<1>0. queue \in [Subs -> Seq(Nat)]
    BY DEF Safe, TypeOK
<1>1. Owed(s) /\ pkt[p] = published
    BY DEF Safe, BcastInv, Broadcasting, Delivering, Owed, TrySend,
           DropOldest, Resend
<1>2. published' = published
    BY DEF TrySend, DropOldest, Resend
<1>3. CASE TrySend(p, s)
  <2>0. Delivering(p) /\ cur[p] = s /\ UNCHANGED scratch
    BY <1>3 DEF TrySend, Delivering
  <2>1. CASE chClosed[s] /\ DeliverReturns(p) /\ UNCHANGED queue
    BY <1>1, <1>2, <2>0, <2>1, OwedReturn
  <2>2. CASE queue' = Push(p, s) /\ DeliverReturns(p)
    BY <1>0, <1>1, <1>2, <2>0, <2>2, OwedReturn DEF Push
  <2>3. CASE GoPub(p, "drop") /\ UNCHANGED <<cur, queue>>
    BY <1>1, <1>2, <2>0, <2>3, OwedContinue
  <2>4. QED
    BY <1>3, <2>1, <2>2, <2>3 DEF TrySend
<1>4. CASE DropOldest(p, s)
  <2>1. \A t \in Subs : Owed(t)' <=> Owed(t)
    BY <1>4, OwedContinue DEF DropOldest, Delivering
  <2>2. CASE queue[s] # <<>> /\ queue' = DiscardOldest(s)
    BY <1>0, <1>1, <1>2, <2>1, <2>2 DEF DiscardOldest
  <2>3. CASE UNCHANGED queue
    BY <1>1, <1>2, <2>1, <2>3
  <2>4. QED
    BY <1>4, <2>2, <2>3 DEF DropOldest
<1>5. CASE Resend(p, s)
  <2>1. \A t \in Subs : Owed(t)' <=> Owed(t) /\ t # s
    BY <1>5, OwedReturn DEF Resend, Delivering
  <2>2. CASE queue' = queue
    BY <1>1, <1>2, <2>1, <2>2
  <2>3. CASE queue' = Push(p, s)
    BY <1>0, <1>1, <1>2, <2>1, <2>3 DEF Push
  <2>4. QED
    BY <1>5, <2>2, <2>3 DEF Resend
<1>6. QED
    BY <1>3, <1>4, <1>5

\* A subscriber that deliver is not working on is left alone.
LEMMA DeliverOthers ==
    ASSUME Safe, NEW p \in Pubs, NEW s \in Subs,
           TrySend(p, s) \/ DropOldest(p, s) \/ Resend(p, s),
           NEW t \in Subs, t # s
    PROVE  /\ queue'[t] = queue[t] /\ dropped'[t] = dropped[t]
           /\ Owed(t)' <=> Owed(t)
<1>0. queue \in [Subs -> Seq(Nat)] /\ dropped \in [Subs -> Nat]
    BY DEF Safe, TypeOK
<1>1. queue'[t] = queue[t]
    BY DeliverEffect
<1>2. dropped'[t] = dropped[t]
    BY <1>0 DEF TrySend, DropOldest, Resend, CountDrop
<1>3. CASE Delivering(p) /\ cur[p] = s /\ UNCHANGED scratch /\ DeliverReturns(p)
    BY <1>1, <1>2, <1>3, OwedReturn
<1>4. ASSUME NEW to \in {"drop", "retry"}, Delivering(p),
             UNCHANGED <<scratch, cur>>, GoPub(p, to)
      PROVE  Owed(t)' <=> Owed(t)
    BY <1>4, OwedContinue
<1>5. QED
    BY <1>1, <1>2, <1>3, <1>4 DEF TrySend, DropOldest, Resend, Delivering

LEMMA OrderPub ==
    ASSUME Safe, OrderInv, NEW p \in Pubs, PubNext(p)
    PROVE  OrderInv'
<1>0. TypeOK /\ UNCHANGED <<subs, subPc, hand, last>>
    BY PubFrame DEF Safe
<1>1. CASE Quiet(p)
    BY <1>0, <1>1, OwedQuiet, OrdSame DEF OrderInv
<1>2. CASE Snapshot(p)
  <2> SUFFICES ASSUME NEW s \in Subs
               PROVE  /\ Ord(s)'
                      /\ ~Joined(s)' => queue'[s] = <<>>
                      /\ Owed(s)' => Below(s)'
    BY DEF OrderInv
  <2>1. published' = published + 1 /\ queue' = queue
    BY <1>2, OwedSnapshot
  <2>2. Ord(s) /\ (~Joined(s) => queue[s] = <<>>)
    BY DEF OrderInv
  <2>3. /\ queue[s] \in Seq(Nat) /\ published \in Nat /\ Sent(s) \in Nat
        /\ \A i \in 1..Len(queue[s]) : queue[s][i] \in Nat
    <3>1. queue[s] \in Seq(Nat) /\ published \in Nat
      BY <1>0 DEF TypeOK
    <3>2. Sent(s) \in Nat
      BY <1>0 DEF TypeOK, Sent
    <3>3. QED
      BY <3>1, <3>2, SeqElems
  <2>4. Sent(s)' = Sent(s)
    BY <1>0 DEF Sent
  <2>5. QED
    BY <1>0, <2>1, <2>2, <2>3, <2>4 DEF Ord, Below, Joined
<1>3. ASSUME NEW s \in Subs, Visit(p, s) PROVE OrderInv'
    BY <1>0, <1>3, OwedVisit, OrdSame DEF OrderInv
<1>4. ASSUME NEW s \in Subs,
             TrySend(p, s) \/ DropOldest(p, s) \/ Resend(p, s)
      PROVE  OrderInv'
  <2>1. ASSUME NEW u \in Subs, queue'[u] = queue[u], Owed(u)' => Owed(u)
        PROVE  /\ Ord(u)'
               /\ ~Joined(u)' => queue'[u] = <<>>
               /\ Owed(u)' => Below(u)'
    BY <1>0, <1>4, <2>1, DeliverEffect, OrdSame DEF OrderInv
  <2>2. Joined(s)' /\ Ord(s) /\ Below(s)
    BY <1>0, <1>4, DeliverEffect
    DEF OrderInv, Safe, BcastInv, Owed, Joined
  <2>3. CASE queue' = queue /\ \A t \in Subs : Owed(t)' => Owed(t)
    BY <2>1, <2>3 DEF OrderInv
  <2>4. CASE /\ queue[s] # <<>>
             /\ queue'[s] = Tail(queue[s])
             /\ \A t \in Subs : Owed(t)' <=> Owed(t)
    <3>1. published' = published
      BY <1>4, DeliverEffect
    <3>2. Sent(s)' = Sent(s)
      BY <1>0 DEF Sent
    <3>3. Ord(s)' /\ Below(s)'
      BY <1>0, <2>2, <2>4, <3>1, <3>2, OrdTail DEF Ord, Below
    <3>4. QED
      BY <1>4, <2>1, <2>2, <2>4, <3>3, DeliverEffect DEF OrderInv
  <2>5. CASE /\ queue'[s] = Append(queue[s], published)
             /\ \A t \in Subs : Owed(t)' <=> Owed(t) /\ t # s
    <3>1. Ord(s)'
      BY <1>0, <1>4, <2>2, <2>5, DeliverEffect, OrdPush
    <3>2. QED
      BY <1>4, <2>1, <2>2, <2>5, <3>1, DeliverEffect DEF OrderInv
  <2>6. QED
    BY <1>4, <2>3, <2>4, <2>5, DeliverEffect
<1>5. QED
    BY <1>1, <1>2, <1>3, <1>4 DEF PubNext, BroadcastStep, Quiet

\* The handler moves on; what it holds or has written does not get newer.
LEMMA OrdMove ==
    ASSUME TypeOK, TypeOK', NEW s \in Subs, Ord(s), Owed(s) => Below(s),
           queue'[s] = queue[s], published' = published, Owed(s)' => Owed(s),
           Sent(s)' <= Sent(s), Joined(s)',
           subPc'[s] = "writing" => last'[s] < hand'[s]
    PROVE  /\ Ord(s)'
           /\ ~Joined(s)' => queue'[s] = <<>>
           /\ Owed(s)' => Below(s)'
<1>1. /\ queue[s] \in Seq(Nat) /\ published \in Nat
      /\ Sent(s) \in Nat /\ Sent(s)' \in Nat
    BY DEF TypeOK, Sent
<1>2. \A i \in 1..Len(queue[s]) : queue[s][i] \in Nat
    BY <1>1
<1>3. QED
    BY <1>1, <1>2 DEF Ord, Below

LEMMA SubOthers ==
    ASSUME TypeOK, NEW s \in Subs, SubNext(s), NEW t \in Subs, t # s
    PROVE  /\ queue'[t] = queue[t] /\ subPc'[t] = subPc[t]
           /\ hand'[t] = hand[t] /\ last'[t] = last[t]
           /\ joinedAt'[t] = joinedAt[t] /\ received'[t] = received[t]
<1> USE DEF TypeOK, GoSub, bufVars
<1>1. CASE Subscribe(s)
    BY <1>1 DEF Subscribe
<1>2. CASE AcceptSubscribe(s) \/ ViewerGone(s) \/ Watcher(s) \/ CtxDone(s)
    BY <1>2 DEF AcceptSubscribe, ViewerGone, Watcher, CtxDone
<1>3. CASE Recv(s)
    BY <1>3 DEF Recv
<1>4. CASE WriteOk(s)
    BY <1>4 DEF WriteOk
<1>5. CASE WriteFail(s) \/ UnsubFlag(s) \/ UnsubClose(s)
    BY <1>5 DEF WriteFail, UnsubFlag, UnsubClose
<1>6. QED
    BY <1>1, <1>2, <1>3, <1>4, <1>5 DEF SubNext, HandlerStep

LEMMA OrderSub ==
    ASSUME Safe, OrderInv, TypeOK', NEW s \in Subs, SubNext(s)
    PROVE  OrderInv'
<1>0. TypeOK /\ published' = published
    BY SubFrame DEF Safe
<1>1. \A t \in Subs : Owed(t)' <=> Owed(t)
    BY OwedSub
<1>2. Ord(s) /\ (~Joined(s) => queue[s] = <<>>) /\ (Owed(s) => Below(s))
    BY DEF OrderInv
<1>3. ASSUME NEW t \in Subs, t # s
      PROVE  /\ Ord(t)'
             /\ ~Joined(t)' => queue'[t] = <<>>
             /\ Owed(t)' => Below(t)'
  <2>1. /\ queue'[t] = queue[t] /\ subPc'[t] = subPc[t]
        /\ hand'[t] = hand[t] /\ last'[t] = last[t]
    BY <1>3, SubOthers DEF Safe
  <2>2. Ord(t) /\ (~Joined(t) => queue[t] = <<>>) /\ (Owed(t) => Below(t))
    BY DEF OrderInv
  <2>3. QED
    BY <1>0, <1>1, <2>1, <2>2, OrdSame
<1>4. SUFFICES /\ Ord(s)'
               /\ ~Joined(s)' => queue'[s] = <<>>
               /\ Owed(s)' => Below(s)'
    BY <1>3 DEF OrderInv
<1>5. CASE Subscribe(s)
  <2>1. ~Owed(s)
    BY <1>5 DEF Safe, BcastInv, Owed, Joined, Subscribe
  <2>2. queue'[s] = <<>> /\ subPc'[s] = "accept" /\ last'[s] = published
    BY <1>0, <1>2, <1>5 DEF TypeOK, Joined, Subscribe, GoSub, bufVars
  <2>3. Sent(s)' = published /\ Len(queue'[s]) = 0
    BY <2>2 DEF Sent
  <2>4. Ord(s)'
    BY <1>0, <2>2, <2>3 DEF Ord, Increasing, TypeOK
  <2>5. QED
    BY <1>1, <2>1, <2>2, <2>4
<1>6. CASE Recv(s)
  <2>1. /\ queue[s] # <<>> /\ queue'[s] = Tail(queue[s])
        /\ hand'[s] = Head(queue[s]) /\ last'[s] = last[s]
        /\ subPc[s] = "select" /\ subPc'[s] = "writing"
    BY <1>0, <1>6 DEF TypeOK, Recv, GoSub
  <2>2. /\ Head(queue[s]) = queue[s][1] /\ 1 \in 1..Len(queue[s])
        /\ queue[s][1] \in Nat
    BY <1>0, <2>1, TailFacts DEF TypeOK
  <2>3. Sent(s) = last[s] /\ Sent(s)' = queue[s][1]
    BY <2>1, <2>2 DEF Sent
  <2>4. Sent(s) < queue[s][1] /\ queue[s][1] <= published
    BY <1>2, <2>2 DEF Ord
  <2>5. Ord(s)'
    BY <1>0, <1>2, <2>1, <2>2, <2>3, <2>4, OrdTail DEF Ord
  <2>6. Below(s) => Below(s)'
    BY <1>0, <1>2, <2>1, <2>2, <2>3, OrdTail DEF Below
  <2>7. QED
    BY <1>1, <1>2, <2>1, <2>5, <2>6 DEF Joined
<1>7. CASE WriteOk(s) \/ WriteFail(s)
  <2>1. /\ queue'[s] = queue[s] /\ subPc[s] = "writing"
        /\ subPc'[s] \in {"select", "return"}
        /\ last'[s] \in {last[s], hand[s]}
    BY <1>0, <1>7 DEF TypeOK, WriteOk, WriteFail, GoSub, bufVars
  <2>2. Sent(s) = hand[s] /\ Sent(s)' \in {last[s], hand[s]}
    BY <2>1 DEF Sent
  <2>3. Sent(s)' <= Sent(s)
    BY <1>0, <1>2, <2>1, <2>2 DEF Ord, TypeOK
  <2>4. QED
    BY <1>0, <1>1, <1>2, <2>1, <2>3, OrdMove DEF Joined
<1>8. CASE \/ AcceptSubscribe(s) \/ ViewerGone(s) \/ Watcher(s) \/ CtxDone(s)
           \/ UnsubFlag(s) \/ UnsubClose(s)
  <2>1. /\ UNCHANGED <<queue, hand, last>>
        /\ subPc[s] # "idle" /\ subPc'[s] # "idle"
        /\ subPc'[s] = "writing" <=> subPc[s] = "writing"
    BY <1>0, <1>8
    DEF TypeOK, AcceptSubscribe, ViewerGone, Watcher, CtxDone, UnsubFlag,
        UnsubClose, GoSub, bufVars
  <2>2. Sent(s)' = Sent(s) /\ Sent(s) \in Nat
    BY <1>0, <2>1 DEF Sent, TypeOK
  <2>3. QED
    BY <1>0, <1>1, <1>2, <2>1, <2>2, OrdMove DEF Joined, Ord
<1>9. QED
    BY <1>5, <1>6, <1>7, <1>8 DEF SubNext, HandlerStep

LEMMA OrderInvariant == Spec => []OrderInv
<1>1. Init => OrderInv
  <2>1. ASSUME Init, NEW s \in Subs
        PROVE  Ord(s) /\ queue[s] = <<>> /\ ~Owed(s)
    <3>1. queue[s] = <<>> /\ Len(queue[s]) = 0
      BY <2>1 DEF Init
    <3>2. Sent(s) = 0 /\ published = 0 /\ subPc[s] = "idle"
      BY <2>1 DEF Init, Sent
    <3>3. ~Owed(s)
      BY <2>1 DEF Init, Owed, Delivering
    <3>4. QED
      BY <3>1, <3>2, <3>3 DEF Ord, Increasing
  <2>2. QED
    BY <2>1 DEF OrderInv
<1>2. Safe /\ OrderInv /\ Safe' /\ [Next]_vars => OrderInv'
  <2>1. ASSUME Safe, OrderInv, UNCHANGED vars PROVE OrderInv'
    <3>1. /\ UNCHANGED <<queue, subPc, hand, last, published>>
          /\ UNCHANGED <<scratch, pubPc, cur>>
      BY <2>1 DEF vars, chVars, pubVars, subVars, bufVars
    <3>2. \A t \in Subs : Owed(t)' <=> Owed(t)
      BY <3>1 DEF Owed, Delivering
    <3>3. QED
      BY <2>1, <3>1, <3>2, OrdSame DEF OrderInv, Safe
  <2>2. QED
    BY <2>1, OrderPub, OrderSub DEF Next, Safe
<1>3. QED
    BY <1>1, <1>2, SafeInvariant, PTL DEF Spec

\* Packets the handler of s holds in Write: one or none.
Held(s) == IF subPc[s] = "writing" THEN 1 ELSE 0

LEMMA TrailFacts ==
    ASSUME TypeOK, NEW s \in Subs
    PROVE  /\ Len(Trail(s)) = 1 + Held(s) + Len(queue[s])
           /\ Trail(s)[1] = last[s]
           /\ subPc[s] = "writing" => Trail(s)[2] = hand[s]
           /\ \A i \in 1..Len(queue[s]) : Trail(s)[1 + Held(s) + i] = queue[s][i]
<1>1. queue[s] \in Seq(Nat) /\ hand[s] \in Nat /\ last[s] \in Nat
    BY DEF TypeOK
<1>2. CASE subPc[s] = "writing"
  <2>1. Trail(s) = <<last[s]>> \o <<hand[s]>> \o queue[s]
    BY <1>2 DEF Trail
  <2>2. QED
    BY <1>1, <1>2, <2>1 DEF Held
<1>3. CASE subPc[s] # "writing"
  <2>1. Trail(s) = <<last[s]>> \o <<>> \o queue[s]
    BY <1>3 DEF Trail
  <2>2. QED
    BY <1>1, <1>3, <2>1 DEF Held
<1>4. QED
    BY <1>2, <1>3

\* In every behaviour of the hub, whatever the caps and however drops, slow
\* writes and departures interleave, each viewer's packets are in broadcast
\* order, without repetition and without packets from before it joined.
THEOREM InOrderHolds == Spec => []InOrder
<1>1. TypeOK /\ OrderInv => InOrder
  <2> SUFFICES ASSUME TypeOK, OrderInv, NEW s \in Subs
               PROVE  Increasing(Trail(s))
    BY DEF InOrder
  <2> DEFINE h == Held(s)
             q == queue[s]
  <2>a. q \in Seq(Nat) /\ last[s] \in Nat /\ hand[s] \in Nat
    BY DEF TypeOK
  <2>b. h \in {0, 1} /\ (h = 1 <=> subPc[s] = "writing")
    BY DEF Held
  <2>1. /\ q \in Seq(Nat) /\ Len(q) \in Nat /\ h \in {0, 1}
        /\ last[s] \in Nat /\ hand[s] \in Nat
        /\ \A k \in 1..Len(q) : q[k] \in Nat
    BY <2>a, <2>b, SeqElems
  <2>2. /\ Increasing(q)
        /\ \A k \in 1..Len(q) : last[s] < q[k]
        /\ h = 1 => last[s] < hand[s] /\ \A k \in 1..Len(q) : hand[s] < q[k]
    <3>1. /\ Increasing(q)
          /\ \A k \in 1..Len(q) : Sent(s) < q[k]
          /\ subPc[s] = "writing" => last[s] < hand[s]
      BY DEF OrderInv, Ord
    <3> HIDE DEF q
    <3>2. CASE subPc[s] = "writing"
      <4>1. Sent(s) = hand[s] /\ last[s] < hand[s]
        BY <3>1, <3>2 DEF Sent
      <4>2. QED
        BY <2>1, <3>1, <4>1
    <3>3. CASE subPc[s] # "writing"
      <4>1. Sent(s) = last[s] /\ h # 1
        BY <2>b, <3>3 DEF Sent
      <4>2. QED
        BY <3>1, <4>1
    <3>4. QED
      BY <3>2, <3>3
  <2>3. /\ Len(Trail(s)) = 1 + h + Len(q)
        /\ Trail(s)[1] = last[s]
        /\ h = 1 => Trail(s)[2] = hand[s]
        /\ \A k \in 1..Len(q) : Trail(s)[1 + h + k] = q[k]
    BY <2>b, TrailFacts
  <2> HIDE DEF h, q
  <2>4. ASSUME NEW k \in 1..(1 + h + Len(q)), k > 1 + h
        PROVE  k - 1 - h \in 1..Len(q) /\ Trail(s)[k] = q[k - 1 - h]
    <3>1. k - 1 - h \in 1..Len(q) /\ 1 + h + (k - 1 - h) = k
      BY <2>1, <2>4
    <3>2. QED
      BY <2>3, <3>1
  <2> SUFFICES ASSUME NEW i \in 1..(1 + h + Len(q)),
                      NEW j \in 1..(1 + h + Len(q)), i < j
               PROVE  Trail(s)[i] < Trail(s)[j]
    BY <2>3 DEF Increasing
  <2>5. CASE i > 1 + h
    <3>1. j > 1 + h /\ i - 1 - h < j - 1 - h
      BY <2>1, <2>5
    <3>2. q[i - 1 - h] < q[j - 1 - h]
      BY <2>2, <2>4, <2>5, <3>1 DEF Increasing
    <3>3. QED
      BY <2>4, <2>5, <3>1, <3>2
  <2>6. CASE i = 1
    <3>1. j > 1 + h \/ (h = 1 /\ j = 2)
      BY <2>1, <2>6
    <3>2. CASE j > 1 + h
      <4>1. last[s] < q[j - 1 - h] /\ Trail(s)[j] = q[j - 1 - h]
        BY <2>2, <2>4, <3>2
      <4>2. QED
        BY <2>3, <2>6, <4>1
    <3>3. CASE h = 1 /\ j = 2
      BY <2>2, <2>3, <2>6, <3>3
    <3>4. QED
      BY <3>1, <3>2, <3>3
  <2>7. CASE i = 2 /\ h = 1
    <3>1. j > 1 + h
      BY <2>1, <2>7
    <3>2. hand[s] < q[j - 1 - h] /\ Trail(s)[j] = q[j - 1 - h]
      BY <2>2, <2>4, <2>7, <3>1
    <3>3. QED
      BY <2>3, <2>7, <3>2
  <2>8. QED
    BY <2>1, <2>3, <2>5, <2>6, <2>7
<1>2. QED
    BY <1>1, Typing, OrderInvariant, PTL

-----------------------------------------------------------------------------
(* Bounds.  The retry of deliver finds room because only the broadcaster   *)
(* adds to a queue: this is why the new packet is never dropped entirely.  *)

RoomInv ==
    /\ \A s \in Subs : Len(queue[s]) <= SendBuf
    /\ \A p \in Pubs : pubPc[p] = "retry" => Len(queue[cur[p]]) < SendBuf

LEMMA RoomStep ==
    ASSUME Safe, RoomInv, [Next]_vars
    PROVE  RoomInv'
<1>0. /\ TypeOK /\ SendBuf \in Nat \ {0}
      /\ \A s \in Subs : queue[s] \in Seq(Nat) /\ Len(queue[s]) \in Nat
    BY ChannelAssumption DEF Safe, TypeOK
<1>1. ASSUME NEW p \in Pubs, NEW s \in Subs,
             TrySend(p, s) \/ DropOldest(p, s) \/ Resend(p, s)
      PROVE  RoomInv'
  <2>1. InSlot(p) /\ cur[p] = s
    BY <1>1 DEF TrySend, DropOldest, Resend, InSlot
  <2>2. \A q \in Pubs : q # p => pubPc[q] = "idle"
    BY <2>1, Alone
  <2>3. /\ \A q \in Pubs : q # p => pubPc'[q] = "idle"
        /\ pubPc'[p] = "retry" => DropOldest(p, s) /\ cur'[p] = s
    BY <1>0, <1>1, <2>2
    DEF TypeOK, TrySend, DropOldest, Resend, DeliverReturns, GoPub
  <2>4. \A t \in Subs : t # s => queue'[t] = queue[t]
    BY <1>1, DeliverEffect
  <2>5. Len(queue'[s]) <= SendBuf /\ (DropOldest(p, s) => Len(queue'[s]) < SendBuf)
    <3>1. CASE DropOldest(p, s)
      <4>1. CASE queue[s] # <<>>
        <5>1. queue'[s] = Tail(queue[s])
          BY <1>0, <3>1, <4>1 DEF DropOldest, DiscardOldest, TypeOK
        <5>2. Len(queue'[s]) = Len(queue[s]) - 1
          BY <1>0, <4>1, <5>1, TailFacts
        <5>3. QED
          BY <1>0, <5>2 DEF RoomInv
      <4>2. CASE queue[s] = <<>>
        BY <1>0, <3>1, <4>2 DEF DropOldest
      <4>3. QED
        BY <4>1, <4>2
    <3>2. CASE TrySend(p, s) \/ Resend(p, s)
      <4>1. pubPc[p] # "drop"
        BY <3>2 DEF TrySend, Resend
      <4>2. CASE queue' = queue
        BY <1>0, <4>1, <4>2 DEF RoomInv, DropOldest
      <4>3. CASE queue' = Push(p, s) /\ ~Full(s)
        <5>1. pkt[p] \in Nat /\ queue'[s] = Append(queue[s], pkt[p])
          BY <1>0, <4>3 DEF Push, TypeOK
        <5>2. Len(queue'[s]) = Len(queue[s]) + 1
          BY <1>0, <5>1, AppendFacts
        <5>3. QED
          BY <1>0, <4>1, <4>3, <5>2 DEF Full, DropOldest
      <4>4. QED
        BY <3>2, <4>2, <4>3 DEF TrySend, Resend
    <3>3. QED
      BY <1>1, <3>1, <3>2
  <2>6. QED
    BY <2>3, <2>4, <2>5 DEF RoomInv
<1>2. ASSUME NEW p \in Pubs, Quiet(p) \/ Snapshot(p) \/ \E s \in Subs : Visit(p, s)
      PROVE  RoomInv'
  <2>1. UNCHANGED queue
    BY <1>2, OwedQuiet, OwedSnapshot, OwedVisit
  <2>2. \A q \in Pubs : pubPc'[q] = "retry" => pubPc[q] = "retry" /\ cur'[q] = cur[q]
    BY <1>0, <1>2
    DEF Quiet, ClaimPublisher, AcceptPublish, ReadPacket, ReadEnd,
        ReleasePublisher, BroadcastDone, Snapshot, Visit, GoPub, TypeOK
  <2>3. QED
    BY <2>1, <2>2 DEF RoomInv
<1>3. ASSUME NEW s \in Subs, SubNext(s) PROVE RoomInv'
  <2>1. UNCHANGED <<pubPc, cur>>
    BY <1>3, SubFrame
  <2>2. \A t \in Subs : t # s => queue'[t] = queue[t]
    BY <1>0, <1>3, SubOthers
  <2>3. Len(queue'[s]) \in Nat /\ Len(queue'[s]) <= Len(queue[s])
    <3>1. CASE Recv(s)
      <4>1. queue[s] # <<>> /\ queue'[s] = Tail(queue[s])
        BY <1>0, <3>1 DEF Recv, TypeOK
      <4>2. QED
        BY <1>0, <4>1, TailFacts
    <3>2. CASE UNCHANGED queue
      BY <1>0, <3>2
    <3>3. QED
      BY <1>3, <3>1, <3>2
      DEF SubNext, HandlerStep, Subscribe, AcceptSubscribe, ViewerGone,
          Watcher, CtxDone, WriteOk, WriteFail, UnsubFlag, UnsubClose, bufVars
  <2>4. \A q \in Pubs : pubPc[q] = "retry" => cur[q] \in Subs
    BY DEF Safe, BcastInv, Delivering
  <2>5. QED
    BY <1>0, <2>1, <2>2, <2>3, <2>4 DEF RoomInv
<1>4. CASE UNCHANGED vars
    BY <1>4 DEF vars, pubVars, bufVars, RoomInv
<1>5. QED
    BY <1>1, <1>2, <1>3, <1>4 DEF Next, PubNext, BroadcastStep, Quiet

LEMMA RoomInvariant == Spec => []RoomInv
<1>1. Init => RoomInv
    BY ChannelAssumption DEF Init, RoomInv
<1>2. QED
    BY <1>1, RoomStep, SafeInvariant, PTL DEF Spec

-----------------------------------------------------------------------------
(* The cap on subscribers.                                                 *)

CapInv == IsFiniteSet(subs) /\ Cardinality(subs) <= MaxSubs

LEMMA CapStep ==
    ASSUME Safe, CapInv, [Next]_vars
    PROVE  CapInv'
<1> USE DEF CapInv
<1>0. Cardinality(subs) \in Nat /\ MaxSubs \in Nat
    BY ChannelAssumption, FS_CardinalityType
<1>1. ASSUME NEW s \in Subs, Subscribe(s) PROVE CapInv'
  <2>1. subs' = subs \cup {s} /\ Cardinality(subs) < MaxSubs
    BY <1>1 DEF Subscribe, HasRoom
  <2>2. QED
    BY <1>0, <2>1, FS_AddElement
<1>2. ASSUME NEW s \in Subs, UnsubFlag(s) PROVE CapInv'
  <2>1. subs' = subs \ {s}
    BY <1>2 DEF UnsubFlag
  <2>2. QED
    BY <1>0, <2>1, FS_Subset, FS_CardinalityType
<1>3. CASE UNCHANGED subs
    BY <1>3
<1>4. ASSUME NEW s \in Subs, SubNext(s), ~Subscribe(s), ~UnsubFlag(s)
      PROVE  UNCHANGED subs
    BY <1>4 DEF SubNext, HandlerStep, AcceptSubscribe, ViewerGone, Watcher,
                CtxDone, Recv, WriteOk, WriteFail, UnsubClose, chVars
<1>5. QED
    BY <1>1, <1>2, <1>3, <1>4, PubFrame DEF Next, vars, chVars

LEMMA CapInvariant == Spec => []CapInv
<1>1. Init => CapInv
    BY ChannelAssumption, FS_EmptySet DEF Init, CapInv
<1>2. QED
    BY <1>1, CapStep, SafeInvariant, PTL DEF Spec

\* The caps of the configuration hold for every configuration: subscribers
\* per channel and packets per queue; and send is closed only behind the flag.
THEOREM BoundedHolds == Spec => []Bounded
<1>1. Safe /\ CapInv /\ RoomInv => Bounded
    BY DEF Safe, MapInv, CapInv, RoomInv, Bounded
<1>2. QED
    BY <1>1, SafeInvariant, CapInvariant, RoomInvariant, PTL

-----------------------------------------------------------------------------
(* The newest packet reaches everybody who is served.                      *)

\* The last packet on the trail of s.
Top(s) == IF queue[s] = <<>> THEN Sent(s) ELSE queue[s][Len(queue[s])]

TopInv == \A s \in Subs : Active(s) /\ ~Owed(s) => Top(s) = published

\* Once deliver is done with a subscriber that is still served, the packet is
\* in its queue: the retry finds room, and a closed channel is not served.
LEMMA DeliverSettles ==
    ASSUME Safe, RoomInv, NEW p \in Pubs, NEW s \in Subs, ~chClosed[s],
           \/ TrySend(p, s) /\ pubPc'[p] # "drop"
           \/ Resend(p, s)
    PROVE  /\ queue'[s] = Append(queue[s], published)
           /\ dropped' = dropped
<1>1. /\ queue \in [Subs -> Seq(Nat)] /\ pkt[p] = published
      /\ SendBuf \in Nat /\ Len(queue[s]) \in Nat
    BY DeliverEffect, ChannelAssumption DEF Safe, TypeOK
<1>2. CASE TrySend(p, s) /\ pubPc'[p] # "drop"
  <2>1. pubPc \in [Pubs -> PubPcs]
    BY DEF Safe, TypeOK
  <2>2. queue' = Push(p, s) /\ dropped' = dropped
    BY <1>2, <2>1 DEF TrySend, GoPub
  <2>3. QED
    BY <1>1, <2>2 DEF Push
<1>3. CASE Resend(p, s)
  <2>1. ~Full(s)
    BY <1>1, <1>3 DEF RoomInv, Resend, Full
  <2>2. queue' = Push(p, s) /\ dropped' = dropped
    BY <1>3, <2>1 DEF Resend, CountDrop
  <2>3. QED
    BY <1>1, <2>2 DEF Push
<1>4. QED
    BY <1>2, <1>3

LEMMA TopPub ==
    ASSUME Safe, RoomInv, TopInv, NEW p \in Pubs, PubNext(p)
    PROVE  TopInv'
<1>0. /\ UNCHANGED <<subs, subPc, hand, last, closed, chClosed>>
      /\ \A t \in Subs : Active(t)' <=> Active(t)
      /\ \A t \in Subs : Sent(t)' = Sent(t)
    BY PubFrame DEF Active, Sent
<1>1. \A t \in Subs : Active(t) => t \in subs /\ ~closed[t] /\ ~chClosed[t]
    BY DEF Safe, MapInv, Active
<1>2. CASE Quiet(p)
    BY <1>0, <1>2, OwedQuiet DEF TopInv, Top
<1>3. CASE Snapshot(p)
    BY <1>0, <1>1, <1>3, OwedSnapshot DEF TopInv
<1>4. ASSUME NEW s \in Subs, Visit(p, s) PROVE TopInv'
    BY <1>0, <1>1, <1>4, OwedVisit DEF TopInv, Top
<1>5. ASSUME NEW s \in Subs,
             TrySend(p, s) \/ DropOldest(p, s) \/ Resend(p, s)
      PROVE  TopInv'
  <2>1. ASSUME NEW t \in Subs, t # s, Active(t)', ~Owed(t)'
        PROVE  Top(t)' = published'
    <3>1. queue'[t] = queue[t] /\ ~Owed(t) /\ published' = published
      BY <1>5, <2>1, DeliverOthers, DeliverEffect
    <3>2. QED
      BY <1>0, <2>1, <3>1 DEF TopInv, Top
  <2>2. ASSUME Active(s)', ~Owed(s)' PROVE Top(s)' = published'
    <3>1. ~chClosed[s]
      BY <1>0, <1>1, <2>2
    <3>2. Owed(s) /\ published' = published
      BY <1>5, DeliverEffect
    <3>3. ~(GoPub(p, "drop") /\ UNCHANGED <<scratch, cur>>) /\ ~DropOldest(p, s)
      BY <1>5, <2>2, <3>2, OwedContinue
      DEF TrySend, DropOldest, Resend, Delivering
    <3>4. \/ TrySend(p, s) /\ pubPc'[p] # "drop"
          \/ Resend(p, s)
      BY <1>5, <3>3 DEF TrySend, DeliverReturns, GoPub, Safe, TypeOK
    <3>5. queue'[s] = Append(queue[s], published)
      BY <3>1, <3>4, DeliverSettles
    <3>6. queue[s] \in Seq(Nat) /\ published \in Nat
      BY DEF Safe, TypeOK
    <3>7. QED
      BY <3>2, <3>5, <3>6, AppendFacts DEF Top
  <2>3. QED
    BY <2>1, <2>2 DEF TopInv
<1>6. QED
    BY <1>2, <1>3, <1>4, <1>5 DEF PubNext, BroadcastStep, Quiet

LEMMA TopSub ==
    ASSUME Safe, OrderInv, TopInv, NEW s \in Subs, SubNext(s)
    PROVE  TopInv'
<1>0. TypeOK /\ published' = published /\ \A t \in Subs : Owed(t)' <=> Owed(t)
    BY SubFrame, OwedSub DEF Safe
<1>1. ASSUME NEW t \in Subs, t # s, Active(t)', ~Owed(t)'
      PROVE  Top(t)' = published'
    BY <1>0, <1>1, SubOthers DEF TopInv, Top, Sent, Active
<1>2. ASSUME Active(s)', ~Owed(s)' PROVE Top(s)' = published'
  <2>1. CASE Subscribe(s)
    <3>1. queue'[s] = <<>> /\ subPc'[s] = "accept" /\ last'[s] = published
      BY <1>0, <2>1 DEF OrderInv, TypeOK, Joined, Subscribe, GoSub, bufVars
    <3>2. QED
      BY <1>0, <3>1 DEF Top, Sent
  <2>2. CASE Recv(s)
    <3>1. /\ queue[s] # <<>> /\ queue'[s] = Tail(queue[s])
          /\ hand'[s] = Head(queue[s]) /\ subPc'[s] = "writing"
          /\ Active(s) /\ queue[s] \in Seq(Nat)
      BY <1>0, <2>2 DEF TypeOK, Recv, GoSub, Active
    <3>2. Top(s) = queue[s][Len(queue[s])] /\ Top(s) = published
      BY <1>0, <1>2, <3>1 DEF Top, TopInv
    <3>3. Sent(s)' = queue[s][1]
      BY <3>1, TailFacts DEF Sent
    <3>4. CASE Len(queue[s]) = 1
      <4>1. queue'[s] = <<>>
        BY <3>1, <3>4, TailLast
      <4>2. QED
        BY <1>0, <3>2, <3>3, <3>4, <4>1 DEF Top
    <3>5. CASE Len(queue[s]) # 1
      <4>1. queue'[s] # <<>> /\ queue'[s][Len(queue'[s])] = queue[s][Len(queue[s])]
        BY <3>1, <3>5, TailLast
      <4>2. QED
        BY <1>0, <3>2, <4>1 DEF Top
    <3>6. QED
      BY <3>4, <3>5
  <2>3. CASE WriteOk(s)
    <3>1. queue'[s] = queue[s] /\ Sent(s)' = Sent(s) /\ Active(s)
      BY <1>0, <2>3 DEF TypeOK, WriteOk, GoSub, bufVars, Sent, Active
    <3>2. QED
      BY <1>0, <1>2, <3>1 DEF Top, TopInv
  <2>4. CASE AcceptSubscribe(s) \/ ViewerGone(s) \/ Watcher(s)
    <3>1. /\ queue'[s] = queue[s] /\ Active(s) /\ hand' = hand /\ last' = last
          /\ subPc'[s] = "writing" <=> subPc[s] = "writing"
      BY <1>0, <2>4
      DEF TypeOK, AcceptSubscribe, ViewerGone, Watcher, GoSub, bufVars, Active
    <3>2. Sent(s)' = Sent(s)
      BY <3>1 DEF Sent
    <3>3. QED
      BY <1>0, <1>2, <3>1, <3>2 DEF Top, TopInv
  <2>5. ~(CtxDone(s) \/ WriteFail(s) \/ UnsubFlag(s) \/ UnsubClose(s))
    BY <1>0, <1>2
    DEF TypeOK, CtxDone, WriteFail, UnsubFlag, UnsubClose, GoSub, Active
  <2>6. QED
    BY <2>1, <2>2, <2>3, <2>4, <2>5 DEF SubNext, HandlerStep
<1>3. QED
    BY <1>1, <1>2 DEF TopInv

LEMMA TopInvariant == Spec => []TopInv
<1>1. Init => TopInv
    BY DEF Init, TopInv, Active
<1>2. Safe /\ RoomInv /\ OrderInv /\ TopInv /\ [Next]_vars => TopInv'
  <2>1. ASSUME TopInv, UNCHANGED vars PROVE TopInv'
    BY <2>1 DEF vars, chVars, pubVars, subVars, bufVars, TopInv, Top, Sent,
                Active, Owed, Delivering
  <2>2. QED
    BY <2>1, TopPub, TopSub DEF Next
<1>3. QED
    BY <1>1, <1>2, SafeInvariant, RoomInvariant, OrderInvariant, PTL DEF Spec

\* Whatever the size of the send buffer and however slow a viewer is, the
\* newest packet is never the one that deliver throws away.
THEOREM NewestKeptHolds == Spec => []NewestKept
<1>1. TypeOK /\ TopInv => NewestKept
  <2> SUFFICES ASSUME TypeOK, TopInv, NEW s \in Subs, Active(s), ~Owed(s)
               PROVE  Trail(s)[Len(Trail(s))] = published
    BY DEF NewestKept
  <2>1. Top(s) = published /\ queue[s] \in Seq(Nat) /\ Held(s) \in {0, 1}
    BY DEF TopInv, TypeOK, Held
  <2>2. CASE queue[s] = <<>>
    <3>1. Len(queue[s]) = 0
      BY <2>2
    <3>2. Trail(s)[Len(Trail(s))] = Sent(s)
      <4>1. CASE subPc[s] = "writing"
        <5>1. Held(s) = 1
          BY <4>1 DEF Held
        <5>2. Len(Trail(s)) = 2 /\ Trail(s)[2] = hand[s]
          <6>1. /\ Len(Trail(s)) = 1 + Held(s) + Len(queue[s])
                /\ Trail(s)[1] = last[s]
                /\ subPc[s] = "writing" => Trail(s)[2] = hand[s]
            BY TrailFacts
          <6>2. QED
            BY <3>1, <4>1, <5>1, <6>1
        <5>3. QED
          BY <4>1, <5>2 DEF Sent
      <4>2. CASE subPc[s] # "writing"
        <5>1. Held(s) = 0
          BY <4>2 DEF Held
        <5>2. Len(Trail(s)) = 1 /\ Trail(s)[1] = last[s]
          <6>1. /\ Len(Trail(s)) = 1 + Held(s) + Len(queue[s])
                /\ Trail(s)[1] = last[s]
                /\ subPc[s] = "writing" => Trail(s)[2] = hand[s]
            BY TrailFacts
          <6>2. QED
            BY <3>1, <4>2, <5>1, <6>1
        <5>3. QED
          BY <4>2, <5>2 DEF Sent
      <4>3. QED
        BY <4>1, <4>2
    <3>3. QED
      BY <2>1, <2>2, <3>2 DEF Top
  <2>3. CASE queue[s] # <<>>
    <3>1. Len(queue[s]) \in 1..Len(queue[s])
      BY <2>1, <2>3, TailFacts
    <3>2. Trail(s)[Len(Trail(s))] = queue[s][Len(queue[s])]
      BY <3>1, TrailFacts
    <3>3. QED
      BY <2>1, <2>3, <3>2 DEF Top
  <2>4. QED
    BY <2>2, <2>3
<1>2. QED
    BY <1>1, Typing, TopInvariant, PTL

-----------------------------------------------------------------------------
(* No packet is lost without a trace.                                      *)

\* Where the packets broadcast to s are: written, held by Write, queued or
\* counted as dropped; and the one that is still on its way.
Accounted(s) == received[s] + Held(s) + Len(queue[s]) + dropped[s]
Queued(s) == Len(queue[s])
Due(s) == IF Owed(s) THEN 1 ELSE 0

\* The sum starts at 0: a request that has not subscribed owns no packet.
LossInv ==
    \A s \in Subs :
        /\ Active(s) => Accounted(s) + Due(s) = published - joinedAt[s]
        /\ ~Joined(s) => received[s] = 0 /\ dropped[s] = 0

LEMMA SumMoves ==
    ASSUME NEW r \in Nat, NEW h \in Nat, NEW q \in Nat, NEW d \in Nat,
           NEW u \in Nat, NEW q2 \in Nat, NEW d2 \in Nat, NEW u2 \in Nat,
           q2 + d2 + u2 = q + d + u
    PROVE  r + h + q2 + d2 + u2 = r + h + q + d + u
  OBVIOUS

LEMMA LossTypes ==
    ASSUME TypeOK, NEW s \in Subs
    PROVE  /\ received[s] \in Nat /\ dropped[s] \in Nat /\ joinedAt[s] \in Nat
           /\ published \in Nat /\ queue[s] \in Seq(Nat)
           /\ Len(queue[s]) \in Nat /\ Held(s) \in Nat /\ Due(s) \in Nat
<1>1. Held(s) \in Nat /\ Due(s) \in Nat
    BY DEF Held, Due
<1>2. queue[s] \in Seq(Nat)
    BY DEF TypeOK
<1>3. QED
    BY <1>1, <1>2, SeqElems DEF TypeOK

\* What one step of deliver does to the account of the subscriber it serves.
LEMMA DeliverAccount ==
    ASSUME Safe, RoomInv, NEW p \in Pubs, NEW s \in Subs, Active(s),
           TrySend(p, s) \/ DropOldest(p, s) \/ Resend(p, s)
    PROVE  Len(queue'[s]) + dropped'[s] + Due(s)'
               = Len(queue[s]) + dropped[s] + Due(s)
<1>0. /\ queue \in [Subs -> Seq(Nat)] /\ dropped \in [Subs -> Nat]
      /\ dropped[s] \in Nat /\ queue[s] \in Seq(Nat) /\ Len(queue[s]) \in Nat
      /\ Delivering(p) /\ cur[p] = s /\ UNCHANGED scratch
      /\ pubPc \in [Pubs -> PubPcs]
    BY DEF Safe, TypeOK, TrySend, DropOldest, Resend, Delivering
<1>1. ~chClosed[s]
    BY DEF Safe, MapInv, Active
<1>2. Owed(s) /\ published \in Nat
    BY DeliverEffect DEF Safe, TypeOK
<1>3. Due(s) = 1
    BY <1>2 DEF Due
<1>4. CASE (TrySend(p, s) /\ pubPc'[p] # "drop") \/ Resend(p, s)
  <2>1. queue'[s] = Append(queue[s], published) /\ dropped' = dropped
    BY <1>1, <1>4, DeliverSettles
  <2>2. Len(queue'[s]) = Len(queue[s]) + 1
    BY <1>0, <1>2, <2>1, AppendFacts
  <2>3. DeliverReturns(p)
    BY <1>0, <1>4 DEF TrySend, Resend, GoPub
  <2>4. ~Owed(s)'
    BY <1>0, <2>3, OwedReturn
  <2>5. Due(s)' = 0
    BY <2>4 DEF Due
  <2>6. QED
    BY <1>0, <1>3, <2>1, <2>2, <2>5
<1>5. CASE TrySend(p, s) /\ pubPc'[p] = "drop"
  <2>1. GoPub(p, "drop") /\ UNCHANGED <<cur, queue, dropped>>
    BY <1>0, <1>5 DEF TrySend, DeliverReturns, GoPub
  <2>2. Owed(s)'
    BY <1>0, <1>2, <2>1, OwedContinue
  <2>3. Due(s)' = 1
    BY <2>2 DEF Due
  <2>4. QED
    BY <1>3, <2>1, <2>3
<1>6. CASE DropOldest(p, s)
  <2>1. GoPub(p, "retry") /\ UNCHANGED cur
    BY <1>6 DEF DropOldest
  <2>2. Owed(s)'
    BY <1>0, <1>2, <2>1, OwedContinue
  <2>3. Due(s)' = 1
    BY <2>2 DEF Due
  <2>4. CASE queue[s] # <<>>
    <3>1. queue'[s] = Tail(queue[s])
      BY <1>0, <1>6, <2>4 DEF DropOldest, DiscardOldest
    <3>2. dropped'[s] = dropped[s] + 1
      BY <1>0, <1>6, <2>4 DEF DropOldest, CountDrop
    <3>3. Len(queue'[s]) = Len(queue[s]) - 1
      BY <1>0, <2>4, <3>1, TailFacts
    <3>4. QED
      BY <1>0, <1>3, <2>3, <3>2, <3>3
  <2>5. CASE queue[s] = <<>>
    <3>1. queue' = queue /\ dropped' = dropped
      BY <1>1, <1>6, <2>5 DEF DropOldest, CountDrop
    <3>2. QED
      BY <1>3, <2>3, <3>1
  <2>6. QED
    BY <2>4, <2>5
<1>7. QED
    BY <1>4, <1>5, <1>6

LEMMA LossPub ==
    ASSUME Safe, RoomInv, LossInv, NEW p \in Pubs, PubNext(p)
    PROVE  LossInv'
<1> SUFFICES ASSUME NEW t \in Subs
             PROVE  /\ Active(t)' => Accounted(t)' + Due(t)' = published' - joinedAt'[t]
                    /\ ~Joined(t)' => received'[t] = 0 /\ dropped'[t] = 0
    BY DEF LossInv
<1>0. /\ UNCHANGED <<subPc, joinedAt, received>>
      /\ Active(t)' <=> Active(t)
      /\ Joined(t)' <=> Joined(t)
      /\ Held(t)' = Held(t)
    BY PubFrame DEF Active, Joined, Held
<1>1. Active(t) => t \in subs /\ ~closed[t] /\ ~chClosed[t] /\ Joined(t)
    BY DEF Safe, MapInv, Active, Joined
<1>2. /\ received[t] \in Nat /\ dropped[t] \in Nat /\ joinedAt[t] \in Nat
      /\ published \in Nat /\ Len(queue[t]) \in Nat
      /\ Held(t) \in Nat /\ Due(t) \in Nat
    BY LossTypes DEF Safe
<1>3. /\ Active(t) => Accounted(t) + Due(t) = published - joinedAt[t]
      /\ ~Joined(t) => received[t] = 0 /\ dropped[t] = 0
    BY DEF LossInv
<1>4. CASE Quiet(p)
    BY <1>0, <1>3, <1>4, OwedQuiet DEF Accounted, Due
<1>5. CASE Snapshot(p)
  <2>1. /\ published' = published + 1 /\ UNCHANGED <<queue, dropped>>
        /\ ~Owed(t) /\ (Owed(t)' <=> t \in subs)
    BY <1>5, OwedSnapshot
  <2>2. Due(t) = 0 /\ (Active(t) => Due(t)' = 1)
    BY <1>1, <2>1 DEF Due
  <2>3. Accounted(t)' = Accounted(t) /\ Accounted(t) \in Int
    BY <1>0, <1>2, <2>1 DEF Accounted
  <2>4. QED
    BY <1>0, <1>2, <1>3, <2>1, <2>2, <2>3
<1>6. ASSUME NEW s \in Subs, Visit(p, s)
      PROVE  /\ Active(t)' => Accounted(t)' + Due(t)' = published' - joinedAt'[t]
             /\ ~Joined(t)' => received'[t] = 0 /\ dropped'[t] = 0
  <2>1. UNCHANGED <<published, queue, dropped>>
    BY <1>6, OwedVisit
  <2>2. Active(t) => (Owed(t)' <=> Owed(t))
    BY <1>1, <1>6, OwedVisit
  <2>3. QED
    BY <1>0, <1>3, <2>1, <2>2 DEF Accounted, Due
<1>7. ASSUME NEW s \in Subs,
             TrySend(p, s) \/ DropOldest(p, s) \/ Resend(p, s)
      PROVE  /\ Active(t)' => Accounted(t)' + Due(t)' = published' - joinedAt'[t]
             /\ ~Joined(t)' => received'[t] = 0 /\ dropped'[t] = 0
  <2>0. published' = published
    BY <1>7, DeliverEffect
  <2>1. CASE t # s
    <3>1. /\ queue'[t] = queue[t] /\ dropped'[t] = dropped[t]
          /\ Owed(t)' <=> Owed(t)
      BY <1>7, <2>1, DeliverOthers
    <3>2. QED
      BY <1>0, <1>3, <2>0, <3>1 DEF Accounted, Due
  <2>2. CASE t = s
    <3>1. Joined(t)
      BY <1>7, <2>2 DEF TrySend, DropOldest, Resend, Delivering, Safe, BcastInv
    <3>2. ASSUME Active(t)
          PROVE  Accounted(t)' + Due(t)' = published' - joinedAt'[t]
      <4>1. Len(queue'[t]) + dropped'[t] + Due(t)'
                = Len(queue[t]) + dropped[t] + Due(t)
        BY <1>7, <2>2, <3>2, DeliverAccount
      <4>2. TypeOK'
        BY TypePub DEF Safe
      <4>3. Len(queue'[t]) \in Nat /\ dropped'[t] \in Nat /\ Due(t)' \in Nat
        BY <4>2, SeqElems DEF TypeOK, Due
      <4>4. Accounted(t)' + Due(t)' = Accounted(t) + Due(t)
        <5>1. /\ Queued(t)' \in Nat /\ Queued(t) \in Nat
              /\ received[t] \in Nat /\ Held(t) \in Nat
              /\ dropped[t] \in Nat /\ dropped'[t] \in Nat
              /\ Due(t) \in Nat /\ Due(t)' \in Nat
              /\ Queued(t)' + dropped'[t] + Due(t)' = Queued(t) + dropped[t] + Due(t)
          BY <1>2, <4>1, <4>3 DEF Queued
        <5>2. received[t] + Held(t) + Queued(t)' + dropped'[t] + Due(t)'
                  = received[t] + Held(t) + Queued(t) + dropped[t] + Due(t)
          BY <5>1, SumMoves
        <5>3. QED
          BY <1>0, <5>2 DEF Accounted, Queued
      <4>5. QED
        BY <1>0, <1>3, <2>0, <3>2, <4>4
    <3>3. QED
      BY <1>0, <3>1, <3>2
  <2>3. QED
    BY <2>1, <2>2
<1>8. QED
    BY <1>4, <1>5, <1>6, <1>7 DEF PubNext, BroadcastStep, Quiet

LEMMA LossSub ==
    ASSUME Safe, OrderInv, LossInv, NEW s \in Subs, SubNext(s)
    PROVE  LossInv'
<1>0. /\ TypeOK /\ UNCHANGED <<published, dropped>>
      /\ \A t \in Subs : Owed(t)' <=> Owed(t)
      /\ \A t \in Subs : Due(t)' = Due(t)
    BY SubFrame, OwedSub DEF Safe, Due
<1>1. ASSUME NEW t \in Subs, t # s
      PROVE  /\ Active(t)' => Accounted(t)' + Due(t)' = published' - joinedAt'[t]
             /\ ~Joined(t)' => received'[t] = 0 /\ dropped'[t] = 0
    BY <1>0, <1>1, SubOthers DEF LossInv, Accounted, Held, Active, Joined
<1>2. /\ received[s] \in Nat /\ dropped[s] \in Nat /\ joinedAt[s] \in Nat
      /\ published \in Nat /\ queue[s] \in Seq(Nat) /\ Len(queue[s]) \in Nat
      /\ Held(s) \in Nat /\ Due(s) \in Nat
    BY <1>0, LossTypes
<1>3. /\ Active(s) => Accounted(s) + Due(s) = published - joinedAt[s]
      /\ ~Joined(s) => received[s] = 0 /\ dropped[s] = 0
    BY DEF LossInv
<1>4. Joined(s)'
    BY <1>0 DEF Joined, TypeOK, SubNext, HandlerStep, Subscribe,
                AcceptSubscribe, ViewerGone, Watcher, CtxDone, Recv, WriteOk,
                WriteFail, UnsubFlag, UnsubClose, GoSub
<1>5. ASSUME Active(s)'
      PROVE  Accounted(s)' + Due(s)' = published' - joinedAt'[s]
  <2>1. CASE Subscribe(s)
    <3>1. /\ ~Joined(s) /\ queue'[s] = <<>> /\ received'[s] = 0
          /\ subPc'[s] = "accept" /\ joinedAt'[s] = published
      BY <1>0, <1>3, <2>1
      DEF OrderInv, TypeOK, Joined, Subscribe, GoSub, bufVars
    <3>2. ~Owed(s)
      BY <3>1 DEF Owed, Safe, BcastInv
    <3>3. Due(s) = 0 /\ Held(s)' = 0
      BY <3>1, <3>2 DEF Due, Held
    <3>4. Len(queue'[s]) = 0
      BY <3>1
    <3>5. Accounted(s)' = 0
      BY <1>0, <1>3, <3>1, <3>3, <3>4 DEF Accounted
    <3>6. QED
      BY <1>0, <1>2, <3>1, <3>3, <3>5
  <2>2. CASE Recv(s)
    <3>1. /\ queue[s] # <<>> /\ queue'[s] = Tail(queue[s]) /\ Active(s)
          /\ subPc[s] = "select" /\ subPc'[s] = "writing"
          /\ UNCHANGED <<received, joinedAt>>
      BY <1>0, <2>2 DEF TypeOK, Recv, GoSub, Active
    <3>2. Len(queue'[s]) = Len(queue[s]) - 1
      BY <1>2, <3>1, TailFacts
    <3>3. Held(s) = 0 /\ Held(s)' = 1
      BY <3>1 DEF Held
    <3>4. Accounted(s)' = Accounted(s)
      BY <1>0, <1>2, <3>1, <3>2, <3>3 DEF Accounted
    <3>5. QED
      BY <1>0, <1>3, <3>1, <3>4
  <2>3. CASE WriteOk(s)
    <3>1. /\ queue' = queue /\ received'[s] = received[s] + 1 /\ Active(s)
          /\ subPc[s] = "writing" /\ subPc'[s] = "select"
          /\ joinedAt' = joinedAt
      BY <1>0, <2>3 DEF TypeOK, WriteOk, GoSub, bufVars, Active
    <3>2. Held(s) = 1 /\ Held(s)' = 0
      BY <3>1 DEF Held
    <3>3. Accounted(s)' = Accounted(s)
      BY <1>0, <1>2, <3>1, <3>2 DEF Accounted
    <3>4. QED
      BY <1>0, <1>3, <3>1, <3>3
  <2>4. CASE AcceptSubscribe(s) \/ ViewerGone(s) \/ Watcher(s)
    <3>1. /\ UNCHANGED <<queue, received, joinedAt>> /\ Active(s)
          /\ subPc'[s] = "writing" <=> subPc[s] = "writing"
      BY <1>0, <2>4
      DEF TypeOK, AcceptSubscribe, ViewerGone, Watcher, GoSub, bufVars, Active
    <3>2. Held(s)' = Held(s)
      BY <3>1 DEF Held
    <3>3. Accounted(s)' = Accounted(s)
      BY <1>0, <3>1, <3>2 DEF Accounted
    <3>4. QED
      BY <1>0, <1>3, <3>1, <3>3
  <2>5. ~(CtxDone(s) \/ WriteFail(s) \/ UnsubFlag(s) \/ UnsubClose(s))
    BY <1>0, <1>5
    DEF TypeOK, CtxDone, WriteFail, UnsubFlag, UnsubClose, GoSub, Active
  <2>6. QED
    BY <2>1, <2>2, <2>3, <2>4, <2>5 DEF SubNext, HandlerStep
<1>6. QED
    BY <1>1, <1>4, <1>5 DEF LossInv

LEMMA LossInvariant == Spec => []LossInv
<1>1. Init => LossInv
    BY DEF Init, LossInv, Active
<1>2. Safe /\ RoomInv /\ OrderInv /\ LossInv /\ [Next]_vars => LossInv'
  <2>1. ASSUME LossInv, UNCHANGED vars PROVE LossInv'
    BY <2>1 DEF vars, chVars, pubVars, subVars, bufVars, LossInv, Accounted,
                Due, Held, Active, Joined, Owed, Delivering
  <2>2. QED
    BY <2>1, LossPub, LossSub DEF Next
<1>3. QED
    BY <1>1, <1>2, SafeInvariant, RoomInvariant, OrderInvariant, PTL DEF Spec

\* The drop counter is honest: however deliver, Write and Recv interleave,
\* every packet broadcast to a served viewer is written, held, queued or
\* counted as dropped.
THEOREM NoSilentLossHolds == Spec => []NoSilentLoss
<1>1. TypeOK /\ LossInv => NoSilentLoss
  <2> SUFFICES ASSUME TypeOK, LossInv, NEW s \in Subs, Active(s)
               PROVE  received[s] + (Len(Trail(s)) - 1) + dropped[s]
                          = published - joinedAt[s] - Due(s)
    BY DEF NoSilentLoss, Due
  <2>1. /\ received[s] \in Nat /\ dropped[s] \in Nat /\ joinedAt[s] \in Nat
        /\ published \in Nat /\ Len(queue[s]) \in Nat
        /\ Held(s) \in Nat /\ Due(s) \in Nat
    BY LossTypes
  <2>2. Len(Trail(s)) = 1 + Held(s) + Len(queue[s])
    BY TrailFacts
  <2>3. /\ received[s] \in Nat /\ dropped[s] \in Nat /\ joinedAt[s] \in Nat
        /\ published \in Nat /\ Held(s) \in Nat /\ Due(s) \in Nat
        /\ Queued(s) \in Nat
        /\ received[s] + Held(s) + Queued(s) + dropped[s] + Due(s)
               = published - joinedAt[s]
    BY <2>1, <2>2 DEF LossInv, Accounted, Queued
  <2>4. received[s] + ((1 + Held(s) + Queued(s)) - 1) + dropped[s]
            = published - joinedAt[s] - Due(s)
    BY <2>3
  <2>5. Len(Trail(s)) = 1 + Held(s) + Queued(s)
    BY <2>2 DEF Queued
  <2>6. QED
    BY <2>4, <2>5, Zenon
<1>2. QED
    BY <1>1, Typing, LossInvariant, PTL

-----------------------------------------------------------------------------
(* The hub implements Fanout, step by step.                                *)

StatusAt(to) == CASE to = "idle" -> "out"
                  [] to \in {"accept", "select", "writing"} -> "in"
                  [] OTHER -> "left"

LEMMA StatusFacts ==
    /\ Status = [s \in Subs |-> StatusAt(subPc[s])]
    /\ \A s \in Subs : /\ Status[s] = "out" <=> subPc[s] = "idle"
                       /\ Status[s] = "in" <=> Active(s)
  BY DEF Status, StatusAt, Active

\* A handler that moves changes its own status only.
LEMMA StatusMoves ==
    ASSUME TypeOK, NEW s \in Subs, NEW to, GoSub(s, to)
    PROVE  Status' = [Status EXCEPT ![s] = StatusAt(to)]
<1>1. /\ Status = [t \in Subs |-> StatusAt(subPc[t])]
      /\ Status' = [t \in Subs |-> StatusAt(subPc'[t])]
    BY StatusFacts DEF Status, StatusAt, Active
<1>2. \A t \in Subs : subPc'[t] = IF t = s THEN to ELSE subPc[t]
    BY DEF GoSub, TypeOK
<1>3. QED
    BY <1>1, <1>2

LEMMA StatusStays ==
    ASSUME TypeOK, NEW s \in Subs, NEW to, GoSub(s, to),
           StatusAt(to) = StatusAt(subPc[s])
    PROVE  Status' = Status
<1>1. Status' = [Status EXCEPT ![s] = StatusAt(to)]
    BY StatusMoves
<1>2. Status = [t \in Subs |-> StatusAt(subPc[t])]
    BY StatusFacts
<1>3. QED
    BY <1>1, <1>2

\* The viewers Fanout counts are in the map, so its cap follows from HasRoom.
LEMMA InCounted ==
    ASSUME Safe, CapInv
    PROVE  Cardinality(Fan!In) <= Cardinality(subs)
<1>1. Fan!In \subseteq subs
    BY StatusFacts DEF Fan!In, Safe, MapInv, Active
<1>2. QED
    BY <1>1, FS_Subset DEF CapInv

\* Fanout's own copy of Cardinality is Cardinality.
LEMMA SameCardinality == Fan!Cardinality(Fan!In) = Cardinality(Fan!In)
  BY DEF Fan!Cardinality, Cardinality, Fan!IsFiniteSet, IsFiniteSet

LEMMA RefinePub ==
    ASSUME Safe, NEW p \in Pubs, PubNext(p)
    PROVE  [Fan!Next]_(Fan!vars)
<1>1. UNCHANGED <<subPc, last, received>>
    BY PubFrame
<1>2. Status' = Status
    BY <1>1 DEF Status, Active
<1>3. CASE ClaimPublisher(p)
  <2>1. Fan!Claim
    BY <1>1, <1>2, <1>3 DEF Fan!Claim, ClaimPublisher, SlotFree
  <2>2. QED
    BY <2>1 DEF Fan!Next
<1>4. CASE ReleasePublisher(p)
  <2>1. hasPub
    BY <1>4 DEF ReleasePublisher, Safe, SlotInv, InSlot
  <2>2. Fan!Release
    BY <1>1, <1>2, <1>4, <2>1 DEF Fan!Release, ReleasePublisher
  <2>3. QED
    BY <2>2 DEF Fan!Next
<1>5. CASE Snapshot(p)
  <2>1. hasPub
    BY <1>5 DEF Snapshot, Safe, SlotInv, InSlot
  <2>2. Fan!Publish
    BY <1>1, <1>2, <1>5, <2>1 DEF Fan!Publish, Snapshot, chVars
  <2>3. QED
    BY <2>2 DEF Fan!Next
<1>6. CASE UNCHANGED <<hasPub, published>>
    BY <1>1, <1>2, <1>6 DEF Fan!vars
<1>7. QED
    BY <1>3, <1>4, <1>5, <1>6
    DEF PubNext, BroadcastStep, AcceptPublish, ReadPacket, ReadEnd,
        BroadcastDone, Visit, TrySend, DropOldest, Resend, chVars

LEMMA RefineSub ==
    ASSUME Safe, OrderInv, CapInv, NEW s \in Subs, SubNext(s)
    PROVE  [Fan!Next]_(Fan!vars)
<1>0. TypeOK /\ UNCHANGED <<hasPub, published>>
    BY SubFrame DEF Safe
<1>1. CASE Subscribe(s)
  <2>1. Status[s] = "out" /\ Status' = [Status EXCEPT ![s] = "in"]
    BY <1>0, <1>1, StatusFacts, StatusMoves DEF Subscribe, StatusAt
  <2>2. Cardinality(Fan!In) < MaxSubs
    <3>1. Cardinality(subs) < MaxSubs /\ Cardinality(subs) \in Nat
      BY <1>1, FS_CardinalityType DEF Subscribe, HasRoom, CapInv
    <3>2. IsFiniteSet(Fan!In)
      <4>1. Fan!In \subseteq subs
        BY StatusFacts DEF Fan!In, Safe, MapInv, Active
      <4>2. QED
        BY <4>1, FS_Subset DEF CapInv
    <3>3. QED
      BY <3>1, <3>2, InCounted, FS_CardinalityType, ChannelAssumption
  <2>3. Fan!Join(s)
    BY <1>0, <1>1, <2>1, <2>2, SameCardinality DEF Fan!Join, Subscribe
  <2>4. QED
    BY <2>3 DEF Fan!Next
<1>2. CASE WriteOk(s)
  <2>1. Status[s] = "in" /\ Status' = Status
    BY <1>0, <1>2, StatusFacts, StatusStays DEF WriteOk, StatusAt, Active
  <2>2. /\ last[s] < hand[s] /\ hand[s] <= published
        /\ hand[s] \in Nat /\ last[s] \in Nat /\ published \in Nat
    BY <1>0, <1>2 DEF OrderInv, Ord, Sent, WriteOk, TypeOK
  <2>3. hand[s] \in (last[s] + 1)..published
    BY <2>2
  <2>4. Fan!Deliver(s)
    BY <1>0, <1>2, <2>1, <2>3 DEF Fan!Deliver, WriteOk
  <2>5. QED
    BY <2>4 DEF Fan!Next
<1>3. ASSUME Active(s), GoSub(s, "return"), UNCHANGED <<last, received>>
      PROVE  [Fan!Next]_(Fan!vars)
  <2>1. Status[s] = "in" /\ Status' = [Status EXCEPT ![s] = "left"]
    BY <1>0, <1>3, StatusFacts, StatusMoves DEF StatusAt
  <2>2. Fan!Leave(s)
    BY <1>0, <1>3, <2>1 DEF Fan!Leave
  <2>3. QED
    BY <2>2 DEF Fan!Next
<1>4. CASE CtxDone(s) \/ WriteFail(s)
    BY <1>3, <1>4 DEF CtxDone, WriteFail, Active
<1>5. CASE AcceptSubscribe(s)
  <2>1. CASE GoSub(s, "return")
    BY <1>3, <1>5, <2>1 DEF AcceptSubscribe, Active
  <2>2. CASE GoSub(s, "select")
    <3>1. Status' = Status
      BY <1>0, <1>5, <2>2, StatusStays DEF AcceptSubscribe, StatusAt
    <3>2. QED
      BY <1>0, <1>5, <3>1 DEF AcceptSubscribe, Fan!vars
  <2>3. QED
    BY <1>5, <2>1, <2>2 DEF AcceptSubscribe
<1>6. CASE ViewerGone(s) \/ Watcher(s)
  <2>1. UNCHANGED <<subPc, last, received>>
    BY <1>6 DEF ViewerGone, Watcher
  <2>2. Status' = Status
    BY <2>1 DEF Status, Active
  <2>3. QED
    BY <1>0, <2>1, <2>2 DEF Fan!vars
<1>7. CASE Recv(s) \/ UnsubFlag(s) \/ UnsubClose(s)
  <2>1. UNCHANGED <<last, received>>
    BY <1>7 DEF Recv, UnsubFlag, UnsubClose
  <2>2. Status' = Status
    <3>1. CASE Recv(s)
      BY <1>0, <3>1, StatusStays DEF Recv, StatusAt
    <3>2. CASE UnsubFlag(s)
      BY <1>0, <3>2, StatusStays DEF UnsubFlag, StatusAt
    <3>3. CASE UnsubClose(s)
      BY <1>0, <3>3, StatusStays DEF UnsubClose, StatusAt
    <3>4. QED
      BY <1>7, <3>1, <3>2, <3>3
  <2>3. QED
    BY <1>0, <2>1, <2>2 DEF Fan!vars
<1>8. QED
    BY <1>1, <1>2, <1>4, <1>5, <1>6, <1>7 DEF SubNext, HandlerStep

\* The hub implements Fanout for any number of publishers, requests and
\* packets: queues, snapshots and locks hide behind one live publisher and an
\* increasing selection of its packets for each viewer.
THEOREM ImplementsFanoutHolds == Spec => ImplementsFanout
<1>1. Init => Fan!Init
  <2>1. Init => Status = [s \in Subs |-> "out"]
    BY StatusFacts DEF Init, StatusAt
  <2>2. QED
    BY <2>1 DEF Init, Fan!Init
<1>2. Safe /\ OrderInv /\ CapInv /\ [Next]_vars => [Fan!Next]_(Fan!vars)
  <2>1. ASSUME UNCHANGED vars PROVE UNCHANGED Fan!vars
    BY <2>1 DEF vars, chVars, pubVars, subVars, Fan!vars, Status, Active
  <2>2. QED
    BY <2>1, RefinePub, RefineSub DEF Next
<1>3. QED
    BY <1>1, <1>2, SafeInvariant, OrderInvariant, CapInvariant, PTL
    DEF Spec, ImplementsFanout, Fan!Spec
=============================================================================
