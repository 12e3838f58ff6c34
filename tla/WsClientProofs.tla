--------------------------- MODULE WsClientProofs ---------------------------
(***************************************************************************)
(* Proofs about WsClient, for any set of tracks, any queue bound and any   *)
(* number of backoff delays.                                               *)
(***************************************************************************)
EXTENDS WsClient, TLAPS

Pkt == [kind : Kinds, epoch : {0, 1}]

-----------------------------------------------------------------------------
(* The queue, as a sequence.                                               *)

LEMMA AppendFacts ==
    ASSUME NEW q \in Seq(Pkt), NEW x \in Pkt
    PROVE  /\ Append(q, x) \in Seq(Pkt)
           /\ Len(q) \in Nat /\ Len(Append(q, x)) = Len(q) + 1
           /\ Append(q, x)[Len(q) + 1] = x
           /\ \A i \in 1..Len(q) : Append(q, x)[i] = q[i]
  OBVIOUS

LEMMA TailFacts ==
    ASSUME NEW q \in Seq(Pkt), q # <<>>
    PROVE  /\ Tail(q) \in Seq(Pkt) /\ Head(q) \in Pkt
           /\ Len(q) \in Nat \ {0} /\ Len(Tail(q)) = Len(q) - 1
           /\ Head(q) = q[1]
           /\ \A i \in 1..(Len(q) - 1) : Tail(q)[i] = q[i + 1]
  OBVIOUS

LEMMA EmptyFacts ==
    /\ <<>> \in Seq(Pkt) /\ Len(<<>>) = 0
    /\ \A q \in Seq(Pkt) : q = <<>> <=> Len(q) = 0
  OBVIOUS

LEMMA NewPacket ==
    ASSUME TypeOK, NEW k \in Kinds
    PROVE  [kind |-> k, epoch |-> epoch] \in Pkt
  BY DEF TypeOK, Pkt

\* Enqueue keeps the type and the bound of the queue, and everything in it is
\* new or was there before.
LEMMA PushFacts ==
    ASSUME TypeOK, NEW k \in Kinds
    PROVE  /\ Pushed(k) \in Seq(Pkt)
           /\ Len(Pushed(k)) <= kMaxQueue
           /\ \A i \in 1..Len(Pushed(k)) :
                 \/ Pushed(k)[i] = [kind |-> k, epoch |-> epoch]
                 \/ \E j \in 1..Len(queue) : Pushed(k)[i] = queue[j]
<1> DEFINE x == [kind |-> k, epoch |-> epoch]
<1>0. /\ queue \in Seq(Pkt) /\ Len(queue) \in Nat /\ Len(queue) <= kMaxQueue
      /\ x \in Pkt /\ kMaxQueue \in Nat \ {0}
    BY NewPacket, AppendFacts, WsAssumption DEF TypeOK, Pkt
<1> HIDE DEF x
<1>1. CASE Len(queue) >= kMaxQueue
  <2> DEFINE q == Tail(queue)
  <2>1. queue # <<>>
    BY <1>0, <1>1, EmptyFacts
  <2>2. /\ q \in Seq(Pkt) /\ Len(q) = Len(queue) - 1
        /\ \A i \in 1..Len(q) : q[i] = queue[i + 1] /\ i + 1 \in 1..Len(queue)
    BY <1>0, <2>1, TailFacts
  <2>3. Pushed(k) = Append(q, x)
    BY <1>1 DEF Pushed, x
  <2> HIDE DEF q
  <2>4. /\ Append(q, x) \in Seq(Pkt) /\ Len(Append(q, x)) = Len(q) + 1
        /\ Append(q, x)[Len(q) + 1] = x
        /\ \A i \in 1..Len(q) : Append(q, x)[i] = q[i]
    BY <1>0, <2>2, AppendFacts
  <2>5. \A i \in 1..(Len(q) + 1) : i = Len(q) + 1 \/ i \in 1..Len(q)
    BY <1>0, <2>2
  <2>6. Len(Pushed(k)) = Len(queue) /\ Len(q) + 1 = Len(queue)
    BY <1>0, <2>2, <2>3, <2>4
  <2>7. ASSUME NEW i \in 1..Len(Pushed(k))
        PROVE  \/ Pushed(k)[i] = x
               \/ \E j \in 1..Len(queue) : Pushed(k)[i] = queue[j]
    <3>1. CASE i = Len(q) + 1
      BY <2>3, <2>4, <3>1
    <3>2. CASE i \in 1..Len(q)
      <4>1. Pushed(k)[i] = queue[i + 1] /\ i + 1 \in 1..Len(queue)
        BY <2>2, <2>3, <2>4, <3>2
      <4>2. QED
        BY <4>1
    <3>3. QED
      BY <2>5, <2>6, <3>1, <3>2
  <2>8. QED
    BY <1>0, <2>3, <2>4, <2>6, <2>7 DEF x
<1>2. CASE ~(Len(queue) >= kMaxQueue)
  <2>1. Pushed(k) = Append(queue, x)
    BY <1>2 DEF Pushed, x
  <2>2. /\ Append(queue, x) \in Seq(Pkt) /\ Len(Append(queue, x)) = Len(queue) + 1
        /\ Append(queue, x)[Len(queue) + 1] = x
        /\ \A i \in 1..Len(queue) : Append(queue, x)[i] = queue[i]
    BY <1>0, AppendFacts
  <2>3. \A i \in 1..(Len(queue) + 1) : i = Len(queue) + 1 \/ i \in 1..Len(queue)
    BY <1>0
  <2>4. QED
    BY <1>0, <1>2, <2>1, <2>2, <2>3 DEF x
<1>3. QED
    BY <1>1, <1>2

-----------------------------------------------------------------------------
(* Types, and no stale audio.                                              *)

\* Every step that touches the queue pushes, pops or clears it.
LEMMA QueueSteps ==
    ASSUME [Next]_vars
    PROVE  \/ UNCHANGED <<queue, epoch>>
           \/ queue' = <<>>
           \/ queue # <<>> /\ queue' = Tail(queue) /\ epoch' = epoch
           \/ \E k \in Kinds : queue' = Pushed(k) /\ epoch' = epoch
  BY DEF Next, ServiceStep, OnCancelled, OnWriteable, SendHello, SendTrackList,
         LoopOn, TryConnect, LoopExit, OnEstablished, OnClosed, OnWriteFailed,
         OnConnectionError, BackoffOver, CapturePush, CaptureWake, StopCapture,
         Watchdog, WatchdogExit, Stop, Stopped, vars, histVars, NoteOverflow,
         Cleared, Kinds

LEMMA TypeQueue ==
    ASSUME TypeOK, [Next]_vars
    PROVE  queue' \in Seq([kind : Kinds, epoch : {0, 1}]) /\ Len(queue') <= kMaxQueue
<1>0. queue \in Seq(Pkt) /\ Len(queue) <= kMaxQueue /\ kMaxQueue \in Nat \ {0}
    BY WsAssumption DEF TypeOK, Pkt
<1>1. ASSUME queue # <<>>, queue' = Tail(queue)
      PROVE  queue' \in Seq(Pkt) /\ Len(queue') <= kMaxQueue
    BY <1>0, <1>1, TailFacts
<1>2. queue' = <<>> => queue' \in Seq(Pkt) /\ Len(queue') <= kMaxQueue
    BY <1>0, EmptyFacts
<1>3. QED
    BY <1>0, <1>1, <1>2, QueueSteps, PushFacts DEF Pkt

\* TypeOK without the queue.
TypeCtl ==
    /\ connected \in BOOLEAN /\ connecting \in BOOLEAN
    /\ wsi \in {"null", "handshake", "open"}
    /\ svc \in {"service", "body", "hello", "tracks", "exit"}
    /\ attempt \in 0..kBackoffs
    /\ due \in BOOLEAN /\ wake \in BOOLEAN /\ writable \in BOOLEAN
    /\ cap \in [Tracks -> {"idle", "pushed", "stopped"}]
    /\ dog \in BOOLEAN
    /\ main \in {"run", "stop", "done"}
    /\ epoch \in {0, 1}
    /\ announced \subseteq {"HELLO", "TRACK_LIST"}
    /\ overflowed \in BOOLEAN

LEMMA TypeStep ==
    ASSUME TypeOK, [Next]_vars
    PROVE  TypeCtl'
<1>0. /\ TypeCtl /\ queue \in Seq(Pkt) /\ kBackoffs \in Nat
      /\ \A b \in {"HELLO", "TRACK_LIST"} : b \notin Tracks
    BY WsAssumption DEF TypeOK, TypeCtl, Pkt
<1> USE DEF TypeCtl
<1>1. CASE OnCancelled
    BY <1>0, <1>1 DEF OnCancelled, connVars, histVars
<1>2. CASE OnWriteable
  <2>1. queue # <<>> => Head(queue).kind \in Kinds
    BY <1>0, TailFacts DEF Pkt
  <2>2. announced' \subseteq {"HELLO", "TRACK_LIST"}
    BY <1>0, <1>2, <2>1 DEF OnWriteable, Kinds
  <2>3. writable' \in BOOLEAN
    <3>1. More \in BOOLEAN
      BY DEF More
    <3>2. QED
      BY <1>2, <3>1 DEF OnWriteable
  <2>4. QED
    BY <1>0, <1>2, <2>2, <2>3 DEF OnWriteable, connVars
<1>3. ASSUME NoteOverflow PROVE overflowed' \in BOOLEAN
    BY <1>3, Zenon DEF NoteOverflow
<1>4. CASE SendHello
    BY <1>0, <1>3, <1>4 DEF SendHello, NoteOverflow, connVars
<1>5. CASE SendTrackList
    BY <1>0, <1>3, <1>5 DEF SendTrackList, NoteOverflow, connVars
<1>6. CASE LoopOn
  <2>1. attempt' \in 0..kBackoffs
    BY <1>0, <1>6 DEF LoopOn
  <2>2. QED
    BY <1>0, <1>6, <2>1 DEF LoopOn, connVars, histVars
<1>7. CASE LoopExit
    BY <1>0, <1>7 DEF LoopExit, connVars, histVars
<1>8. CASE TryConnect
  <2>1. attempt' \in 0..kBackoffs
    BY <1>0, <1>8 DEF TryConnect
  <2>2. wsi' \in {"null", "handshake", "open"} /\ connecting' \in BOOLEAN
    BY <1>0, <1>8, Zenon DEF TryConnect
  <2>3. QED
    BY <1>0, <1>8, <2>1, <2>2 DEF TryConnect, histVars
<1>9. CASE OnEstablished
  <2>1. epoch' \in {0, 1}
    BY <1>0, <1>9 DEF OnEstablished
  <2>2. QED
    BY <1>0, <1>9, <2>1 DEF OnEstablished
<1>10. CASE OnClosed
    BY <1>0, <1>10 DEF OnClosed, MarkDisconnected, histVars
<1>11. CASE OnWriteFailed
    BY <1>0, <1>11 DEF OnWriteFailed, MarkDisconnected, histVars
<1>12. CASE OnConnectionError
    BY <1>0, <1>12 DEF OnConnectionError, MarkDisconnected, histVars
<1>13. CASE BackoffOver \/ Watchdog \/ WatchdogExit
  <2>1. due' \in BOOLEAN /\ wake' \in BOOLEAN /\ dog' \in BOOLEAN
    BY <1>0, <1>13 DEF BackoffOver, Watchdog, WatchdogExit
  <2>2. UNCHANGED <<connVars, svc, attempt, writable, cap, main, histVars>>
    BY <1>13 DEF BackoffOver, Watchdog, WatchdogExit
  <2>3. QED
    BY <1>0, <2>1, <2>2 DEF connVars, histVars
<1>14. ASSUME NEW t \in Tracks, CapturePush(t) PROVE TypeCtl'
    BY <1>0, <1>3, <1>14 DEF CapturePush, NoteOverflow, connVars
<1>15. ASSUME NEW t \in Tracks, CaptureWake(t) \/ StopCapture(t) PROVE TypeCtl'
  <2>1. wake' \in BOOLEAN /\ cap' \in [Tracks -> {"idle", "pushed", "stopped"}]
    BY <1>0, <1>15 DEF CaptureWake, StopCapture
  <2>2. UNCHANGED <<connVars, svc, attempt, due, writable, dog, main, histVars>>
    BY <1>15 DEF CaptureWake, StopCapture
  <2>3. QED
    BY <1>0, <2>1, <2>2 DEF connVars, histVars
<1>16. CASE Stop
    BY <1>0, <1>16 DEF Stop, StopWakes, connVars, histVars
<1>17. CASE Stopped
    BY <1>0, <1>17 DEF Stopped, histVars
<1>18. CASE UNCHANGED vars
    BY <1>0, <1>18 DEF vars, connVars, histVars
<1>19. QED
    BY <1>1, <1>2, <1>4, <1>5, <1>6, <1>7, <1>8, <1>9, <1>10, <1>11, <1>12,
       <1>13, <1>14, <1>15, <1>16, <1>17, <1>18 DEF Next, ServiceStep

LEMMA Typing == Spec => []TypeOK
<1>1. Init => TypeOK
  <2>1. Init => TypeCtl
    <3>1. kBackoffs \in Nat
      BY WsAssumption
    <3>2. Init => connecting \in BOOLEAN
      BY Zenon DEF Init
    <3>3. Init => cap \in [Tracks -> {"idle", "pushed", "stopped"}]
      BY DEF Init
    <3>4. Init => attempt \in 0..kBackoffs /\ epoch \in {0, 1}
      BY <3>1 DEF Init
    <3>5. Init => /\ connected \in BOOLEAN /\ due \in BOOLEAN
                  /\ wake \in BOOLEAN /\ writable \in BOOLEAN
                  /\ dog \in BOOLEAN /\ overflowed \in BOOLEAN
      BY DEF Init
    <3>6. Init => /\ wsi \in {"null", "handshake", "open"}
                  /\ svc \in {"service", "body", "hello", "tracks", "exit"}
                  /\ main \in {"run", "stop", "done"}
                  /\ announced \subseteq {"HELLO", "TRACK_LIST"}
      BY DEF Init
    <3>7. QED
      BY <3>2, <3>3, <3>4, <3>5, <3>6 DEF TypeCtl
  <2>2. Init => queue \in Seq(Pkt) /\ Len(queue) <= kMaxQueue
    BY WsAssumption, EmptyFacts DEF Init
  <2>3. QED
    BY <2>1, <2>2 DEF TypeOK, TypeCtl, Pkt
<1>2. TypeOK /\ [Next]_vars => TypeOK'
    BY TypeQueue, TypeStep DEF TypeOK, TypeCtl
<1>3. QED
    BY <1>1, <1>2, PTL DEF Spec

-----------------------------------------------------------------------------
Fresh == connected => \A i \in 1..Len(queue) : queue[i].epoch = epoch

LEMMA FreshStep ==
    ASSUME TypeOK, Fresh, [Next]_vars
    PROVE  Fresh'
<1>0. /\ queue \in Seq(Pkt)
      /\ connected' => connected \/ queue' = <<>>
    BY DEF TypeOK, Pkt, Next, ServiceStep, OnCancelled, OnWriteable, SendHello,
           SendTrackList, LoopOn, TryConnect, LoopExit, OnEstablished,
           OnClosed, OnWriteFailed, OnConnectionError, BackoffOver,
           CapturePush, CaptureWake, StopCapture, Watchdog, WatchdogExit, Stop,
           Stopped, vars, connVars, MarkDisconnected, Cleared
<1>1. CASE UNCHANGED <<queue, epoch>>
    BY <1>0, <1>1, EmptyFacts DEF Fresh
<1>2. CASE queue' = <<>>
    BY <1>2, EmptyFacts DEF Fresh
<1>3. CASE queue # <<>> /\ queue' = Tail(queue) /\ epoch' = epoch
  <2>1. /\ Len(queue) \in Nat \ {0} /\ Len(queue') = Len(queue) - 1
        /\ \A i \in 1..(Len(queue) - 1) : queue'[i] = queue[i + 1]
    BY <1>0, <1>3, TailFacts
  <2>2. \A i \in 1..(Len(queue) - 1) : i + 1 \in 1..Len(queue)
    BY <2>1
  <2>3. CASE connected
    BY <1>3, <2>1, <2>2, <2>3 DEF Fresh
  <2>4. QED
    BY <1>0, <1>2, <2>3 DEF Fresh
<1>4. ASSUME NEW k \in Kinds, queue' = Pushed(k), epoch' = epoch PROVE Fresh'
  <2>1. CASE connected
    <3>1. ASSUME NEW i \in 1..Len(queue') PROVE queue'[i].epoch = epoch'
      <4>1. CASE queue'[i] = [kind |-> k, epoch |-> epoch]
        BY <1>4, <4>1
      <4>2. ASSUME NEW j \in 1..Len(queue), queue'[i] = queue[j]
            PROVE  queue'[i].epoch = epoch'
        BY <1>4, <2>1, <4>2 DEF Fresh
      <4>3. QED
        BY <1>4, <4>1, <4>2, PushFacts
    <3>2. QED
      BY <3>1 DEF Fresh
  <2>2. QED
    BY <1>0, <1>2, <2>1 DEF Fresh
<1>5. QED
    BY <1>1, <1>2, <1>3, <1>4, QueueSteps

\* What a live connection can still send was enqueued for it, for any number
\* of tracks and any queue bound; and the queue never grows past its bound.
THEOREM NoStaleAudioHolds == Spec => []NoStaleAudio
<1>1. Init => Fresh
    BY DEF Init, Fresh
<1>2. TypeOK /\ Fresh => NoStaleAudio
    BY DEF Fresh, NoStaleAudio
<1>3. QED
    BY <1>1, <1>2, FreshStep, Typing, PTL DEF Spec

-----------------------------------------------------------------------------
(* No lost wake-up.                                                        *)

\* A cancel is turned into a writeable request only if there is a wsi, and
\* only a stop request ends the service thread.
WakeInv ==
    /\ NoLostWakeup
    /\ connected => wsi = "open"

LEMMA WakeStep ==
    ASSUME TypeOK, WakeInv, [Next]_vars
    PROVE  WakeInv'
<1> USE DEF WakeInv, NoLostWakeup, stop_requested
<1>1. CASE OnCancelled
    BY <1>1 DEF OnCancelled, connVars
<1>2. CASE OnWriteable
  <2>1. wsi' = wsi
    BY <1>2 DEF OnWriteable, connVars
  <2>2. CASE queue = <<>>
    BY <1>2, <2>1, <2>2 DEF OnWriteable, connVars
  <2>3. CASE queue # <<>>
    <3>1. queue \in Seq(Pkt) /\ queue' = Tail(queue) /\ writable' = More
      BY <1>2, <2>3 DEF OnWriteable, TypeOK, Pkt
    <3>2. /\ Len(queue) \in Nat \ {0} /\ Len(queue') = Len(queue) - 1
          /\ queue' \in Seq(Pkt)
      BY <2>3, <3>1, TailFacts
    <3>3. queue' # <<>> => Len(queue) > 1
      BY <3>2, EmptyFacts
    <3>4. queue' # <<>> => writable'
      BY <3>1, <3>3 DEF More
    <3>5. QED
      BY <1>2, <2>1, <3>4 DEF OnWriteable, connVars
  <2>4. QED
    BY <2>2, <2>3
<1>3. CASE SendHello \/ SendTrackList
    BY <1>3 DEF SendHello, SendTrackList, connVars
<1>4. CASE LoopOn \/ LoopExit
    BY <1>4 DEF LoopOn, LoopExit, connVars
<1>5. CASE TryConnect
    BY <1>5 DEF TryConnect
<1>6. CASE OnEstablished
    BY <1>6 DEF OnEstablished, Cleared
<1>7. CASE OnClosed \/ OnWriteFailed \/ OnConnectionError
    BY <1>7 DEF OnClosed, OnWriteFailed, OnConnectionError, MarkDisconnected
<1>8. CASE BackoffOver \/ Watchdog \/ WatchdogExit
    BY <1>8 DEF BackoffOver, Watchdog, WatchdogExit, connVars
<1>9. ASSUME NEW t \in Tracks, CapturePush(t) PROVE WakeInv'
  <2>1. cap'[t] = "pushed"
    BY <1>9 DEF CapturePush, TypeOK
  <2>2. QED
    BY <1>9, <2>1 DEF CapturePush, connVars
<1>10. ASSUME NEW t \in Tracks, CaptureWake(t) PROVE WakeInv'
    BY <1>10 DEF CaptureWake, connVars
<1>11. ASSUME NEW t \in Tracks, StopCapture(t) PROVE WakeInv'
  <2>1. \A u \in Tracks : cap[u] = "pushed" => cap'[u] = "pushed"
    BY <1>11 DEF StopCapture, TypeOK
  <2>2. QED
    BY <1>11, <2>1 DEF StopCapture, connVars
<1>12. CASE Stop
    BY <1>12 DEF Stop, connVars
<1>13. CASE Stopped
    BY <1>13 DEF Stopped
<1>14. CASE UNCHANGED vars
    BY <1>14 DEF vars, connVars
<1>15. QED
    BY <1>1, <1>2, <1>3, <1>4, <1>5, <1>6, <1>7, <1>8, <1>9, <1>10, <1>11,
       <1>12, <1>13, <1>14 DEF Next, ServiceStep

\* However captures, callbacks and reconnects interleave, a packet queued on a
\* live connection has a wake-up or a writeable request on its way.
THEOREM NoLostWakeupHolds == Spec => []NoLostWakeup
<1>1. Init => WakeInv
    BY DEF Init, WakeInv, NoLostWakeup
<1>2. WakeInv => NoLostWakeup
    BY DEF WakeInv
<1>3. QED
    BY <1>1, <1>2, WakeStep, Typing, PTL DEF Spec

-----------------------------------------------------------------------------
(* The announcement of the session.                                        *)

Has(q, k) == \E i \in 1..Len(q) : q[i].kind = k

HelloFirst(q) ==
    \A i, j \in 1..Len(q) :
        q[i].kind = "HELLO" /\ q[j].kind = "TRACK_LIST" => i < j

\* Before HELLO, between HELLO and TRACK_LIST, and after both.
AnnInv ==
    connected /\ ~overflowed =>
        /\ svc \in {"hello", "tracks"} => announced = {}
        /\ svc = "hello" => ~Has(queue, "HELLO")
        /\ svc \in {"hello", "tracks"} => ~Has(queue, "TRACK_LIST")
        /\ svc # "hello" => Has(queue, "HELLO") \/ "HELLO" \in announced
        /\ svc \notin {"hello", "tracks"} =>
              /\ Has(queue, "TRACK_LIST") \/ "TRACK_LIST" \in announced
              /\ "TRACK_LIST" \in announced => "HELLO" \in announced
        /\ HelloFirst(queue)

\* Without an overflow Enqueue only adds at the end.
LEMMA PushAtEnd ==
    ASSUME TypeOK, NEW k \in Kinds, Len(queue) < kMaxQueue
    PROVE  /\ \A c : Has(Pushed(k), c) <=> Has(queue, c) \/ c = k
           /\ HelloFirst(queue) /\ (k = "HELLO" => ~Has(queue, "TRACK_LIST"))
                 => HelloFirst(Pushed(k))
<1> DEFINE x == [kind |-> k, epoch |-> epoch]
           q == Pushed(k)
           n == Len(queue)
<1>1. /\ queue \in Seq(Pkt) /\ n \in Nat /\ x \in Pkt /\ x.kind = k
      /\ kMaxQueue \in Nat
    BY NewPacket, AppendFacts, WsAssumption DEF TypeOK, Pkt
<1>2. q = Append(queue, x)
    BY <1>1 DEF Pushed
<1> HIDE DEF x, q
<1>3. /\ Len(q) = n + 1 /\ q[n + 1] = x
      /\ \A i \in 1..n : q[i] = queue[i]
    BY <1>1, <1>2, AppendFacts
<1>4. /\ \A i \in 1..n : i \in 1..Len(q) /\ q[i].kind = queue[i].kind
      /\ n + 1 \in 1..Len(q) /\ q[n + 1].kind = k
      /\ \A i \in 1..Len(q) : i \in 1..n \/ i = n + 1
      /\ \A i \in 1..n : i < n + 1
    BY <1>1, <1>3
<1> HIDE DEF n
<1>5. ASSUME NEW c PROVE Has(q, c) <=> Has(queue, c) \/ c = k
    BY <1>4 DEF Has, n
<1>6. ASSUME HelloFirst(queue), k = "HELLO" => ~Has(queue, "TRACK_LIST")
      PROVE  HelloFirst(q)
  <2> SUFFICES ASSUME NEW i \in 1..Len(q), NEW j \in 1..Len(q),
                      q[i].kind = "HELLO", q[j].kind = "TRACK_LIST"
               PROVE  i < j
    BY DEF HelloFirst
  <2>1. CASE i \in 1..n /\ j \in 1..n
    BY <1>4, <1>6, <2>1 DEF HelloFirst, n
  <2>2. CASE i = n + 1
    <3>1. k = "HELLO" /\ j \in 1..n
      BY <1>4, <2>2
    <3>2. QED
      BY <1>4, <1>6, <3>1 DEF Has, n
  <2>3. CASE i \in 1..n /\ j = n + 1
    BY <1>4, <2>3
  <2>4. QED
    BY <1>4, <2>1, <2>2, <2>3
<1>7. QED
    BY <1>5, <1>6 DEF q

\* A pop takes the head; what is left keeps its order.
LEMMA PopHead ==
    ASSUME TypeOK, queue # <<>>
    PROVE  /\ Head(queue).kind \in Kinds
           /\ \A c : Has(queue, c) <=> Has(Tail(queue), c) \/ c = Head(queue).kind
           /\ HelloFirst(queue) =>
                 /\ HelloFirst(Tail(queue))
                 /\ Head(queue).kind = "TRACK_LIST" => ~Has(queue, "HELLO")
<1> DEFINE q == Tail(queue)
           n == Len(queue)
<1>1. /\ queue \in Seq(Pkt) /\ n \in Nat \ {0} /\ Len(q) = n - 1
      /\ Head(queue) = queue[1] /\ Head(queue) \in Pkt
      /\ \A i \in 1..(n - 1) : q[i] = queue[i + 1]
    BY TailFacts DEF TypeOK, Pkt
<1> HIDE DEF q
<1>2. /\ 1 \in 1..n
      /\ \A i \in 1..Len(q) : i + 1 \in 1..n /\ q[i] = queue[i + 1]
      /\ \A i \in 1..n : i = 1 \/ (i - 1 \in 1..Len(q) /\ q[i - 1] = queue[i])
      /\ \A i, j \in 1..Len(q) : i + 1 < j + 1 => i < j
      /\ \A i \in 1..n : ~(i < 1)
    BY <1>1
<1>3. Head(queue).kind \in Kinds
    BY <1>1 DEF Pkt
<1> HIDE DEF n
<1>4. ASSUME NEW c PROVE Has(queue, c) <=> Has(q, c) \/ c = Head(queue).kind
    BY <1>1, <1>2 DEF Has, n
<1>5. ASSUME HelloFirst(queue) PROVE HelloFirst(q)
    BY <1>2, <1>5 DEF HelloFirst, n
<1>6. ASSUME HelloFirst(queue), Head(queue).kind = "TRACK_LIST"
      PROVE  ~Has(queue, "HELLO")
    BY <1>1, <1>2, <1>6 DEF HelloFirst, Has, n
<1>7. QED
    BY <1>3, <1>4, <1>5, <1>6 DEF q

LEMMA AnnStep ==
    ASSUME TypeOK, AnnInv, [Next]_vars
    PROVE  AnnInv'
<1>0. /\ "HELLO" \in Kinds /\ "TRACK_LIST" \in Kinds
      /\ "HELLO" \notin Tracks /\ "TRACK_LIST" \notin Tracks
      /\ \A t \in Tracks : t \in Kinds /\ t # "HELLO" /\ t # "TRACK_LIST"
      /\ Len(queue) \in Nat /\ kMaxQueue \in Nat
    BY WsAssumption DEF Kinds, TypeOK
<1>1. ASSUME NoteOverflow, ~overflowed'
      PROVE  Len(queue) < kMaxQueue /\ ~overflowed /\ announced' = announced
  <2>1. ~overflowed /\ ~(Len(queue) >= kMaxQueue) /\ announced' = announced
    BY <1>1, Zenon DEF NoteOverflow
  <2>2. QED
    BY <1>0, <2>1
<1>2. ASSUME UNCHANGED <<queue, announced, overflowed>>,
             connected' => connected,
             svc' = svc \/ (svc \in {"service", "body"} /\ svc' \notin {"hello", "tracks"})
      PROVE  AnnInv'
    BY <1>2 DEF AnnInv
<1>3. CASE OnCancelled \/ LoopOn \/ LoopExit \/ TryConnect \/ BackoffOver
             \/ Watchdog \/ WatchdogExit \/ Stop \/ Stopped \/ UNCHANGED vars
    BY <1>2, <1>3
    DEF OnCancelled, LoopOn, LoopExit, TryConnect, BackoffOver, Watchdog,
        WatchdogExit, Stop, Stopped, vars, connVars, histVars
<1>4. ASSUME NEW t \in Tracks, CaptureWake(t) \/ StopCapture(t) PROVE AnnInv'
    BY <1>2, <1>4 DEF CaptureWake, StopCapture, connVars, histVars
<1>5. CASE OnClosed \/ OnWriteFailed \/ OnConnectionError
    BY <1>5 DEF OnClosed, OnWriteFailed, OnConnectionError, MarkDisconnected,
                AnnInv
<1>6. CASE OnEstablished
    BY <1>6, EmptyFacts DEF OnEstablished, Cleared, AnnInv, Has, HelloFirst
<1>7. ASSUME NEW t \in Tracks, CapturePush(t), connected', ~overflowed'
      PROVE  AnnInv'
  <2>1. /\ Len(queue) < kMaxQueue /\ ~overflowed /\ announced' = announced
        /\ queue' = Pushed(t) /\ svc' = svc /\ connected
    BY <1>1, <1>7 DEF CapturePush, connVars
  <2>2. /\ Has(queue', "HELLO") <=> Has(queue, "HELLO")
        /\ Has(queue', "TRACK_LIST") <=> Has(queue, "TRACK_LIST")
        /\ HelloFirst(queue) => HelloFirst(queue')
    BY <1>0, <2>1, PushAtEnd
  <2>3. QED
    BY <2>1, <2>2 DEF AnnInv
<1>8. ASSUME SendHello, connected', ~overflowed' PROVE AnnInv'
  <2>1. /\ Len(queue) < kMaxQueue /\ ~overflowed /\ announced' = announced
        /\ queue' = Pushed("HELLO") /\ svc = "hello" /\ svc' = "tracks"
        /\ connected
    BY <1>1, <1>8 DEF SendHello, connVars
  <2>2. announced = {} /\ ~Has(queue, "TRACK_LIST") /\ HelloFirst(queue)
    BY <2>1 DEF AnnInv
  <2>3. /\ Has(queue', "HELLO") /\ ~Has(queue', "TRACK_LIST")
        /\ HelloFirst(queue')
    BY <1>0, <2>1, <2>2, PushAtEnd
  <2>4. QED
    BY <2>1, <2>2, <2>3 DEF AnnInv
<1>9. ASSUME SendTrackList, connected', ~overflowed' PROVE AnnInv'
  <2>1. /\ Len(queue) < kMaxQueue /\ ~overflowed /\ announced' = announced
        /\ queue' = Pushed("TRACK_LIST") /\ svc = "tracks" /\ svc' = "body"
        /\ connected
    BY <1>1, <1>9 DEF SendTrackList, connVars
  <2>2. announced = {} /\ Has(queue, "HELLO") /\ HelloFirst(queue)
    BY <2>1 DEF AnnInv
  <2>3. /\ Has(queue', "HELLO") /\ Has(queue', "TRACK_LIST")
        /\ HelloFirst(queue')
    BY <1>0, <2>1, <2>2, PushAtEnd
  <2>4. QED
    BY <2>1, <2>2, <2>3 DEF AnnInv
<1>10. ASSUME OnWriteable, connected', ~overflowed' PROVE AnnInv'
  <2>1. connected /\ ~overflowed /\ svc = "service" /\ svc' = "body"
    BY <1>10 DEF OnWriteable, connVars
  <2>2. CASE queue = <<>>
    <3>1. UNCHANGED <<queue, announced>>
      BY <1>10, <2>2 DEF OnWriteable
    <3>2. QED
      BY <2>1, <3>1 DEF AnnInv
  <2>3. CASE queue # <<>>
    <3>1. /\ queue' = Tail(queue)
          /\ announced' = announced \cup ({Head(queue).kind} \ Tracks)
      BY <1>10, <2>3 DEF OnWriteable
    <3>2. \A c \in {"HELLO", "TRACK_LIST"} :
              /\ Has(queue, c) => Has(queue', c) \/ c \in announced'
              /\ c \in announced => c \in announced'
              /\ c \in announced' => c \in announced \/ c = Head(queue).kind
      BY <1>0, <2>3, <3>1, PopHead
    <3>3. HelloFirst(queue')
      BY <2>1, <2>3, <3>1, PopHead DEF AnnInv
    <3>4. Head(queue).kind = "TRACK_LIST" => "HELLO" \in announced
      BY <2>1, <2>3, PopHead DEF AnnInv
    <3>5. QED
      BY <2>1, <3>2, <3>3, <3>4 DEF AnnInv
  <2>4. QED
    BY <2>2, <2>3
<1>11. ~(connected' /\ ~overflowed') => AnnInv'
    BY DEF AnnInv
<1>12. QED
    BY <1>3, <1>4, <1>5, <1>6, <1>7, <1>8, <1>9, <1>10, <1>11
    DEF Next, ServiceStep

\* Every (re)connect announces the session, HELLO before TRACK_LIST, unless
\* the queue overflows meanwhile; for any queue bound.
THEOREM SessionAnnouncedHolds == Spec => []SessionAnnounced
<1>1. Init => AnnInv
    BY DEF Init, AnnInv
<1>2. AnnInv => SessionAnnounced
    BY DEF AnnInv, SessionAnnounced, Has, HelloFirst
<1>3. QED
    BY <1>1, <1>2, AnnStep, Typing, PTL DEF Spec
=============================================================================
