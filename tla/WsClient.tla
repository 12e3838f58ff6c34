------------------------------ MODULE WsClient ------------------------------
(***************************************************************************)
(* The publisher's connection to the relay: publisher/src/ws_client.cpp,   *)
(* with the OnConnected callback, the capture callbacks and the shutdown   *)
(* of publisher/src/main.cpp.  Threads: the service thread, which runs the *)
(* libwebsockets callbacks and the reconnect loop; the watchdog; one       *)
(* capture thread per track; main.                                         *)
(*                                                                         *)
(* libwebsockets is external: lws_service sleeps until there is an event   *)
(* (a cancel, the end of a handshake, a writable socket with a request     *)
(* pending, a close) and handles it by a callback.  An audio packet is its *)
(* track and the connection it was made for, counted modulo 2.             *)
(***************************************************************************)
EXTENDS Integers, Sequences

CONSTANTS
    Tracks,     \* captured tracks
    kMaxQueue,  \* 256
    kBackoffs   \* number of backoff delays, 5

ASSUME WsAssumption ==
    /\ kMaxQueue \in Nat \ {0}
    /\ kBackoffs \in Nat \ {0}
    /\ {"HELLO", "TRACK_LIST"} \cap Tracks = {}

VARIABLES
    queue,       \* queue_, guarded by queue_mu_
    connected,   \* connected_
    connecting,  \* connecting_
    wsi,         \* impl_->wsi: "null", "handshake", "open"
    svc,         \* service thread: "service", "body", "hello", "tracks", "exit"
    attempt,     \* backoff position, saturated at kBackoffs
    due,         \* now >= next_attempt
    wake,        \* an lws_cancel_service is pending
    writable,    \* a writeable callback has been requested
    cap,         \* capture thread: "idle", "pushed", "stopped"
    dog,         \* the watchdog thread is running
    main,        \* main thread: "run", "stop", "done"
    epoch,       \* history: parity of the number of connections so far
    announced,   \* history: the control packets sent on this connection
    overflowed   \* history: Enqueue has found a full queue on this connection

connVars == <<connected, connecting, wsi>>
histVars == <<epoch, announced, overflowed>>
vars == <<queue, connVars, svc, attempt, due, wake, writable, cap, dog, main,
          histVars>>

stop_requested == main # "run"

Kinds == Tracks \cup {"HELLO", "TRACK_LIST"}

\* Names ending in M are plausible mistakes in the definition that follows;
\* no action uses them.

\* Start has run: lws_client_connect_via_info may have failed at once.
Init ==
    /\ queue = <<>>
    /\ connected = FALSE
    /\ wsi \in {"null", "handshake"}
    /\ connecting = (wsi = "handshake")
    /\ svc = "service"
    /\ attempt = 0 /\ due = TRUE
    /\ wake = FALSE /\ writable = FALSE
    /\ cap = [t \in Tracks |-> "idle"]
    /\ dog = TRUE
    /\ main = "run"
    /\ epoch = 0 /\ announced = {} /\ overflowed = FALSE

-----------------------------------------------------------------------------
(* The outbound queue.                                                     *)

\* Enqueue, inside the lock: at kMaxQueue the oldest packet is dropped.
PushedEarlyM(k) ==
    Append(IF Len(queue) >= kMaxQueue - 1 THEN Tail(queue) ELSE queue,
           [kind |-> k, epoch |-> epoch])
Pushed(k) ==
    Append(IF Len(queue) >= kMaxQueue THEN Tail(queue) ELSE queue,
           [kind |-> k, epoch |-> epoch])

\* History of every Enqueue.
NoteOverflow ==
    /\ overflowed' = (overflowed \/ Len(queue) >= kMaxQueue)
    /\ UNCHANGED <<epoch, announced>>

\* A capture thread has a full encoded frame: Enqueue up to the unlock.
CapturePush(t) ==
    /\ cap[t] = "idle"
    /\ queue' = Pushed(t)
    /\ cap' = [cap EXCEPT ![t] = "pushed"]
    /\ NoteOverflow
    /\ UNCHANGED <<connVars, svc, attempt, due, wake, writable, dog, main>>

\* The rest of Enqueue: lws_cancel_service.
CaptureWake(t) ==
    /\ cap[t] = "pushed"
    /\ wake' = TRUE
    /\ cap' = [cap EXCEPT ![t] = "idle"]
    /\ UNCHANGED <<queue, connVars, svc, attempt, due, writable, dog, main,
                   histVars>>

-----------------------------------------------------------------------------
(* The service thread inside lws_service: one callback, then the loop body.*)

\* EVENT_WAIT_CANCELLED asks for a writeable callback if there is a wsi.
OnCancelled ==
    /\ svc = "service"
    /\ wake
    /\ wake' = FALSE
    /\ writable' = (writable \/ wsi # "null")
    /\ svc' = "body"
    /\ UNCHANGED <<queue, connVars, attempt, due, cap, dog, main, histVars>>

\* OnEstablished up to the call of on_connected_: flags, then the clear.
ClearedM == queue
Cleared == <<>>
OnEstablished ==
    /\ svc = "service"
    /\ wsi = "handshake"
    /\ wsi' = "open"
    /\ connected' = TRUE /\ connecting' = FALSE
    /\ queue' = Cleared
    /\ epoch' = 1 - epoch /\ announced' = {} /\ overflowed' = FALSE
    /\ svc' = "hello"
    /\ UNCHANGED <<attempt, due, wake, writable, cap, dog, main>>

\* on_connected_ enqueues HELLO, with its wake-up.
SendHello ==
    /\ svc = "hello"
    /\ queue' = Pushed("HELLO")
    /\ wake' = TRUE
    /\ svc' = "tracks"
    /\ NoteOverflow
    /\ UNCHANGED <<connVars, attempt, due, writable, cap, dog, main>>

\* on_connected_ enqueues TRACK_LIST; the callback asks for a writeable one.
SendTrackList ==
    /\ svc = "tracks"
    /\ queue' = Pushed("TRACK_LIST")
    /\ wake' = TRUE
    /\ writable' = TRUE
    /\ svc' = "body"
    /\ NoteOverflow
    /\ UNCHANGED <<connVars, attempt, due, cap, dog, main>>

\* CLIENT_WRITEABLE: pop one packet, send it, ask again if there are more.
MoreM == FALSE
More == Len(queue) > 1
OnWriteable ==
    /\ svc = "service"
    /\ wsi = "open" /\ writable
    /\ IF queue = <<>>
       THEN writable' = FALSE /\ UNCHANGED <<queue, announced>>
       ELSE LET k == Head(queue).kind IN
            /\ queue' = Tail(queue)
            /\ writable' = More
            /\ announced' = announced \cup ({k} \ Tracks)
    /\ svc' = "body"
    /\ UNCHANGED <<connVars, attempt, due, wake, cap, dog, main, epoch, overflowed>>

MarkDisconnected ==
    /\ wsi' = "null"
    /\ connecting' = FALSE
    /\ connected' = FALSE
    /\ writable' = FALSE
    /\ svc' = "body"

\* CLIENT_CLOSED: the relay or the network closes the connection.
OnClosed ==
    /\ svc = "service"
    /\ wsi = "open"
    /\ MarkDisconnected
    /\ UNCHANGED <<queue, attempt, due, wake, cap, dog, main, histVars>>

\* CLIENT_WRITEABLE when lws_write fails: the popped packet is lost and the
\* callback's -1 makes libwebsockets close the connection.
OnWriteFailed ==
    /\ svc = "service"
    /\ wsi = "open" /\ writable
    /\ queue # <<>>
    /\ queue' = Tail(queue)
    /\ MarkDisconnected
    /\ UNCHANGED <<attempt, due, wake, cap, dog, main, histVars>>

\* CLIENT_CONNECTION_ERROR: the handshake fails.
OnConnectionError ==
    /\ svc = "service"
    /\ wsi = "handshake"
    /\ MarkDisconnected
    /\ UNCHANGED <<queue, attempt, due, wake, cap, dog, main, histVars>>

-----------------------------------------------------------------------------
(* The service thread's loop after lws_service.                            *)

\* Nothing to do but to call lws_service again.
LoopOn ==
    /\ svc = "body"
    /\ ~stop_requested
    /\ connected \/ connecting \/ ~due
    /\ attempt' = IF connected THEN 0 ELSE attempt
    /\ svc' = "service"
    /\ UNCHANGED <<queue, connVars, due, wake, writable, cap, dog, main,
                   histVars>>

\* TryConnect, which may fail at once, and the next backoff delay.
TryConnect ==
    /\ svc = "body"
    /\ ~stop_requested
    /\ ~connected /\ ~connecting /\ due
    /\ \E w \in {"null", "handshake"} : wsi' = w /\ connecting' = (w # "null")
    /\ due' = FALSE
    /\ attempt' = IF attempt < kBackoffs THEN attempt + 1 ELSE attempt
    /\ svc' = "service"
    /\ UNCHANGED <<queue, connected, wake, writable, cap, dog, main, histVars>>

LoopExit ==
    /\ svc = "body"
    /\ stop_requested
    /\ svc' = "exit"
    /\ UNCHANGED <<queue, connVars, attempt, due, wake, writable, cap, dog,
                   main, histVars>>

\* The backoff delay is over.
BackoffOver ==
    /\ ~due
    /\ due' = TRUE
    /\ UNCHANGED <<queue, connVars, svc, attempt, wake, writable, cap, dog,
                   main, histVars>>

-----------------------------------------------------------------------------
(* Watchdog and main.                                                      *)

\* Every 200 ms, while not connected, the watchdog wakes the service thread.
PokesM == connecting
Pokes == ~connected
Watchdog ==
    /\ dog
    /\ Pokes
    /\ wake' = TRUE
    /\ UNCHANGED <<queue, connVars, svc, attempt, due, writable, cap, dog,
                   main, histVars>>

WatchdogExit ==
    /\ dog
    /\ stop_requested
    /\ dog' = FALSE
    /\ UNCHANGED <<queue, connVars, svc, attempt, due, wake, writable, cap,
                   main, histVars>>

\* Shutdown: main stops a capture and joins its thread.
StopCapture(t) ==
    /\ main = "run"
    /\ cap[t] = "idle"
    /\ cap' = [cap EXCEPT ![t] = "stopped"]
    /\ UNCHANGED <<queue, connVars, svc, attempt, due, wake, writable, dog,
                   main, histVars>>

\* WebSocketClient::Stop: request the stop, unblock the service thread.
StopWakesM == wake
StopWakes == TRUE
Stop ==
    /\ main = "run"
    /\ \A t \in Tracks : cap[t] = "stopped"
    /\ main' = "stop"
    /\ wake' = StopWakes
    /\ UNCHANGED <<queue, connVars, svc, attempt, due, writable, cap, dog,
                   histVars>>

\* Both threads joined: the context is destroyed.
Stopped ==
    /\ main = "stop"
    /\ ~dog /\ svc = "exit"
    /\ main' = "done"
    /\ connected' = FALSE
    /\ UNCHANGED <<queue, connecting, wsi, svc, attempt, due, wake, writable,
                   cap, dog, histVars>>

ServiceStep ==
    \/ OnCancelled \/ OnWriteable \/ SendHello \/ SendTrackList
    \/ LoopOn \/ TryConnect \/ LoopExit

Next ==
    \/ ServiceStep \/ OnEstablished \/ OnClosed \/ OnWriteFailed
    \/ OnConnectionError \/ BackoffOver
    \/ \E t \in Tracks : CapturePush(t) \/ CaptureWake(t) \/ StopCapture(t)
    \/ Watchdog \/ WatchdogExit \/ Stop \/ Stopped

Spec == Init /\ [][Next]_vars

\* Threads run, timers expire, and a relay that is tried again and again is
\* reached in the end.  Nothing makes the connection close, tracks produce
\* audio or main shut down.
Fairness ==
    /\ WF_vars(ServiceStep) /\ WF_vars(BackoffOver)
    /\ WF_vars(OnEstablished \/ OnConnectionError)
    /\ SF_vars(TryConnect /\ wsi' = "handshake")
    /\ SF_vars(OnEstablished) /\ SF_vars(OnCancelled)
    /\ \A t \in Tracks : WF_vars(CaptureWake(t))
    /\ WF_vars(Watchdog) /\ WF_vars(WatchdogExit) /\ WF_vars(Stopped)

LiveSpec == Spec /\ Fairness

-----------------------------------------------------------------------------
(* Properties.                                                             *)

\* Types, and the queue's bound kMaxQueue.
TypeOK ==
    /\ queue \in Seq([kind : Kinds, epoch : {0, 1}])
    /\ Len(queue) <= kMaxQueue
    /\ connected \in BOOLEAN /\ connecting \in BOOLEAN
    /\ wsi \in {"null", "handshake", "open"}
    /\ svc \in {"service", "body", "hello", "tracks", "exit"}
    /\ attempt \in 0..kBackoffs
    /\ due \in BOOLEAN /\ wake \in BOOLEAN /\ writable \in BOOLEAN
    /\ cap \in [Tracks -> {"idle", "pushed", "stopped"}]
    /\ dog \in BOOLEAN
    /\ main \in {"run", "stop", "done"}
    /\ epoch \in {0, 1}
    /\ announced \subseteq {"HELLO", "TRACK_LIST"}
    /\ overflowed \in BOOLEAN

\* "Stale audio from the outage is dropped rather than delivered late": what
\* a live connection can still send was enqueued for that connection.
NoStaleAudio ==
    /\ TypeOK
    /\ connected => \A i \in 1..Len(queue) : queue[i].epoch = epoch

\* No lost wake-up: while connected, a packet waiting in the queue has a
\* writeable request or a cancel on its way, or its Enqueue is about to send
\* one; so audio never stalls on a healthy connection.
NoLostWakeup ==
    connected /\ queue # <<>> /\ ~stop_requested =>
        \/ wake \/ writable
        \/ svc \in {"hello", "tracks"}
        \/ \E t \in Tracks : cap[t] = "pushed"

\* "A silent source must reconnect too": a lost or refused connection is
\* made again, whether or not there is audio to wake the service thread.
Reconnects == ~connected /\ ~stop_requested ~> connected \/ stop_requested

\* Stop returns: both threads notice the request and are joined.
StopReturns == stop_requested ~> main = "done"

\* "The session must be re-announced on every (re)connect": once OnConnected
\* has run, HELLO and TRACK_LIST have been sent or are queued, HELLO first;
\* only an overflow of the queue, which drops the oldest packet whatever it is,
\* can lose them.  (They need not lead: a capture thread may push audio between
\* the clear and HELLO.)
SessionAnnounced ==
    connected /\ svc \notin {"hello", "tracks"} /\ ~overflowed =>
        LET Left(k) == {i \in 1..Len(queue) : queue[i].kind = k} IN
        /\ "TRACK_LIST" \in announced => "HELLO" \in announced
        /\ \A k \in {"HELLO", "TRACK_LIST"} : k \in announced \/ Left(k) # {}
        /\ \A i \in Left("HELLO"), j \in Left("TRACK_LIST") : i < j
=============================================================================
