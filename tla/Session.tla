------------------------------ MODULE Session -------------------------------
(***************************************************************************)
(* A channel from end to end: a publisher announces its tracks when it     *)
(* connects and then sends audio; the relay copies each message to the     *)
(* queue of every connected subscriber and never keeps one back; a         *)
(* subscriber learns the meaning of track ids from the last TRACK_LIST it  *)
(* got.                                                                    *)
(*                                                                         *)
(* A publisher process is publisher/src/main.cpp or the mock publisher     *)
(* (tools/mock-publisher); a subscriber is a page with the extension       *)
(* (extension/src/content/index.ts) or the mock subscriber                 *)
(* (tools/mock-subscriber).  The connections are those of WsClient and     *)
(* Viewer, the hub is that of Channel: order is kept, a full queue drops   *)
(* its oldest message, the publisher's own queue too.  Sequence numbers    *)
(* and fingerprints' contents are left out.                                *)
(***************************************************************************)
EXTENDS TrackList, FiniteSetsExt

CONSTANTS
    Lists,      \* track lists a streamer may put on the command line
    Refused,    \* those that decodeTrackList refuses (a label, see Wire)
    MockTracks, \* TRACKS of the mock publisher
    Pages,      \* pages with the extension
    Tools,      \* mock subscribers
    SendBuf     \* subscriber_send_buffer

ASSUME SessionAssumption ==
    /\ \A l \in Lists \cup {MockTracks} :
        /\ l \in Seq([id : Nat, slug : STRING])
        /\ \A i, j \in 1..Len(l) : l[i].id = l[j].id => i = j
    /\ Refused \subseteq Lists
    /\ Pages \cap Tools = {}
    /\ SendBuf \in Nat \ {0}

VARIABLES
    pub,      \* publisher process: "off", "down", "hello", "list", "up";
              \*   "unlisted": connected, but its queue dropped the list
    mock,     \* it is the mock publisher
    list,     \* the tracks of the process
    joined,   \* subscribers that are connected
    queue,    \* subscriber.send of each
    idToSlug, \* wire id -> slug, as each subscriber knows it
    missed    \* history: an announcement that would have changed idToSlug
              \*   passed the subscriber by or was refused by it

pubVars == <<pub, mock, list>>
subVars == <<joined, idToSlug>>
vars == <<pubVars, subVars, queue, missed>>

Viewers == Pages \cup Tools

Hello == [type |-> "HELLO"]
TrackListMsg == [type |-> "TRACK_LIST", list |-> list]

\* Audio of track id; led: sent behind the announcement of its connection.
Audio(id) == [type |-> "AUDIO_OPUS", track |-> id,
              slug |-> indexTracks(<<>>, list)[id], led |-> pub = "up"]
Fingerprint(id) == [type |-> "FINGERPRINT", track |-> id]

IsList(m) == m.type = "TRACK_LIST"
Changes(v, m) == IsList(m) /\ indexTracks(<<>>, m.list) # idToSlug[v]

Init ==
    /\ pub = "off" /\ mock = FALSE /\ list = <<>>
    /\ joined = {}
    /\ queue = [v \in Viewers |-> <<>>]
    /\ idToSlug = [v \in Viewers |-> <<>>]
    /\ missed = [v \in Viewers |-> FALSE]

-----------------------------------------------------------------------------
(* The hub.                                                                *)

\* deliver: a full queue drops its oldest message.
\* (The mistake: the new message is dropped instead.)
DeliverM(q, m) == IF Len(q) >= SendBuf THEN q ELSE Append(q, m)
Deliver(q, m) == Append(IF Len(q) >= SendBuf THEN Tail(q) ELSE q, m)

\* Broadcast to the subscribers of this moment.
Broadcast(m) ==
    /\ queue' = [v \in Viewers |->
                    IF v \in joined THEN Deliver(queue[v], m) ELSE queue[v]]
    /\ missed' = [v \in Viewers |->
                    LET lost == IF v \notin joined THEN m
                                ELSE IF Len(queue[v]) >= SendBuf
                                THEN Head(queue[v]) ELSE Hello
                    IN IF IsList(lost) THEN Changes(v, lost) ELSE missed[v]]
    /\ UNCHANGED subVars

-----------------------------------------------------------------------------
(* The publisher's process.                                                *)

Launch(isMock, l) ==
    /\ pub = "off"
    /\ pub' = "down" /\ mock' = isMock /\ list' = l
    /\ UNCHANGED <<subVars, queue, missed>>

Connect ==
    /\ pub = "down"
    /\ pub' = "hello"
    /\ UNCHANGED <<mock, list, subVars, queue, missed>>

\* On every connection: HELLO, then TRACK_LIST.
SendHello ==
    /\ pub = "hello"
    /\ pub' = "list"
    /\ Broadcast(Hello)
    /\ UNCHANGED <<mock, list>>

SendTrackList ==
    /\ pub = "list"
    /\ pub' = "up"
    /\ Broadcast(TrackListMsg)
    /\ UNCHANGED <<mock, list>>

\* The capture threads have filled the publisher's own queue before the
\* announcement was sent: it drops the oldest message, HELLO or the list.
QueueOverflow ==
    /\ ~mock
    /\ pub \in {"hello", "list"}
    /\ pub' = IF pub = "hello" THEN "list" ELSE "unlisted"
    /\ UNCHANGED <<mock, list, subVars, queue, missed>>

\* The mock starts its timers behind the announcement.  The publisher's
\* capture threads enqueue at any time, and may get ahead of it.
AudioRuns == pub = "up" \/ (~mock /\ pub \in {"hello", "list", "unlisted"})
SendAudio(id) ==
    /\ AudioRuns
    /\ id \in TrackIds(list)
    /\ Broadcast(Audio(id))
    /\ UNCHANGED pubVars

\* Only the mock sends fingerprints.
SendFingerprint(id) ==
    /\ mock /\ pub = "up"
    /\ id \in TrackIds(list)
    /\ Broadcast(Fingerprint(id))
    /\ UNCHANGED pubVars

\* The connection closes: the publisher tries again, the mock exits.
ConnectionLost ==
    /\ pub \in {"hello", "list", "up", "unlisted"}
    /\ pub' = IF mock THEN "off" ELSE "down"
    /\ UNCHANGED <<mock, list, subVars, queue, missed>>

\* SIGINT.
Quit ==
    /\ pub # "off"
    /\ pub' = "off"
    /\ UNCHANGED <<mock, list, subVars, queue, missed>>

-----------------------------------------------------------------------------
(* The subscribers.                                                        *)

Join(v) ==
    /\ v \notin joined
    /\ joined' = joined \cup {v}
    /\ UNCHANGED <<pubVars, queue, idToSlug, missed>>

\* A message arrives.  HELLO and fingerprints are not for the page; audio goes
\* to the lane of idToSlug, if there is one, and changes nothing here.  A list
\* that decodeTrackList refuses is ignored, and the tracks stay as they were.
HandleMessage(v) ==
    LET m == Head(queue[v]) IN
    /\ v \in joined
    /\ queue[v] # <<>>
    /\ queue' = [queue EXCEPT ![v] = Tail(@)]
    /\ IF IsList(m) /\ m.list \notin Refused
       THEN /\ idToSlug' = [idToSlug EXCEPT ![v] = indexTracks(@, m.list)]
            /\ missed' = [missed EXCEPT ![v] = FALSE]
       ELSE /\ UNCHANGED idToSlug
            /\ missed' = [missed EXCEPT ![v] = IF IsList(m) THEN Changes(v, m) ELSE @]
    /\ UNCHANGED <<pubVars, joined>>

\* What is lost with the queue of v: its last list decides.
LostLists(v) == {i \in 1..Len(queue[v]) : IsList(queue[v][i])}

\* The connection closes.  The page keeps its tracks and joins again later; the
\* mock subscriber exits.
AfterClose(v) == IF v \in Tools THEN <<>> ELSE idToSlug[v]
Leave(v) ==
    /\ v \in joined
    /\ joined' = joined \ {v}
    /\ queue' = [queue EXCEPT ![v] = <<>>]
    /\ idToSlug' = [idToSlug EXCEPT ![v] = AfterClose(v)]
    /\ missed' = [missed EXCEPT ![v] =
                     IF v \in Tools THEN TRUE
                     ELSE IF LostLists(v) = {} THEN @
                     ELSE Changes(v, queue[v][Max(LostLists(v))])]
    /\ UNCHANGED pubVars

\* The page is left and mounts anew.
Remount(v) ==
    /\ v \in Pages
    /\ joined' = joined \ {v}
    /\ queue' = [queue EXCEPT ![v] = <<>>]
    /\ idToSlug' = [idToSlug EXCEPT ![v] = <<>>]
    /\ missed' = [missed EXCEPT ![v] = TRUE]
    /\ UNCHANGED pubVars

Next ==
    \/ \E l \in Lists : Launch(FALSE, l)
    \/ Launch(TRUE, MockTracks)
    \/ Connect \/ SendHello \/ SendTrackList \/ QueueOverflow
    \/ ConnectionLost \/ Quit
    \/ \E id \in TrackIds(list) : SendAudio(id) \/ SendFingerprint(id)
    \/ \E v \in Viewers : Join(v) \/ HandleMessage(v) \/ Leave(v)
    \/ \E v \in Pages : Remount(v)

Spec == Init /\ [][Next]_vars

\* The announcement is sent or dropped, and what is queued is handled.
Fairness ==
    /\ WF_vars(SendHello) /\ WF_vars(SendTrackList)
    /\ \A v \in Viewers : WF_vars(HandleMessage(v))

LiveSpec == Spec /\ Fairness

-----------------------------------------------------------------------------
(* Properties.                                                             *)

Messages == [type : {"HELLO"}]
    \cup [type : {"TRACK_LIST"}, list : Lists \cup {MockTracks}]
    \cup [type : {"FINGERPRINT"}, track : Nat]
    \cup [type : {"AUDIO_OPUS"}, track : Nat, slug : STRING, led : BOOLEAN]

PubStates == {"off", "down", "hello", "list", "up", "unlisted"}

\* Types; a subscriber that is away has no queue.
TypeOK ==
    /\ pub \in PubStates /\ mock \in BOOLEAN
    /\ list \in Lists \cup {MockTracks, <<>>}
    /\ joined \subseteq Viewers
    /\ \A v \in Viewers : /\ Len(queue[v]) <= SendBuf
                          /\ \A i \in 1..Len(queue[v]) : queue[v][i] \in Messages
                          /\ v \notin joined => queue[v] = <<>>
    /\ \A v \in Viewers : idToSlug[v] \in
        {<<>>} \cup {indexTracks(<<>>, l) : l \in Lists \cup {MockTracks}}
    /\ missed \in [Viewers -> BOOLEAN]

\* Audio is played in the lane of the track it was captured from.  Ids change
\* their meaning when another process publishes, and messages of several
\* processes are queued together; yet a subscriber plays a frame in another
\* track's lane only if an announcement passed it by (it was away, or its queue
\* overflowed) or was refused by it, or if the frame was not sent behind the
\* announcement of its connection (it got ahead, or the publisher's own queue
\* dropped the list).
RoutedRight ==
    /\ TypeOK
    /\ \A v \in Viewers :
        queue[v] # <<>> /\ Head(queue[v]).type = "AUDIO_OPUS" /\ ~missed[v] =>
            LET m == Head(queue[v]) IN
            m.led => /\ m.track \in DOMAIN idToSlug[v]
                     /\ idToSlug[v][m.track] = m.slug

\* A subscriber that missed and refused no announcement and has read its queue
\* knows the tracks of a publisher that has sent its list.
CaughtUp ==
    \A v \in joined :
        pub = "up" /\ queue[v] = <<>> /\ ~missed[v] =>
            idToSlug[v] = indexTracks(<<>>, list)

\* A publisher that reconnects tells everybody its tracks again, those too who
\* had joined too late: an announcement in a queue reaches its subscriber,
\* unless the queue overflows, one of the connections is lost, or the subscriber
\* refuses the list.
Relisted == \A v \in Viewers :
    (pub = "up" /\ LostLists(v) # {}) ~>
        \/ idToSlug[v] = indexTracks(<<>>, list)
        \/ pub # "up" \/ v \notin joined
        \/ (missed[v] /\ LostLists(v) = {})

\* "Channel list is empty: the streamer isn't running the publisher" or uses
\* another relay (VIEWER_SETUP.md): with a publisher up on this relay, a page
\* that stays connected, and whose queue never fills, gets a list.
ListShown == \A v \in Pages :
    (pub = "up" /\ v \in joined) ~>
        \/ idToSlug[v] # <<>>
        \/ pub # "up" \/ v \notin joined \/ Len(queue[v]) = SendBuf
=============================================================================
