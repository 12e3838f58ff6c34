------------------------------ MODULE Playback ------------------------------
(***************************************************************************)
(* One audio lane of the mixer: the Opus decoder (extension/src/audio/     *)
(* decoder.ts) and the playback scheduler (audio/scheduler.ts), with the   *)
(* creation and the closing of a lane in content/index.ts.  The publisher  *)
(* process numbers the packets of each track (main.cpp).                   *)
(*                                                                         *)
(* External: WebCodecs decodes what it is given in order, later, and on an *)
(* error closes the decoder for good; the AudioContext's clock stands      *)
(* still while the context is suspended, as it is until the viewer clicks. *)
(* Time is counted in ticks, timestamps in frames.                         *)
(***************************************************************************)
EXTENDS Integers, Sequences, FiniteSetsExt

CONSTANTS
    Tracks,      \* tracks with the slug of this lane: one, unless slugs collide
    Frame,       \* FRAME_DURATION in ticks
    MaxSeq,      \* bound on sequence numbers
    MaxPackets,  \* bound on packets received
    MaxTime      \* bound on the clock

ASSUME PlaybackAssumption ==
    /\ Frame \in Nat \ {0}
    /\ MaxSeq \in Nat \ {0} /\ MaxPackets \in Nat \ {0}
    /\ MaxTime \in Nat

VARIABLES
    now,        \* ctx.currentTime
    running,    \* ctx.state = "running"
    lane,       \* "open", "closed"
    decoder,    \* decoder.state: "configured", "closed"
    baseSeq,    \* baseSeq, 0 for null
    lastSeq,    \* lastSeq, 0 for null
    pending,    \* chunks the decoder works on
    playCursor, \* playCursor
    live,       \* liveSources, in order of creation
    sent,       \* seq of each track in the publisher's process
    received    \* history: packets received

clockVars == <<now, running>>
decVars == <<decoder, baseSeq, lastSeq, pending>>
laneVars == <<clockVars, lane, decVars, playCursor, live, received, sent>>

\* Names ending in M are plausible mistakes in the definition that follows;
\* no action uses them.

\* ensureLane has just made the lane.
LaneInit ==
    /\ now = 0 /\ running \in BOOLEAN
    /\ lane = "open" /\ decoder = "configured"
    /\ baseSeq = 0 /\ lastSeq = 0 /\ pending = <<>>
    /\ playCursor = 0 /\ live = <<>>
    /\ received = 0
    /\ sent = [t \in Tracks |-> 0]

-----------------------------------------------------------------------------
(* The publisher.                                                          *)

\* A packet is numbered and does not reach the lane: no connection, a full
\* queue, a viewer who is away.
Lost(t) ==
    /\ sent[t] < MaxSeq
    /\ sent' = [sent EXCEPT ![t] = @ + 1]
    /\ UNCHANGED <<clockVars, lane, decVars, playCursor, live, received>>

\* The publisher is started again: numbers begin anew.  The page keeps a lane
\* whose slug is announced again.
Restart ==
    /\ sent' = [t \in Tracks |-> 0]
    /\ UNCHANGED <<clockVars, lane, decVars, playCursor, live, received>>

-----------------------------------------------------------------------------
(* The decoder.                                                            *)

\* The base moves when sequence numbers start again.
Rebases(seq) == lastSeq # 0 /\ seq < lastSeq

\* decode(packet, seq): the timestamp is taken before the base is moved, and
\* decoder.decode throws once the decoder is closed.
Decode(t) ==
    LET seq == sent[t] + 1
        base == IF baseSeq = 0 THEN seq ELSE baseSeq
    IN
    /\ lane = "open"
    /\ received < MaxPackets /\ sent[t] < MaxSeq
    /\ received' = received + 1
    /\ sent' = [sent EXCEPT ![t] = seq]
    /\ baseSeq' = IF Rebases(seq) THEN seq ELSE base
    /\ lastSeq' = seq
    /\ pending' = IF decoder = "configured"
                  THEN Append(pending, [timestamp |-> seq - base])
                  ELSE pending
    /\ UNCHANGED <<clockVars, lane, decoder, playCursor, live>>

\* The error callback: a warning only.  WebCodecs has closed the decoder.
DecodeError ==
    /\ pending # <<>>
    /\ decoder' = "closed"
    /\ pending' = <<>>
    /\ UNCHANGED <<clockVars, lane, baseSeq, lastSeq, playCursor, live,
                   received, sent>>

-----------------------------------------------------------------------------
(* The scheduler.                                                          *)

\* The cursor, moved to one frame from now if it has fallen behind that.
RebasedM == IF playCursor < now THEN now + Frame ELSE playCursor
RebasedTwiceM == IF playCursor < now + Frame THEN now + 2 * Frame ELSE playCursor
Rebased == IF playCursor < now + Frame THEN now + Frame ELSE playCursor

\* The decoder's output callback and enqueue.
Output ==
    /\ pending # <<>>
    /\ pending' = Tail(pending)
    /\ live' = Append(live, [start |-> Rebased, at |-> now])
    /\ playCursor' = Rebased + Frame
    /\ UNCHANGED <<clockVars, lane, decoder, baseSeq, lastSeq, received, sent>>

\* onended of a source that has been played.
OnEnded ==
    /\ live # <<>>
    /\ Head(live).start + Frame <= now
    /\ live' = Tail(live)
    /\ UNCHANGED <<clockVars, lane, decVars, playCursor, received, sent>>

-----------------------------------------------------------------------------
(* The lane and the clock.                                                 *)

\* The track left the list, or the mixer is destroyed: decoder.close drops
\* what is being decoded, scheduler.close stops every source.
DroppedM == pending
Dropped == <<>>
CloseLane ==
    /\ lane = "open"
    /\ lane' = "closed"
    /\ decoder' = "closed"
    /\ pending' = Dropped
    /\ live' = <<>>
    /\ UNCHANGED <<clockVars, baseSeq, lastSeq, playCursor, received, sent>>

\* A later track list has the slug again: ensureLane makes a new lane.
NewLane ==
    /\ lane = "closed"
    /\ lane' = "open" /\ decoder' = "configured"
    /\ baseSeq' = 0 /\ lastSeq' = 0
    /\ pending' = <<>> /\ live' = <<>>
    /\ playCursor' = 0
    /\ UNCHANGED <<clockVars, received, sent>>

Tick ==
    /\ running
    /\ now < MaxTime
    /\ now' = now + 1
    /\ UNCHANGED <<running, lane, decVars, playCursor, live, received, sent>>

\* resumeAudio on a click or a play event; the browser suspends the context.
ToggleContext ==
    /\ running' = ~running
    /\ UNCHANGED <<now, lane, decVars, playCursor, live, received, sent>>

LaneNext ==
    \/ \E t \in Tracks : Decode(t) \/ Lost(t)
    \/ Restart
    \/ DecodeError \/ Output \/ OnEnded
    \/ CloseLane \/ NewLane \/ Tick \/ ToggleContext

LaneSpec == LaneInit /\ [][LaneNext]_laneVars

-----------------------------------------------------------------------------
(* Properties.                                                             *)

\* Types.
LaneTypeOK ==
    /\ now \in 0..MaxTime /\ running \in BOOLEAN
    /\ lane \in {"open", "closed"} /\ decoder \in {"configured", "closed"}
    /\ baseSeq \in 0..MaxSeq /\ lastSeq \in 0..MaxSeq
    /\ sent \in [Tracks -> 0..MaxSeq]
    /\ pending \in Seq([timestamp : Int])
    /\ live \in Seq([start : Nat, at : 0..MaxTime])
    /\ playCursor \in Nat
    /\ received \in 0..MaxPackets

\* Frames are played one after the other, without overlap and without an
\* avoidable gap: each starts when the one before it ends, or one frame after
\* it was decoded if that is later, however arrivals, decoding and the clock
\* interleave.
Gapless == \A i \in 2..Len(live) :
    live[i].start = Max({live[i-1].start, live[i].at}) + Frame

\* A closed lane is silent: nothing that was being decoded is played after it.
ClosedIsSilent == lane = "closed" => live = <<>>

\* The lane is behind the clock by what is queued and the one-frame lead-in,
\* never more: delay from a burst is gone once its frames have been played.
LeadIsBacklog ==
    /\ LaneTypeOK
    /\ lane = "open" => playCursor <= now + Frame * (Len(live) + 1)
=============================================================================
