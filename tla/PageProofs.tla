----------------------------- MODULE PageProofs -----------------------------
(***************************************************************************)
(* Proofs about the viewer's page.  Viewer: for any set of pages, any      *)
(* channel names and any number of calls of mount.  Playback, one lane of  *)
(* it: for any frame length, any sequence numbers and any number of        *)
(* packets.                                                                *)
(***************************************************************************)
EXTENDS Viewer, Playback, TLAPS

(***************************************************************************)
(*                              The viewer.                                *)
(***************************************************************************)

States == {"none", "player", "prefs", "up", "gone", "failed"}
Sockets == {"null", "connecting", "open", "closing"}

-----------------------------------------------------------------------------
(* Types and single flight.                                                *)

\* A mixer whose mount is not done has no client yet, a destroyed one has a
\* closed client, and calls of mount are numbered in order, the active one too.
FlightInv ==
    /\ \A m \in Mounts :
        /\ mount[m] \notin {"up", "gone"} => ws[m] = "null" /\ timer[m] = 0
        /\ mount[m] = "gone" => closed[m]
        /\ calls < m => mount[m] = "none"
    /\ active <= calls
    /\ SingleFlight

LEMMA FlightInit == Init => FlightInv
<1> SUFFICES ASSUME Init PROVE FlightInv
    OBVIOUS
<1>0. MaxMounts \in Nat \ {0} /\ calls \in 0..1 /\ calls \in 0..MaxMounts
    BY ViewerAssumption DEF Init
<1>1. /\ mount \in [Mounts -> States] /\ closed \in [Mounts -> BOOLEAN]
      /\ ws \in [Mounts -> Sockets] /\ timer \in [Mounts -> 0..1]
    BY DEF Init, States, Sockets
<1>2. \A m \in Mounts : channel[m] \in {detectChannel(p) : p \in Pages} \cup {<<>>}
    BY DEF Init
<1>3. TypeOK
  <2>1. /\ href \in Pages /\ lastHref \in Pages
        /\ tapped \in BOOLEAN /\ raced \in BOOLEAN
    BY Zenon DEF Init
  <2>2. active \in 0..MaxMounts
    BY <1>0 DEF Init
  <2>3. QED
    BY <1>0, <1>1, <1>2, <2>1, <2>2, Zenon DEF TypeOK, States, Sockets
<1>4. active <= calls
    BY <1>0 DEF Init
<1>5. QED
    BY <1>0, <1>3, <1>4 DEF Init, FlightInv, SingleFlight, Mounts

LEMMA FlightStep ==
    ASSUME FlightInv, [Next]_vars
    PROVE  FlightInv'
<1>0. /\ TypeOK /\ MaxMounts \in Nat \ {0}
      /\ mount \in [Mounts -> States] /\ closed \in [Mounts -> BOOLEAN]
      /\ ws \in [Mounts -> Sockets] /\ timer \in [Mounts -> 0..1]
      /\ calls \in 0..MaxMounts /\ \A m \in Mounts : m \in Int
    BY ViewerAssumption DEF FlightInv, SingleFlight, TypeOK, States, Sockets, Mounts
<1>1. CASE Observe
  <2>1. calls' \in {calls, calls + 1} /\ calls' \in 0..MaxMounts
    BY <1>0, <1>1 DEF Observe
  <2>2. mount' \in [Mounts -> States]
    BY <1>0, <1>1 DEF Observe, States
  <2>3. ws' \in [Mounts -> Sockets]
    BY <1>0, <1>1 DEF Observe, Sockets
  <2>4. closed' \in [Mounts -> BOOLEAN]
    BY <1>1 DEF Observe
  <2>5. raced' \in BOOLEAN
    BY <1>1 DEF Observe
  <2>6. \A m \in Mounts : channel'[m] \in {detectChannel(p) : p \in Pages} \cup {<<>>}
    BY <1>0, <1>1 DEF Observe, TypeOK
  <2>7. TypeOK'
    BY <1>0, <1>1, <2>1, <2>2, <2>3, <2>4, <2>5, <2>6
    DEF Observe, TypeOK, States, Sockets
  <2>8. ASSUME NEW m \in Mounts
        PROVE  /\ mount'[m] \notin {"up", "gone"} => ws'[m] = "null" /\ timer'[m] = 0
               /\ mount'[m] = "gone" => closed'[m]
               /\ calls' < m => mount'[m] = "none"
               /\ ws'[m] # "null" => timer'[m] = 0
               /\ mount'[m] = "gone" => ws'[m] \in {"null", "closing"}
    <3>1. /\ timer'[m] = timer[m]
          /\ closed'[m] = (closed[m] \/ m \in Destroyed)
          /\ ws'[m] = IF m \in Destroyed /\ ws[m] # "null" THEN "closing" ELSE ws[m]
          /\ mount'[m] = IF m \in Destroyed THEN "gone"
                         ELSE IF m \in calls + 1 .. calls' THEN "player" ELSE mount[m]
      BY <1>1 DEF Observe
    <3>2. CASE m \in Destroyed
      <4>1. mount'[m] = "gone" /\ closed'[m]
        BY <3>1, <3>2, Zenon
      <4>2. ws'[m] \in {"null", "closing"} /\ (ws'[m] # "null" => ws[m] # "null")
        BY <3>1, <3>2, Zenon
      <4>3. ws'[m] # "null" => timer'[m] = 0
        BY <3>1, <4>2 DEF FlightInv, SingleFlight
      <4>4. calls' < m => mount'[m] = "none"
        <5>1. m <= calls
          BY <1>0, <3>2 DEF FlightInv, Destroyed
        <5>2. QED
          BY <1>0, <2>1, <5>1
      <4>5. QED
        BY <4>1, <4>2, <4>3, <4>4
    <3>3. CASE m \notin Destroyed /\ m \in calls + 1 .. calls'
      BY <1>0, <2>1, <3>1, <3>3 DEF FlightInv, SingleFlight
    <3>4. CASE m \notin Destroyed /\ m \notin calls + 1 .. calls'
      BY <1>0, <2>1, <3>1, <3>4 DEF FlightInv, SingleFlight
    <3>5. QED
      BY <3>2, <3>3, <3>4
  <2>9. QED
    <3>1. active' = 0 /\ active' <= calls'
      BY <1>0, <1>1, <2>1 DEF Observe
    <3>2. QED
      BY <2>7, <2>8, <3>1 DEF FlightInv, SingleFlight
<1>2. ASSUME UNCHANGED <<mount, channel, active, clientVars, raced, calls, lastHref>>,
             href' \in Pages, tapped' \in BOOLEAN
      PROVE  FlightInv'
  BY <1>2 DEF FlightInv, SingleFlight, TypeOK, clientVars
<1>3. ASSUME NEW m \in Mounts,
             PlayerFound(m) \/ PlayerTimeout(m) \/ PrefsLoaded(m) \/ OnOpen(m)
                \/ OnClose(m) \/ Timer(m)
      PROVE  FlightInv'
  <2>1. /\ UNCHANGED <<href, lastHref, calls, channel, closed, raced>>
        /\ tapped' \in BOOLEAN /\ active' \in 0..MaxMounts /\ active' <= calls
    <3>0. tapped \in BOOLEAN /\ active \in 0..MaxMounts /\ active <= calls
      BY DEF FlightInv, SingleFlight, TypeOK
    <3>1. UNCHANGED <<href, lastHref, calls, channel, closed, raced>>
      BY <1>3 DEF PlayerFound, PlayerTimeout, PrefsLoaded, OnOpen, OnClose, Timer,
          pageVars, clientVars
    <3>2. tapped' = tapped \/ tapped' = TRUE
      BY <1>3 DEF PlayerFound, PlayerTimeout, PrefsLoaded, OnOpen, OnClose, Timer,
          pageVars
    <3>3. active' = active \/ (active' = m /\ mount[m] = "prefs")
      BY <1>3 DEF PlayerFound, PlayerTimeout, PrefsLoaded, OnOpen, OnClose, Timer
    <3>4. mount[m] = "prefs" => m <= calls
      BY <1>0 DEF FlightInv
    <3>5. m \in 0..MaxMounts
      BY <1>0 DEF Mounts
    <3>6. tapped' \in BOOLEAN
      BY <3>0, <3>2, Zenon
    <3>7. active' \in 0..MaxMounts /\ active' <= calls
      BY <3>0, <3>3, <3>4, <3>5
    <3>8. QED
      BY <3>1, <3>6, <3>7
  <2>2. \A n \in Mounts : n # m => mount'[n] = mount[n] /\ ws'[n] = ws[n] /\ timer'[n] = timer[n]
    BY <1>0, <1>3 DEF PlayerFound, PlayerTimeout, PrefsLoaded, OnOpen, OnClose, Timer,
        pageVars, clientVars
  <2>3. mount' \in [Mounts -> States]
    BY <1>0, <1>3 DEF PlayerFound, PlayerTimeout, PrefsLoaded, OnOpen, OnClose, Timer, States
  <2>4. ws' \in [Mounts -> Sockets]
    BY <1>0, <1>3 DEF PlayerFound, PlayerTimeout, PrefsLoaded, OnOpen, OnClose, Timer,
        clientVars, Sockets
  <2>5. timer' \in [Mounts -> 0..1]
    <3>1. CASE timer' = timer
      BY <1>0, <3>1
    <3>2. CASE OnClose(m)
      <4>1. timer[m] = 0
        BY <3>2 DEF OnClose, FlightInv, SingleFlight
      <4>2. QED
        BY <1>0, <3>2, <4>1 DEF OnClose
    <3>3. CASE Timer(m)
      BY <1>0, <3>3 DEF Timer
    <3>4. QED
      BY <1>3, <3>1, <3>2, <3>3 DEF PlayerFound, PlayerTimeout, PrefsLoaded, OnOpen, clientVars
  <2>6. TypeOK'
    BY <1>0, <2>1, <2>3, <2>4, <2>5 DEF TypeOK, States, Sockets
  <2>7. /\ mount'[m] \notin {"up", "gone"} => ws'[m] = "null" /\ timer'[m] = 0
        /\ mount'[m] = "gone" => closed'[m]
        /\ calls' < m => mount'[m] = "none"
        /\ ws'[m] # "null" => timer'[m] = 0
        /\ mount'[m] = "gone" => ws'[m] \in {"null", "closing"}
    <3>0. /\ mount[m] \notin {"up", "gone"} => ws[m] = "null" /\ timer[m] = 0
          /\ mount[m] = "gone" => closed[m]
          /\ calls < m => mount[m] = "none"
          /\ ws[m] # "null" => timer[m] = 0
          /\ mount[m] = "gone" => ws[m] \in {"null", "closing"}
          /\ closed' = closed /\ calls' = calls
      BY <2>1 DEF FlightInv, SingleFlight
    <3>1. CASE PlayerFound(m)
      BY <1>0, <3>0, <3>1 DEF PlayerFound, clientVars
    <3>2. CASE PlayerTimeout(m)
      BY <1>0, <3>0, <3>2 DEF PlayerTimeout, clientVars
    <3>3. CASE PrefsLoaded(m)
      BY <1>0, <3>0, <3>3 DEF PrefsLoaded
    <3>4. CASE OnOpen(m)
      BY <1>0, <3>0, <3>4 DEF OnOpen
    <3>5. CASE OnClose(m)
      BY <1>0, <3>0, <3>5 DEF OnClose
    <3>6. CASE Timer(m)
      <4>1. timer[m] \in 0..1 /\ timer[m] > 0 /\ timer'[m] = timer[m] - 1
        BY <1>0, <3>6 DEF Timer
      <4>2. timer[m] # 0 /\ timer'[m] = 0
        BY <4>1
      <4>3. mount' = mount /\ ws'[m] = IF ~closed[m] THEN "connecting" ELSE ws[m]
        BY <1>0, <3>6 DEF Timer, Reopens
      <4>4. QED
        BY <3>0, <4>2, <4>3
    <3>7. QED
      BY <1>3, <3>1, <3>2, <3>3, <3>4, <3>5, <3>6
  <2>8. QED
    BY <2>1, <2>2, <2>6, <2>7 DEF FlightInv, SingleFlight
<1>4. CASE UNCHANGED vars \/ Rerender \/ \E p \in Pages : Navigate(p)
  <2>1. /\ UNCHANGED <<mount, channel, active, clientVars, raced, calls, lastHref>>
        /\ href' \in Pages /\ tapped' \in BOOLEAN
    BY <1>0, <1>4 DEF Rerender, Navigate, TypeOK, vars, pageVars
  <2>2. QED
    BY <1>2, <2>1
<1>5. QED
    BY <1>1, <1>3, <1>4 DEF Next

LEMMA FlightInvariant == Spec => []FlightInv
    BY FlightInit, FlightStep, PTL DEF Spec

\* A client never has two sockets or timers at work, and nothing under way when
\* a mixer is destroyed opens a socket afterwards, for any number of mounts.
THEOREM SingleFlightHolds == Spec => []SingleFlight
<1>1. FlightInv => SingleFlight
    BY DEF FlightInv
<1>2. QED
    BY <1>1, FlightInvariant, PTL

-----------------------------------------------------------------------------
(* Leaks.                                                                  *)

Busy(m) == mount[m] \in {"player", "prefs", "up"}

\* While no navigation has overlapped a mount, at most one call of mount is
\* under way or up, it is for the address the observer saw last, and a mixer
\* that is up is the active one.
AloneInv == ~raced =>
    /\ \A m, n \in Mounts : Busy(m) /\ Busy(n) => m = n
    /\ \A m \in Mounts : mount[m] = "up" => active = m
    /\ \A m \in Mounts : Busy(m) => /\ channel[m] = detectChannel(lastHref)
                                    /\ channel[m] # <<>>

\* Every channel that a page has is one the relay takes.
LEMMA DetectedIsValid ==
    ASSUME NEW p, detectChannel(p) # <<>>
    PROVE  ValidateChannelID(detectChannel(p))
<1> DEFINE c == p.path[1].lower
<1>1. DOMAIN Sites = {"twitch.tv", "kick.com"}
    BY DEF Sites
<1>2. \A h \in DOMAIN Sites : Sites[h] \in {Twitch, Kick}
    BY DEF Sites
<1>3. Twitch.platform = "twitch" /\ Kick.platform = "kick"
    BY DEF Twitch, Kick
<1>4. /\ p.host \in DOMAIN Sites /\ c \in ChannelNames
      /\ detectChannel(p) = <<Sites[p.host].platform, c>>
    BY DEF detectChannel
<1> HIDE DEF c
<1>5. Sites[p.host].platform \in {"twitch", "kick"}
    BY <1>2, <1>3, <1>4
<1>6. QED
    BY <1>4, <1>5 DEF ValidateChannelID

LEMMA AloneStep ==
    ASSUME FlightInv, AloneInv, [Next]_vars
    PROVE  AloneInv'
<1>0. /\ TypeOK /\ MaxMounts \in Nat \ {0} /\ raced \in BOOLEAN
      /\ mount \in [Mounts -> States] /\ calls \in 0..MaxMounts
      /\ \A m \in Mounts : m \in Int
    BY ViewerAssumption DEF FlightInv, SingleFlight, TypeOK, States, Mounts
<1>1. CASE Observe
  <2> SUFFICES ASSUME ~raced' PROVE AloneInv'
    BY DEF AloneInv
  <2>1. ~raced /\ Pending = {}
    BY <1>0, <1>1 DEF Observe
  <2>2. calls' = (IF detectChannel(href) # <<>> THEN calls + 1 ELSE calls) /\ lastHref' = href
    BY <1>1 DEF Observe
  <2>3. ASSUME NEW m \in Mounts, Busy(m)'
        PROVE  /\ m = calls + 1 /\ mount'[m] = "player"
               /\ channel'[m] = detectChannel(href) /\ detectChannel(href) # <<>>
    <3>1. /\ mount'[m] = IF m \in Destroyed THEN "gone"
                         ELSE IF m \in calls + 1 .. calls' THEN "player" ELSE mount[m]
          /\ channel'[m] = IF m \in calls + 1 .. calls' THEN detectChannel(href) ELSE channel[m]
      BY <1>1 DEF Observe
    <3>2. mount[m] # "player" /\ mount[m] # "prefs"
      BY <2>1 DEF Pending
    <3>3. mount[m] = "up" => m \in Destroyed
      BY <2>1 DEF AloneInv, Destroyed
    <3>4. m \in calls + 1 .. calls' /\ mount'[m] = "player"
      BY <2>3, <3>1, <3>2, <3>3 DEF Busy
    <3>5. m = calls + 1 /\ detectChannel(href) # <<>>
      BY <1>0, <2>2, <3>4
    <3>6. QED
      BY <3>1, <3>4, <3>5
  <2>4. QED
    BY <2>2, <2>3 DEF AloneInv, Busy
<1>2. ASSUME NEW m \in Mounts, PlayerFound(m) \/ PlayerTimeout(m) \/ PrefsLoaded(m)
      PROVE  AloneInv'
  <2>1. /\ UNCHANGED <<lastHref, channel, raced>>
        /\ Busy(m) /\ mount[m] # "up"
    BY <1>2 DEF PlayerFound, PlayerTimeout, PrefsLoaded, pageVars, Busy
  <2>2. \A n \in Mounts : n # m => mount'[n] = mount[n]
    BY <1>0, <1>2 DEF PlayerFound, PlayerTimeout, PrefsLoaded
  <2>3. mount'[m] = "up" => active' = m
    BY <1>0, <1>2 DEF PlayerFound, PlayerTimeout, PrefsLoaded
  <2>4. \A n \in Mounts : Busy(n)' => Busy(n)
    BY <2>1, <2>2 DEF Busy
  <2>5. ASSUME ~raced, NEW n \in Mounts, n # m PROVE mount'[n] # "up"
    BY <2>1, <2>2, <2>5 DEF AloneInv, Busy
  <2>6. QED
    BY <2>1, <2>3, <2>4, <2>5 DEF AloneInv
<1>3. CASE UNCHANGED <<mount, channel, active, raced, lastHref>>
    BY <1>3 DEF AloneInv, Busy
<1>4. QED
    BY <1>1, <1>2, <1>3
    DEF Next, Navigate, Rerender, OnOpen, OnClose, Timer, pageVars, vars

LEMMA AloneInvariant == Spec => []AloneInv
<1>1. Init => AloneInv
  <2> SUFFICES ASSUME Init PROVE AloneInv
    OBVIOUS
  <2>1. \A m \in Mounts : Busy(m) => m = 1 /\ calls = 1 /\ mount[m] = "player"
    BY ViewerAssumption DEF Init, Busy, Mounts
  <2>2. \A m \in Mounts : Busy(m) => channel[m] = detectChannel(lastHref) /\ channel[m] # <<>>
    BY <2>1 DEF Init
  <2>3. QED
    <3>1. \A m, n \in Mounts : Busy(m) /\ Busy(n) => m = n
      BY <2>1
    <3>2. \A m \in Mounts : mount[m] # "up"
      BY <2>1 DEF Busy
    <3>3. QED
      BY <2>2, <3>1, <3>2 DEF AloneInv
<1>2. QED
    BY <1>1, AloneStep, FlightInvariant, PTL DEF Spec

\* Unless the address changes during a mount, unmount leaves nothing behind, on
\* any site and after any sequence of navigations, and the relay takes every
\* channel that detectChannel finds.
THEOREM OnlyRacesLeakHolds == Spec => []OnlyRacesLeak
<1>1. AloneInv => OnlyRacesLeak
  <2> SUFFICES ASSUME AloneInv, ~raced, NEW m \in Mounts, mount[m] = "up"
               PROVE  /\ active = m
                      /\ href = lastHref => channel[m] = detectChannel(href)
                      /\ ValidateChannelID(channel[m])
    BY DEF OnlyRacesLeak
  <2>1. active = m /\ channel[m] = detectChannel(lastHref) /\ channel[m] # <<>>
    BY DEF AloneInv, Busy
  <2>2. QED
    BY <2>1, DetectedIsValid
<1>2. QED
    BY <1>1, AloneInvariant, PTL

(***************************************************************************)
(*                          The playback lane.                             *)
(***************************************************************************)

Chunk == [timestamp : Int]
Source == [start : Nat, at : 0..MaxTime]

-----------------------------------------------------------------------------
(* Sequences and the larger of two numbers.                                *)

LEMMA AppendSource ==
    ASSUME NEW q \in Seq(Source), NEW x \in Source
    PROVE  /\ Append(q, x) \in Seq(Source)
           /\ Len(q) \in Nat /\ Len(Append(q, x)) = Len(q) + 1
           /\ Append(q, x)[Len(q) + 1] = x
           /\ \A i \in 1..Len(q) : Append(q, x)[i] = q[i]
  OBVIOUS

LEMMA TailSource ==
    ASSUME NEW q \in Seq(Source), q # <<>>
    PROVE  /\ Tail(q) \in Seq(Source) /\ Len(q) \in Nat \ {0}
           /\ Len(Tail(q)) = Len(q) - 1 /\ Head(q) = q[1]
           /\ \A i \in 1..(Len(q) - 1) : Tail(q)[i] = q[i + 1]
  OBVIOUS

LEMMA ChunkQueues ==
    ASSUME NEW q \in Seq(Chunk)
    PROVE  /\ \A x \in Chunk : Append(q, x) \in Seq(Chunk)
           /\ q # <<>> => Tail(q) \in Seq(Chunk)
           /\ <<>> \in Seq(Chunk)
  OBVIOUS

LEMMA EmptyFacts ==
    /\ <<>> \in Seq(Source) /\ <<>> \in Seq(Chunk) /\ Len(<<>>) = 0
    /\ \A q \in Seq(Source) : q = <<>> <=> Len(q) = 0
  OBVIOUS

LEMMA MaxOfTwo ==
    ASSUME NEW a \in Int, NEW b \in Int
    PROVE  Max({a, b}) = IF a >= b THEN a ELSE b
<1>1. \E x \in {a, b} : \A y \in {a, b} : x >= y
    OBVIOUS
<1>2. /\ Max({a, b}) \in {a, b}
      /\ \A y \in {a, b} : Max({a, b}) >= y
    BY <1>1 DEF Max
<1>3. QED
    BY <1>2

-----------------------------------------------------------------------------
(* A closed lane.                                                          *)

ClosedInv == lane = "closed" => live = <<>> /\ pending = <<>>

LEMMA ClosedInvariant == LaneSpec => []ClosedInv
<1>1. LaneInit => ClosedInv
    BY DEF LaneInit, ClosedInv
<1>2. ClosedInv /\ [LaneNext]_laneVars => ClosedInv'
    BY DEF ClosedInv, LaneNext, Decode, Lost, Restart, DecodeError, Output, OnEnded, CloseLane,
           Dropped, NewLane, Tick, ToggleContext, decVars, laneVars
<1>3. QED
    BY <1>1, <1>2, PTL DEF LaneSpec

\* What is being decoded when a lane is closed is never played, however the
\* decoder's callbacks interleave with the close.
THEOREM ClosedIsSilentHolds == LaneSpec => []ClosedIsSilent
<1>1. ClosedInv => ClosedIsSilent
    BY DEF ClosedInv, ClosedIsSilent
<1>2. QED
    BY <1>1, ClosedInvariant, PTL

-----------------------------------------------------------------------------
(* The schedule.                                                           *)

\* Sequence numbers and timestamps, in the publisher, the decoder and its queue.
LEMMA NumberTypes ==
    ASSUME LaneTypeOK, [LaneNext]_laneVars
    PROVE  /\ pending' \in Seq(Chunk)
           /\ baseSeq' \in 0..MaxSeq /\ lastSeq' \in 0..MaxSeq
           /\ sent' \in [Tracks -> 0..MaxSeq]
<1>0. /\ MaxSeq \in Nat /\ pending \in Seq(Chunk)
      /\ baseSeq \in 0..MaxSeq /\ lastSeq \in 0..MaxSeq
      /\ sent \in [Tracks -> 0..MaxSeq]
    BY PlaybackAssumption DEF LaneTypeOK, Chunk
<1>1. ASSUME NEW t \in Tracks, Decode(t)
      PROVE  /\ pending' \in Seq(Chunk)
             /\ baseSeq' \in 0..MaxSeq /\ lastSeq' \in 0..MaxSeq
             /\ sent' \in [Tracks -> 0..MaxSeq]
  <2> DEFINE seq == sent[t] + 1
             base == IF baseSeq = 0 THEN seq ELSE baseSeq
             x == [timestamp |-> seq - base]
  <2>1. seq \in 0..MaxSeq /\ base \in 0..MaxSeq
    BY <1>0, <1>1 DEF Decode
  <2>2. /\ baseSeq' \in {seq, base} /\ lastSeq' = seq
        /\ sent' = [sent EXCEPT ![t] = seq]
        /\ pending' = Append(pending, x) \/ pending' = pending
    BY <1>1 DEF Decode
  <2> HIDE DEF seq, base
  <2>3. x \in Chunk
    BY <1>0, <2>1 DEF Chunk
  <2> HIDE DEF x
  <2>4. pending' \in Seq(Chunk)
    BY <1>0, <2>2, <2>3, ChunkQueues
  <2>5. QED
    BY <1>0, <2>1, <2>2, <2>4
<1>2. ASSUME NEW t \in Tracks, Lost(t)
      PROVE  /\ UNCHANGED <<pending, baseSeq, lastSeq>>
             /\ sent' \in [Tracks -> 0..MaxSeq]
  <2>1. sent[t] + 1 \in 0..MaxSeq /\ sent' = [sent EXCEPT ![t] = sent[t] + 1]
    BY <1>0, <1>2 DEF Lost
  <2>2. QED
    BY <1>0, <1>2, <2>1 DEF Lost, decVars
<1>3. CASE Restart \/ NewLane
  <2>1. 0 \in 0..MaxSeq /\ <<>> \in Seq(Chunk)
    BY <1>0
  <2>2. QED
    BY <1>0, <1>3, <2>1 DEF Restart, NewLane, decVars
<1>4. CASE DecodeError \/ Output \/ OnEnded \/ CloseLane \/ Tick \/ ToggleContext
           \/ UNCHANGED laneVars
  <2>1. UNCHANGED <<baseSeq, lastSeq, sent>>
    BY <1>4 DEF DecodeError, Output, OnEnded, CloseLane, Tick, ToggleContext,
        decVars, laneVars
  <2>2. \/ pending' = pending \/ pending' = <<>>
        \/ pending # <<>> /\ pending' = Tail(pending)
    BY <1>4 DEF DecodeError, Output, OnEnded, CloseLane, Dropped, Tick,
        ToggleContext, decVars, laneVars
  <2>3. pending' \in Seq(Chunk)
    BY <1>0, <2>2, ChunkQueues
  <2>4. QED
    BY <1>0, <2>1, <2>3
<1>5. QED
    BY <1>0, <1>1, <1>2, <1>3, <1>4 DEF LaneNext

LEMMA Typing == LaneSpec => []LaneTypeOK
<1>1. LaneInit => LaneTypeOK
  <2>1. LaneInit => pending \in Seq(Chunk) /\ live \in Seq(Source)
    BY EmptyFacts DEF LaneInit
  <2>2. QED
    BY <2>1, PlaybackAssumption DEF LaneInit, LaneTypeOK, Chunk, Source
<1>2. LaneTypeOK /\ [LaneNext]_laneVars => LaneTypeOK'
  <2> SUFFICES ASSUME LaneTypeOK, [LaneNext]_laneVars PROVE LaneTypeOK'
    OBVIOUS
  <2>0. /\ MaxSeq \in Nat /\ MaxTime \in Nat /\ MaxPackets \in Nat /\ Frame \in Nat
        /\ live \in Seq(Source) /\ now \in 0..MaxTime /\ now \in Nat
        /\ playCursor \in Nat
    BY PlaybackAssumption DEF LaneTypeOK, Source
  <2>1. /\ pending' \in Seq(Chunk)
        /\ baseSeq' \in 0..MaxSeq /\ lastSeq' \in 0..MaxSeq
        /\ sent' \in [Tracks -> 0..MaxSeq]
    BY <2>0, NumberTypes
  <2>2. /\ live' \in Seq(Source) /\ playCursor' \in Nat
    <3>1. CASE Output
      <4>1. Rebased \in Nat
        BY <2>0 DEF Rebased
      <4>2. [start |-> Rebased, at |-> now] \in Source
        BY <2>0, <4>1 DEF Source
      <4>3. QED
        BY <2>0, <3>1, <4>1, <4>2, AppendSource DEF Output
    <3>2. CASE live # <<>> /\ live' = Tail(live) /\ playCursor' = playCursor
      BY <2>0, <3>2, TailSource
    <3>3. CASE live' = <<>> /\ (playCursor' = playCursor \/ playCursor' = 0)
      BY <2>0, <3>3, EmptyFacts
    <3>4. CASE UNCHANGED <<live, playCursor>>
      BY <2>0, <3>4
    <3>5. QED
      BY <3>1, <3>2, <3>3, <3>4
      DEF LaneNext, Decode, Lost, Restart, DecodeError, OnEnded, CloseLane, NewLane, Tick,
          ToggleContext, laneVars
  <2>3. /\ now' \in 0..MaxTime /\ received' \in 0..MaxPackets
    <3>1. now' = now \/ (now < MaxTime /\ now' = now + 1)
      BY DEF LaneNext, Decode, Lost, Restart, DecodeError, Output, OnEnded, CloseLane, NewLane,
             Tick, ToggleContext, clockVars, laneVars
    <3>2. received' = received \/ (received < MaxPackets /\ received' = received + 1)
      BY DEF LaneNext, Decode, Lost, Restart, DecodeError, Output, OnEnded, CloseLane, NewLane,
             Tick, ToggleContext, laneVars
    <3>3. QED
      BY <2>0, <3>1, <3>2 DEF LaneTypeOK
  <2>4. running' \in BOOLEAN
    BY DEF LaneTypeOK, LaneNext, Decode, Lost, Restart, DecodeError, Output, OnEnded, CloseLane,
           NewLane, Tick, ToggleContext, clockVars, laneVars
  <2>5. lane' \in {"open", "closed"} /\ decoder' \in {"configured", "closed"}
    BY DEF LaneTypeOK, LaneNext, Decode, Lost, Restart, DecodeError, Output, OnEnded, CloseLane,
           NewLane, Tick, ToggleContext, decVars, laneVars
  <2>6. QED
    BY <2>1, <2>2, <2>3, <2>4, <2>5 DEF LaneTypeOK, Source, Chunk
<1>3. QED
    BY <1>1, <1>2, PTL DEF LaneSpec

\* The cursor stands at the end of the last source.
CursorInv == live # <<>> => playCursor = live[Len(live)].start + Frame

\* The length of n frames.
Frames(n) == Frame * n

\* Each source starts at most one frame per place after an earlier one, or
\* after now.  (Stated for pairs, so that it survives the end of the head.)
PairInv ==
    \A i, j \in 1..Len(live) : i <= j =>
        \/ live[j].start <= live[i].start + Frames(j - i)
        \/ live[j].start <= now + Frames(j - i)

Backlog == lane = "open" => playCursor <= now + Frames(Len(live) + 1)

ScheduleInv == Gapless /\ CursorInv /\ PairInv /\ Backlog

LEMMA FramesFacts ==
    /\ Frames(0) = 0
    /\ \A n \in Nat : Frames(n) \in Nat /\ Frames(n + 1) = Frames(n) + Frame
<1>1. Frame \in Nat
    BY PlaybackAssumption
<1>2. Frame * 0 = 0
    BY <1>1
<1>3. \A n \in Nat : Frame * n \in Nat /\ Frame * (n + 1) = Frame * n + Frame
    BY <1>1
<1>4. QED
    BY <1>2, <1>3 DEF Frames

LEMMA OnePlaceMore ==
    ASSUME NEW a \in Nat, NEW b \in Nat, NEW n \in Nat, NEW f \in Nat,
           NEW m \in Nat, NEW r \in Nat,
           r = n + f \/ r = a + f, a <= b + m \/ a <= n + m
    PROVE  r <= b + (m + f) \/ r <= n + (m + f)
  OBVIOUS

LEMMA EarlierBound ==
    ASSUME NEW a \in Nat, NEW b \in Nat, NEW n \in Nat, NEW f \in Nat, NEW m \in Nat,
           b + f <= n, a <= b + m \/ a <= n + m
    PROVE  a <= n + m
  OBVIOUS

LEMMA LiveTypes ==
    ASSUME LaneTypeOK
    PROVE  /\ live \in Seq(Source) /\ Len(live) \in Nat
           /\ \A i \in 1..Len(live) : live[i].start \in Nat /\ live[i].at \in Nat
           /\ now \in Nat /\ playCursor \in Nat /\ Frame \in Nat \ {0}
<1>1. live \in Seq(Source) /\ Frame \in Nat \ {0} /\ now \in Nat /\ playCursor \in Nat
    BY PlaybackAssumption DEF LaneTypeOK, Source
<1>2. Len(live) \in Nat /\ \A i \in 1..Len(live) : live[i] \in Source
    BY <1>1
<1>3. QED
    BY <1>1, <1>2 DEF Source

\* enqueue: one more source, right after the last or one frame from now.
LEMMA ScheduleOutput ==
    ASSUME LaneTypeOK, ClosedInv, ScheduleInv, Output
    PROVE  ScheduleInv'
<1> DEFINE k == Len(live)
           x == [start |-> Rebased, at |-> now]
<1>0. /\ live \in Seq(Source) /\ k \in Nat
      /\ \A i \in 1..k : live[i].start \in Nat /\ live[i].at \in Nat
      /\ now \in Nat /\ playCursor \in Nat /\ Frame \in Nat \ {0}
    BY LiveTypes
<1>1. /\ Rebased \in Nat
      /\ playCursor < now + Frame => Rebased = now + Frame
      /\ ~(playCursor < now + Frame) => Rebased = playCursor
    BY <1>0 DEF Rebased
<1>2. x \in Source
    BY <1>1 DEF Source, LaneTypeOK
<1>3. live' = Append(live, x) /\ playCursor' = Rebased + Frame /\ now' = now
    BY DEF Output, clockVars
<1>4. lane = "open" /\ lane' = "open"
    BY DEF Output, ClosedInv, LaneTypeOK
<1>5. x.start = Rebased /\ x.at = now
    OBVIOUS
<1> HIDE DEF x
<1>6. /\ Len(live') = k + 1 /\ live'[k + 1] = x
      /\ \A i \in 1..k : live'[i] = live[i]
    BY <1>0, <1>2, <1>3, AppendSource
<1> HIDE DEF k
<1>7. /\ \A i \in 1..(k + 1) : i \in 1..k \/ i = k + 1
      /\ live'[k + 1].start = Rebased /\ live'[k + 1].at = now
    BY <1>0, <1>5, <1>6
<1>8. k # 0 => /\ k \in 1..k /\ live # <<>>
               /\ playCursor = live[k].start + Frame /\ live[k].start \in Nat
    BY <1>0, EmptyFacts DEF ScheduleInv, CursorInv, k
<1>9. k # 0 => Rebased = Max({live[k].start, now}) + Frame
  <2> SUFFICES ASSUME k # 0 PROVE Rebased = Max({live[k].start, now}) + Frame
    OBVIOUS
  <2>1. /\ live[k].start \in Int /\ now \in Int /\ Frame \in Int
        /\ playCursor = live[k].start + Frame
    BY <1>0, <1>8
  <2>2. Max({live[k].start, now}) = IF live[k].start >= now THEN live[k].start ELSE now
    BY <2>1, MaxOfTwo
  <2>3. CASE live[k].start >= now
    <3>1. ~(playCursor < now + Frame)
      BY <2>1, <2>3
    <3>2. QED
      BY <1>1, <2>1, <2>2, <2>3, <3>1
  <2>4. CASE ~(live[k].start >= now)
    <3>1. playCursor < now + Frame
      BY <2>1, <2>4
    <3>2. QED
      BY <1>1, <2>2, <2>4, <3>1
  <2>5. QED
    BY <2>3, <2>4
<1>10. Gapless'
  <2> SUFFICES ASSUME NEW i \in 2..(k + 1)
               PROVE  live'[i].start = Max({live'[i-1].start, live'[i].at}) + Frame
    BY <1>6 DEF Gapless
  <2>1. CASE i = k + 1
    <3>1. k # 0 /\ i - 1 = k /\ live'[k] = live[k]
      BY <1>0, <1>6, <2>1
    <3>2. QED
      BY <1>7, <1>9, <2>1, <3>1
  <2>2. CASE i # k + 1
    <3>1. i \in 2..k /\ i \in 1..k /\ i - 1 \in 1..k
      BY <1>0, <2>2
    <3>2. live'[i] = live[i] /\ live'[i-1] = live[i-1]
      BY <1>6, <3>1
    <3>3. QED
      BY <3>1, <3>2 DEF ScheduleInv, Gapless, k
  <2>3. QED
    BY <2>1, <2>2
<1>11. CursorInv'
    BY <1>3, <1>6, <1>7 DEF CursorInv
<1>12. PairInv'
  <2> SUFFICES ASSUME NEW i \in 1..(k + 1), NEW j \in 1..(k + 1), i <= j
               PROVE  \/ live'[j].start <= live'[i].start + Frames(j - i)
                      \/ live'[j].start <= now + Frames(j - i)
    BY <1>3, <1>6 DEF PairInv
  <2>1. CASE j \in 1..k
    <3>1. i \in 1..k /\ live'[i] = live[i] /\ live'[j] = live[j]
      BY <1>0, <1>6, <2>1
    <3>2. QED
      BY <2>1, <3>1 DEF ScheduleInv, PairInv, k
  <2>2. CASE j = k + 1 /\ i = k + 1
    <3>1. j - i = 0
      BY <1>0, <2>2
    <3>2. QED
      BY <1>1, <1>7, <2>2, <3>1, FramesFacts
  <2>3. CASE j = k + 1 /\ i \in 1..k
    <3>1. k - i \in Nat /\ j - i = (k - i) + 1 /\ i <= k /\ k # 0
      BY <1>0, <2>3
    <3>2. Frames(k - i) \in Nat /\ Frames(j - i) = Frames(k - i) + Frame
      BY <3>1, FramesFacts
    <3>3. \/ live[k].start <= live[i].start + Frames(k - i)
          \/ live[k].start <= now + Frames(k - i)
      BY <1>8, <2>3, <3>1 DEF ScheduleInv, PairInv, k
    <3>4. live'[i] = live[i] /\ live[i].start \in Nat
      BY <1>0, <1>6, <2>3
    <3>5. Rebased = now + Frame \/ Rebased = live[k].start + Frame
      BY <1>1, <1>8, <3>1
    <3>6. QED
      <4>1. /\ live[k].start \in Nat /\ live[i].start \in Nat /\ now \in Nat
            /\ Frame \in Nat /\ Rebased \in Nat /\ Frames(k - i) \in Nat
        BY <1>0, <1>1, <1>8, <3>1, <3>2, <3>4
      <4>2. \/ Rebased <= live[i].start + (Frames(k - i) + Frame)
            \/ Rebased <= now + (Frames(k - i) + Frame)
        BY <3>3, <3>5, <4>1, OnePlaceMore
      <4>3. QED
        BY <1>7, <2>3, <3>2, <3>4, <4>2
  <2>4. QED
    BY <1>7, <2>1, <2>2, <2>3
<1>13. Backlog'
  <2>1. playCursor <= now + Frames(k + 1)
    BY <1>4 DEF ScheduleInv, Backlog, k
  <2>2. /\ Frames(k) \in Nat /\ Frames(k + 1) = Frames(k) + Frame
        /\ Frames((k + 1) + 1) = Frames(k + 1) + Frame
    <3>1. k \in Nat /\ k + 1 \in Nat
      BY <1>0
    <3>2. QED
      BY <3>1, FramesFacts
  <2>3. Rebased + Frame <= now + Frames((k + 1) + 1)
    BY <1>0, <1>1, <2>1, <2>2
  <2>4. QED
    BY <1>3, <1>6, <2>3 DEF Backlog
<1>14. QED
    BY <1>10, <1>11, <1>12, <1>13 DEF ScheduleInv

\* onended: the head has been played, so at most a frame per place is left.
LEMMA ScheduleEnded ==
    ASSUME LaneTypeOK, ClosedInv, ScheduleInv, OnEnded
    PROVE  ScheduleInv'
<1> DEFINE k == Len(live)
<1>0. /\ live \in Seq(Source) /\ live # <<>>
      /\ \A i \in 1..k : live[i].start \in Nat /\ live[i].at \in Nat
      /\ now \in Nat /\ playCursor \in Nat /\ Frame \in Nat \ {0}
    BY LiveTypes DEF OnEnded
<1>1. /\ k \in Nat \ {0} /\ Len(live') = k - 1 /\ live' \in Seq(Source)
      /\ Head(live) = live[1]
      /\ \A i \in 1..(k - 1) : live'[i] = live[i + 1]
    BY <1>0, TailSource DEF OnEnded
<1> HIDE DEF k
<1>2. /\ playCursor' = playCursor /\ now' = now /\ lane' = lane
      /\ live[1].start + Frame <= now
    BY <1>1 DEF OnEnded, clockVars
<1>3. 1 \in 1..k /\ k \in 1..k /\ playCursor = live[k].start + Frame
    BY <1>0, <1>1 DEF ScheduleInv, CursorInv, k
<1>4. Gapless'
  <2> SUFFICES ASSUME NEW i \in 2..(k - 1)
               PROVE  live'[i].start = Max({live'[i-1].start, live'[i].at}) + Frame
    BY <1>1 DEF Gapless
  <2>1. /\ i \in 1..(k - 1) /\ i - 1 \in 1..(k - 1) /\ i + 1 \in 2..k
        /\ (i - 1) + 1 = i /\ (i + 1) - 1 = i
    BY <1>1
  <2>2. live'[i] = live[i + 1] /\ live'[i - 1] = live[(i + 1) - 1]
    BY <1>1, <2>1
  <2>3. QED
    BY <2>1, <2>2 DEF ScheduleInv, Gapless, k
<1>5. CursorInv'
  <2> SUFFICES ASSUME live' # <<>> PROVE playCursor' = live'[k - 1].start + Frame
    BY <1>1 DEF CursorInv
  <2>1. k - 1 \in 1..(k - 1) /\ (k - 1) + 1 = k
    BY <1>1, EmptyFacts
  <2>2. QED
    BY <1>1, <1>2, <1>3, <2>1
<1>6. PairInv'
  <2> SUFFICES ASSUME NEW i \in 1..(k - 1), NEW j \in 1..(k - 1), i <= j
               PROVE  \/ live'[j].start <= live'[i].start + Frames(j - i)
                      \/ live'[j].start <= now + Frames(j - i)
    BY <1>1, <1>2 DEF PairInv
  <2>1. /\ i + 1 \in 1..k /\ j + 1 \in 1..k /\ i + 1 <= j + 1
        /\ (j + 1) - (i + 1) = j - i
    BY <1>1
  <2>2. live'[i] = live[i + 1] /\ live'[j] = live[j + 1]
    BY <1>1
  <2>3. \/ live[j + 1].start <= live[i + 1].start + Frames((j + 1) - (i + 1))
        \/ live[j + 1].start <= now + Frames((j + 1) - (i + 1))
    BY <2>1 DEF ScheduleInv, PairInv, k
  <2>4. QED
    BY <2>1, <2>2, <2>3
<1>7. Backlog'
  <2>1. /\ k - 1 \in Nat /\ (k - 1) + 1 = k /\ 1 <= k
    BY <1>1
  <2>2. Frames(k - 1) \in Nat /\ Frames((k - 1) + 1) = Frames(k - 1) + Frame
    BY <2>1, FramesFacts
  <2>3. \/ live[k].start <= live[1].start + Frames(k - 1)
        \/ live[k].start <= now + Frames(k - 1)
    BY <1>3, <2>1 DEF ScheduleInv, PairInv, k
  <2>4. live[1].start \in Nat /\ live[k].start \in Nat
    BY <1>0, <1>3
  <2>5. playCursor <= now + Frames((k - 1) + 1)
    <3>1. Frame \in Nat /\ now \in Nat
      BY <1>0
    <3>2. live[k].start <= now + Frames(k - 1)
      BY <1>2, <2>2, <2>3, <2>4, <3>1, EarlierBound
    <3>3. live[k].start + Frame <= now + (Frames(k - 1) + Frame)
      BY <2>2, <2>4, <3>1, <3>2
    <3>4. QED
      BY <1>3, <2>2, <3>3
  <2>6. QED
    BY <1>1, <1>2, <2>5 DEF Backlog
<1>8. QED
    BY <1>4, <1>5, <1>6, <1>7 DEF ScheduleInv

LEMMA ScheduleStep ==
    ASSUME LaneTypeOK, LaneTypeOK', ClosedInv, ScheduleInv, [LaneNext]_laneVars
    PROVE  ScheduleInv'
<1>0. /\ Len(live) \in Nat /\ now \in Nat /\ now' \in Nat /\ playCursor \in Nat
      /\ Frame \in Nat \ {0}
      /\ \A i \in 1..Len(live) : live[i].start \in Nat
  <2>1. now' \in Nat
    BY PlaybackAssumption DEF LaneTypeOK
  <2>2. QED
    BY <2>1, LiveTypes
<1>1. CASE UNCHANGED <<live, playCursor, lane>>
  <2>1. now <= now'
    <3>1. now' = now \/ now' = now + 1
      BY DEF LaneNext, Decode, Lost, Restart, DecodeError, Output, OnEnded, CloseLane, NewLane,
             Tick, ToggleContext, clockVars, laneVars
    <3>2. QED
      BY <1>0, <3>1
  <2>2. Gapless' /\ CursorInv'
    BY <1>1 DEF ScheduleInv, Gapless, CursorInv
  <2>3. PairInv'
    <3> SUFFICES ASSUME NEW i \in 1..Len(live), NEW j \in 1..Len(live), i <= j
                 PROVE  \/ live[j].start <= live[i].start + Frames(j - i)
                        \/ live[j].start <= now' + Frames(j - i)
      BY <1>1 DEF PairInv
    <3>1. j - i \in Nat
      BY <1>0
    <3>2. Frames(j - i) \in Nat
      BY <3>1, FramesFacts
    <3>3. \/ live[j].start <= live[i].start + Frames(j - i)
          \/ live[j].start <= now + Frames(j - i)
      BY DEF ScheduleInv, PairInv
    <3>4. QED
      BY <1>0, <2>1, <3>2, <3>3
  <2>4. Backlog'
    <3>1. Frames(Len(live) + 1) \in Nat
      BY <1>0, FramesFacts
    <3>2. QED
      BY <1>0, <1>1, <2>1, <3>1 DEF ScheduleInv, Backlog
  <2>5. QED
    BY <2>2, <2>3, <2>4 DEF ScheduleInv
<1>2. CASE CloseLane \/ NewLane
  <2>1. live' = <<>> /\ (lane' = "open" => playCursor' = 0)
    BY <1>2 DEF CloseLane, NewLane
  <2>2. Len(live') = 0
    BY <2>1, EmptyFacts
  <2>3. Gapless' /\ CursorInv' /\ PairInv'
    BY <2>1, <2>2 DEF Gapless, CursorInv, PairInv
  <2>4. Backlog'
    <3>1. 0 + 1 \in Nat /\ Frames(0 + 1) \in Nat
      BY FramesFacts
    <3>2. QED
      BY <1>0, <2>1, <2>2, <3>1 DEF Backlog
  <2>5. QED
    BY <2>3, <2>4 DEF ScheduleInv
<1>3. QED
    BY <1>1, <1>2, ScheduleOutput, ScheduleEnded
    DEF LaneNext, Decode, Lost, Restart, DecodeError, Tick, ToggleContext, laneVars

LEMMA ScheduleInvariant == LaneSpec => []ScheduleInv
<1>1. LaneInit => ScheduleInv
  <2> SUFFICES ASSUME LaneInit PROVE ScheduleInv
    OBVIOUS
  <2>1. live = <<>> /\ playCursor = 0 /\ now = 0 /\ Len(live) = 0
    BY EmptyFacts DEF LaneInit
  <2>2. Frames(0 + 1) \in Nat
    BY FramesFacts
  <2>3. QED
    BY <2>1, <2>2 DEF ScheduleInv, Gapless, CursorInv, PairInv, Backlog
<1>2. QED
    BY <1>1, ScheduleStep, Typing, ClosedInvariant, PTL DEF LaneSpec

\* Frames follow each other without overlap or avoidable gap, for any frame
\* length and any interleaving of decoding, playing and the clock.
THEOREM GaplessHolds == LaneSpec => []Gapless
<1>1. ScheduleInv => Gapless
    BY DEF ScheduleInv
<1>2. QED
    BY <1>1, ScheduleInvariant, PTL

\* The delay of a lane is its backlog and one frame, whatever the bursts and
\* stalls before.
THEOREM LeadIsBacklogHolds == LaneSpec => []LeadIsBacklog
<1>1. LaneTypeOK /\ ScheduleInv => LeadIsBacklog
    BY DEF ScheduleInv, Backlog, Frames, LeadIsBacklog
<1>2. QED
    BY <1>1, Typing, ScheduleInvariant, PTL
=============================================================================
