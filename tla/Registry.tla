------------------------------ MODULE Registry ------------------------------
(***************************************************************************)
(* The relay's table of channels (relay/internal/registry.go), the entry   *)
(* and exit of the handlers that use it (relay/internal/server.go) and the *)
(* reaper goroutine (relay/cmd/relay/main.go).                             *)
(*                                                                         *)
(* A handler looks its channel up under Registry.mu, unlocks, and enters   *)
(* the *Channel it got later, under Channel.mu only.  Reap holds           *)
(* Registry.mu throughout, but for each channel it reads Stats under       *)
(* Channel.mu, unlocks that, and deletes the entry afterwards.             *)
(*                                                                         *)
(* A hub is what Channel.tla describes in full; here it is its publisher   *)
(* flag and its subscribers.  Unreferenced hubs are garbage collected, so  *)
(* Objs needs no more members than there can be references.                *)
(***************************************************************************)
EXTENDS Integers, FiniteSets

CONSTANTS
    Ids,          \* valid channel ids
    Objs,         \* *Channel objects
    Pubs,         \* /publish handlers
    Viewers,      \* /subscribe handlers
    None,
    MaxChannels,  \* max_channels
    MaxSubs       \* max_subscribers_per_channel

Handlers == Pubs \cup Viewers

ASSUME RegistryAssumption ==
    /\ None \notin Ids \cup Objs
    /\ Pubs \cap Viewers = {}
    /\ MaxChannels \in Nat /\ MaxSubs \in Nat
    \* Memory does not run out: there is a hub for every possible reference.
    /\ IsFiniteSet(Handlers)
    /\ IsFiniteSet(Objs) =>
           Cardinality(Objs) >= MaxChannels + Cardinality(Handlers)

VARIABLES
    channels,  \* Registry.channels: id -> hub, None where there is no entry
    hasPub,    \* Channel.hasPub of each hub
    subs,      \* Channel.subs of each hub
    pc,        \* handler: "idle", "got" a hub, "in" it
    id,        \* handler: the channel it asked for
    ref,       \* handler: the hub it holds
    late,      \* history: the handler entered a hub already found idle
    reap,      \* reaper: "off", "scan" (holds Registry.mu), "found" (idle hub)
    todo,      \* reaper: entries of the range loop not visited yet
    rid        \* reaper: the entry whose hub Stats just reported on

hubVars  == <<channels, hasPub, subs>>
procVars == <<pc, id, ref, late>>
reapVars == <<reap, todo, rid>>
vars     == <<hubVars, procVars, reapVars>>

(* Names ending in M are plausible mistakes in the definition that follows;*)
(* no action uses them.                                                    *)

Registered == {i \in Ids : channels[i] # None}

\* Nobody can reach the hub any more.
Unreferenced(o) ==
    (\A i \in Ids : channels[i] # o) /\ (\A h \in Handlers : ref[h] # o)

\* A new hub.  It is empty: the handlers of the hub that had this name before
\* are all gone.
NewChannel == CHOOSE o \in Objs : Unreferenced(o)

\* Some handler uses the hub, but the table no longer leads to it.
Orphan(o) == \A i \in Ids : channels[i] # o

\* Reap is past the Stats call that found this hub idle.
Doomed(o) == reap = "found" /\ channels[rid] = o

Init ==
    /\ channels = [i \in Ids |-> None]
    /\ hasPub = [o \in Objs |-> FALSE]
    /\ subs = [o \in Objs |-> {}]
    /\ pc = [h \in Handlers |-> "idle"]
    /\ id = [h \in Handlers |-> None]
    /\ ref = [h \in Handlers |-> None]
    /\ late = [h \in Handlers |-> FALSE]
    /\ reap = "off" /\ todo = {} /\ rid = None

-----------------------------------------------------------------------------
\* The cap of GetOrCreate.
UnderCapM == Cardinality(Registered) <= MaxChannels
UnderCap == Cardinality(Registered) < MaxChannels

\* The test of Reap on the Stats of a hub.
StatsIdleM(o) == ~hasPub[o]
StatsIdleM2(o) == hasPub[o] /\ subs[o] = {}
StatsIdle(o) == ~hasPub[o] /\ subs[o] = {}

\* The test of ClaimPublisher and of Subscribe, each under Channel.mu.
MayEnter(h, o) == IF h \in Pubs THEN ~hasPub[o]
                  ELSE Cardinality(subs[o]) < MaxSubs

\* Handler h starts over for the next request.
Finish(h) ==
    /\ pc' = [pc EXCEPT ![h] = "idle"]
    /\ id' = [id EXCEPT ![h] = None]
    /\ ref' = [ref EXCEPT ![h] = None]
    /\ late' = [late EXCEPT ![h] = FALSE]

-----------------------------------------------------------------------------
\* GetOrCreate, under Registry.mu: the entry, or a new hub if the cap allows.
\* At the cap the handler answers 503 and nothing changes.
GetOrCreate(h, i) ==
    /\ pc[h] = "idle"
    /\ reap = "off"
    /\ \/ /\ channels[i] # None
          /\ UNCHANGED channels
       \/ /\ channels[i] = None /\ UnderCap
          /\ channels' = [channels EXCEPT ![i] = NewChannel]
    /\ ref' = [ref EXCEPT ![h] = channels'[i]]
    /\ id' = [id EXCEPT ![h] = i]
    /\ pc' = [pc EXCEPT ![h] = "got"]
    /\ UNCHANGED <<hasPub, subs, late, reapVars>>

\* ClaimPublisher or Subscribe succeeds on the hub the handler holds.
Enter(h) ==
    LET o == ref[h] IN
    /\ pc[h] = "got"
    /\ MayEnter(h, o)
    /\ \/ h \in Pubs /\ hasPub' = [hasPub EXCEPT ![o] = TRUE]
                     /\ UNCHANGED subs
       \/ h \in Viewers /\ subs' = [subs EXCEPT ![o] = @ \cup {h}]
                        /\ UNCHANGED hasPub
    /\ late' = [late EXCEPT ![h] = Orphan(o) \/ Doomed(o)]
    /\ pc' = [pc EXCEPT ![h] = "in"]
    /\ UNCHANGED <<channels, id, ref, reapVars>>

\* ErrChannelTaken (409) or ErrSubscriberLimit (503).
Refused(h) ==
    /\ pc[h] = "got"
    /\ ~MayEnter(h, ref[h])
    /\ Finish(h)
    /\ UNCHANGED <<hubVars, reapVars>>

\* The connection ends: the deferred ReleasePublisher or unsub.
Exit(h) ==
    LET o == ref[h] IN
    /\ pc[h] = "in"
    /\ \/ h \in Pubs /\ hasPub' = [hasPub EXCEPT ![o] = FALSE]
                     /\ UNCHANGED subs
       \/ h \in Viewers /\ subs' = [subs EXCEPT ![o] = @ \ {h}]
                        /\ UNCHANGED hasPub
    /\ Finish(h)
    /\ UNCHANGED <<channels, reapVars>>

-----------------------------------------------------------------------------
\* reaperLoop ticks: Reap takes Registry.mu and ranges over the table.
ReapStart ==
    /\ reap = "off"
    /\ reap' = "scan"
    /\ todo' = Registered
    /\ UNCHANGED <<hubVars, procVars, rid>>

\* ch.Stats() and the test on the snapshot it returns.
ReapStats(i) ==
    /\ reap = "scan"
    /\ i \in todo
    /\ todo' = todo \ {i}
    /\ IF StatsIdle(channels[i]) THEN reap' = "found" /\ rid' = i
                                 ELSE UNCHANGED <<reap, rid>>
    /\ UNCHANGED <<hubVars, procVars>>

\* delete(r.channels, id), without looking at the hub again.
ReapDelete ==
    /\ reap = "found"
    /\ channels' = [channels EXCEPT ![rid] = None]
    /\ reap' = "scan"
    /\ rid' = None
    /\ UNCHANGED <<hasPub, subs, procVars, todo>>

ReapEnd ==
    /\ reap = "scan"
    /\ todo = {}
    /\ reap' = "off"
    /\ UNCHANGED <<hubVars, procVars, todo, rid>>

ReaperStep == ReapStart \/ (\E i \in Ids : ReapStats(i)) \/ ReapDelete \/ ReapEnd

Next ==
    \/ \E h \in Handlers : \/ \E i \in Ids : GetOrCreate(h, i)
                           \/ Enter(h) \/ Refused(h) \/ Exit(h)
    \/ ReaperStep

Spec == Init /\ [][Next]_vars

\* The reaper's ticker keeps firing; connections may last for ever.
LiveSpec == Spec /\ WF_vars(ReaperStep)

-----------------------------------------------------------------------------
(* Properties.                                                             *)

\* Types; a handler past GetOrCreate has an id and a hub, never nil.
TypeOK ==
    /\ channels \in [Ids -> Objs \cup {None}]
    /\ hasPub \in [Objs -> BOOLEAN]
    /\ subs \in [Objs -> SUBSET Viewers]
    /\ pc \in [Handlers -> {"idle", "got", "in"}]
    /\ id \in [Handlers -> Ids \cup {None}]
    /\ ref \in [Handlers -> Objs \cup {None}]
    /\ late \in [Handlers -> BOOLEAN]
    /\ reap \in {"off", "scan", "found"}
    /\ todo \subseteq Ids
    /\ rid \in Ids \cup {None}
    /\ reap = "found" => rid \in Ids
    /\ \A h \in Handlers : pc[h] # "idle" => id[h] \in Ids /\ ref[h] \in Objs

\* max_channels bounds the table, and each hub has at most one publisher and
\* max_subscribers_per_channel viewers, orphaned hubs included.
CapsHold ==
    /\ TypeOK
    /\ Cardinality(Registered) <= MaxChannels
    /\ \A p, q \in Pubs : pc[p] = "in" /\ pc[q] = "in" /\ ref[p] = ref[q] => p = q
    /\ \A o \in Objs : Cardinality(subs[o]) <= MaxSubs

\* Reap takes a hub away only from handlers that entered it after Stats had
\* found it idle: a channel in use when Reap looks keeps its entry.
OnlyLateEntrantsOrphaned ==
    \A h \in Handlers : pc[h] = "in" /\ Orphan(ref[h]) => late[h]

\* Reap removes every hub that stays idle, so the table does not fill up with
\* channels nobody uses.
IdleIsReaped ==
    \A i \in Ids, o \in Objs : ~<>[](channels[i] = o /\ ~hasPub[o] /\ subs[o] = {})

\* "One publisher per channel.  Second claim returns 409": per channel id.
OnePublisherPerId ==
    \A p, q \in Pubs : pc[p] = "in" /\ pc[q] = "in" /\ id[p] = id[q] => p = q
=============================================================================
