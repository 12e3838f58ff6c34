------------------------------- MODULE Mixer --------------------------------
(***************************************************************************)
(* The viewer's mixer for one streamer: the state and the callbacks of     *)
(* mount() in extension/src/content/index.ts, the panel                    *)
(* (ui/Mixer.svelte), the audio graph (audio/graph.ts) and the preference  *)
(* store (store/prefs.ts).  Everything runs on the page's event loop, so a *)
(* callback is one step.                                                   *)
(*                                                                         *)
(* Gains are the panel's percent steps 0..Unit; the code divides a slider  *)
(* position by 100 and shows the rounded product, which gives the position *)
(* back.  Delays are in steps of the offset slider.  The Web Audio API is  *)
(* external: a node passes what arrives to the nodes it is connected to,   *)
(* scaled by its gain, later by its delay.                                 *)
(***************************************************************************)
EXTENDS TrackList, FiniteSetsExt, Functions

CONSTANTS
    Lists,         \* track lists a publisher of this streamer may announce
    Unit,          \* gain 1.0
    DefaultGain,   \* DEFAULT.gain, 0.5
    DefaultBroadcast, \* broadcastGain of a new mount, 0.2
    MaxOffset,     \* MAX_OFFSET_MS, 30 s
    GlobalPrefs,   \* prefs.global: preset category -> setting
    HasDecoder     \* WebCodecs AudioDecoder is available

VARIABLES
    tracks,        \* tracks, as last announced
    gains,         \* slug -> slider
    muted,         \* slug -> mute button
    broadcastGain, \* the residual slider
    offsetMs,      \* the sync offset slider
    settings,      \* slug -> setting, what Save stores
    graph,         \* the MixerGraph: userGain per slug, node values, wires
    audioLanes,    \* slugs that have a decoder and a scheduler
    idToSlug,      \* wire id -> slug
    streamerPrefs, \* the override map loaded by mount
    stored,        \* prefs.streamer.<channel> in chrome.storage
    soloed         \* history: slugs whose mute was last set by solo

sliders == <<broadcastGain, offsetMs>>
prefVars == <<streamerPrefs, stored>>
mixVars == <<tracks, gains, muted, settings, graph, audioLanes, idToSlug,
             soloed>>
vars == <<mixVars, sliders, prefVars>>

Levels == 0..Unit
Setting == [gain : Levels, muted : BOOLEAN]
Slug == UNION {SlugsOf(l) : l \in Lists}

ASSUME MixerAssumption ==
    /\ Unit \in Nat \ {0}
    /\ DefaultGain \in Levels /\ DefaultBroadcast \in Levels
    /\ MaxOffset \in Nat /\ HasDecoder \in BOOLEAN
    /\ \A l \in Lists : \A i, j \in 1..Len(l) : l[i].id = l[j].id => i = j
    /\ \A c \in DOMAIN GlobalPrefs : GlobalPrefs[c] \in Setting

\* Names ending in M are plausible mistakes in the definition that follows;
\* no action uses them.

\* The object { ...f, ...e }.
Spread(f, e) ==
    [x \in DOMAIN f \cup DOMAIN e |-> IF x \in DOMAIN e THEN e[x] ELSE f[x]]

-----------------------------------------------------------------------------
(* graph.ts.  A node is <<kind, slug>>; the shared ones have no slug.      *)

clamp01(v) == IF v < 0 THEN 0 ELSE IF v > Unit THEN Unit ELSE v

Shared(k) == <<k, "">>
Entry(s) == <<"entry", s>>
UserGain(s) == <<"userGain", s>>

buildGraph ==
    [broadcast |-> Unit, delay |-> 0, tracks |-> <<>>,
     wires |-> {<<Shared("source"), Shared("broadcastGain")>>,
                <<Shared("broadcastGain"), Shared("master")>>,
                <<Shared("cancellationSum"), Shared("sharedDelay")>>,
                <<Shared("sharedDelay"), Shared("inverter")>>,
                <<Shared("inverter"), Shared("master")>>,
                <<Shared("master"), Shared("destination")>>}]

\* The wires addTrack makes.
\* (The mistake: the cancellation tap is taken behind the user's gain.)
TrackWiresM(s) ==
    {<<Entry(s), UserGain(s)>>, <<UserGain(s), Shared("master")>>,
     <<UserGain(s), Shared("cancellationSum")>>}
TrackWires(s) ==
    {<<Entry(s), UserGain(s)>>, <<UserGain(s), Shared("master")>>,
     <<Entry(s), Shared("cancellationSum")>>}

\* addTrack for each slug of S that has no nodes yet.
addTracks(g, S) ==
    LET new == S \ DOMAIN g.tracks IN
    [g EXCEPT !.tracks = Spread(@, [s \in new |-> DefaultGain]),
              !.wires = @ \cup UNION {TrackWires(s) : s \in new}]

\* removeTrack for each slug of S: disconnect() removes the outgoing wires.
removeTracks(g, S) ==
    [g EXCEPT !.tracks = Restrict(@, DOMAIN @ \ S),
              !.wires = {w \in @ : w[1] \notin UNION {{Entry(s), UserGain(s)}
                                                    : s \in S}}]

\* setTrackGain(graph, s, f[s]) for each s, which ignores an unknown slug.
setTrackGains(g, f) ==
    [g EXCEPT !.tracks = [s \in DOMAIN @ |->
        IF s \in DOMAIN f THEN clamp01(f[s]) ELSE g.tracks[s]]]

setBroadcastGain(g, v) == [g EXCEPT !.broadcast = clamp01(v)]
setOffsetMs(g, ms) ==
    [g EXCEPT !.delay = IF ms > MaxOffset THEN MaxOffset ELSE Max({0, ms})]

-----------------------------------------------------------------------------
(* prefs.ts.                                                               *)

\* What the callbacks hand to setTrackGain.
Applied(g, m) == IF m THEN 0 ELSE g

\* Per-streamer override, then the category's global default, then DEFAULT.
\* (The mistake: the global default is looked up first.)
effectiveSettingGlobalM(slug, category, streamer) ==
    IF category # "custom" /\ category \in DOMAIN GlobalPrefs
    THEN GlobalPrefs[category]
    ELSE IF slug \in DOMAIN streamer THEN streamer[slug]
    ELSE [gain |-> DefaultGain, muted |-> FALSE]
effectiveSetting(slug, category, streamer) ==
    IF slug \in DOMAIN streamer THEN streamer[slug]
    ELSE IF category # "custom" /\ category \in DOMAIN GlobalPrefs
    THEN GlobalPrefs[category]
    ELSE [gain |-> DefaultGain, muted |-> FALSE]

\* Reset visits every row, so the last row of a slug decides.
ResetSetting(s) ==
    effectiveSetting(s, tracks[Max(Rows(tracks, s))].category, <<>>)

-----------------------------------------------------------------------------
(* mount: the state it builds, and a later mount of the same channel.      *)

mountGraph == setOffsetMs(setBroadcastGain(buildGraph, DefaultBroadcast), 0)

Init ==
    /\ tracks = <<>> /\ gains = <<>> /\ muted = <<>>
    /\ broadcastGain = DefaultBroadcast /\ offsetMs = 0
    /\ settings = <<>> /\ graph = mountGraph
    /\ audioLanes = {} /\ idToSlug = <<>> /\ soloed = {}
    /\ streamerPrefs = <<>> /\ stored = <<>>

\* destroy drops the graph and the panel; mount builds new ones.
Remount ==
    /\ tracks' = <<>> /\ gains' = <<>> /\ muted' = <<>>
    /\ broadcastGain' = DefaultBroadcast /\ offsetMs' = 0
    /\ settings' = <<>> /\ graph' = mountGraph
    /\ audioLanes' = {} /\ idToSlug' = <<>> /\ soloed' = {}
    /\ streamerPrefs' = stored
    /\ UNCHANGED stored

-----------------------------------------------------------------------------
(* Messages from the relay.                                                *)

\* Slugs the list keeps, and the new ones.
KeptM(l) == DOMAIN settings
Kept(l) == DOMAIN settings \ (SlugsOf(tracks) \ SlugsOf(l))
NewM(l) == SlugsOf(l)
New(l) == SlugsOf(l) \ Kept(l)

\* indexTracks, then applyTrackList: a slug that is gone loses its lane, its
\* nodes and its setting, a new one gets them (by its first row), the others
\* are left alone.
OnTrackList(l) ==
    LET eff == [s \in New(l) |->
                   effectiveSetting(s, l[Min(Rows(l, s))].category,
                                    streamerPrefs)]
        Update(f, e) == Spread(Restrict(f, Kept(l)), e)
        gone == SlugsOf(tracks) \ SlugsOf(l)
        nodes == addTracks(removeTracks(graph, gone), New(l))
    IN
    /\ tracks' = l
    /\ idToSlug' = indexTracks(idToSlug, l)
    /\ settings' = Update(settings, eff)
    /\ gains' = Update(gains, [s \in New(l) |-> eff[s].gain])
    /\ muted' = Update(muted, [s \in New(l) |-> eff[s].muted])
    /\ graph' = setTrackGains(nodes, [s \in New(l) |->
                                        Applied(eff[s].gain, eff[s].muted)])
    /\ audioLanes' = (audioLanes \ gone)
                     \cup (IF HasDecoder THEN New(l) ELSE {})
    /\ soloed' = soloed \cap (Kept(l) \ New(l))
    /\ UNCHANGED <<sliders, prefVars>>

\* onAudio makes the lane if the slug has an entry node and no lane yet.
OnAudio(id) ==
    /\ id \in DOMAIN idToSlug
    /\ idToSlug[id] \in DOMAIN graph.tracks
    /\ HasDecoder
    /\ audioLanes' = audioLanes \cup {idToSlug[id]}
    /\ UNCHANGED <<tracks, gains, muted, settings, graph, idToSlug, soloed,
                   sliders, prefVars>>

-----------------------------------------------------------------------------
(* The callbacks of the panel.                                             *)

OnChange(s, v) ==
    /\ gains' = Spread(gains, [r \in {s} |-> v])
    /\ settings' = IF s \in DOMAIN settings
                   THEN [settings EXCEPT ![s].gain = v] ELSE settings
    /\ graph' = setTrackGains(graph, [r \in {s} |-> Applied(v, muted[s])])
    /\ UNCHANGED <<tracks, muted, audioLanes, idToSlug, soloed, sliders,
                   prefVars>>

OnMuteToggle(s) ==
    LET next == ~muted[s] IN
    /\ muted' = Spread(muted, [r \in {s} |-> next])
    /\ settings' = IF s \in DOMAIN settings
                   THEN [settings EXCEPT ![s].muted = next] ELSE settings
    /\ graph' = setTrackGains(graph, [r \in {s} |-> Applied(gains[s], next)])
    /\ soloed' = soloed \ {s}
    /\ UNCHANGED <<tracks, gains, audioLanes, idToSlug, sliders, prefVars>>

\* Solo mutes every other track and leaves the settings alone.
OnSoloToggle(s) ==
    LET next == [r \in SlugsOf(tracks) |-> r # s] IN
    /\ muted' = next
    /\ graph' = setTrackGains(graph, [r \in SlugsOf(tracks) |->
                                         Applied(gains[r], next[r])])
    /\ soloed' = SlugsOf(tracks)
    /\ UNCHANGED <<tracks, gains, settings, audioLanes, idToSlug, sliders,
                   prefVars>>

OnBroadcastChange(v) ==
    /\ broadcastGain' = v
    /\ graph' = setBroadcastGain(graph, v)
    /\ UNCHANGED <<offsetMs, tracks, gains, muted, settings, audioLanes,
                   idToSlug, soloed, prefVars>>

OnOffsetChange(ms) ==
    /\ offsetMs' = ms
    /\ graph' = setOffsetMs(graph, ms)
    /\ UNCHANGED <<broadcastGain, tracks, gains, muted, settings, audioLanes,
                   idToSlug, soloed, prefVars>>

\* Reset goes back to the global defaults, past the streamer's overrides, and
\* leaves the broadcast and offset sliders where they are.
\* (The mistake: the settings that Save stores are not reset.)
ResetSettingsM(eff) == settings
ResetSettings(eff) == Spread(settings, eff)
OnReset ==
    LET eff == [s \in SlugsOf(tracks) |-> ResetSetting(s)] IN
    /\ gains' = [s \in SlugsOf(tracks) |-> eff[s].gain]
    /\ muted' = [s \in SlugsOf(tracks) |-> eff[s].muted]
    /\ settings' = ResetSettings(eff)
    /\ graph' = setTrackGains(graph, [s \in SlugsOf(tracks) |->
                                         Applied(eff[s].gain, eff[s].muted)])
    /\ soloed' = {}
    /\ UNCHANGED <<tracks, audioLanes, idToSlug, sliders, prefVars>>

\* The whole override map is replaced; streamerPrefs is not refreshed.
OnSaveStreamer ==
    /\ stored' = settings
    /\ UNCHANGED <<mixVars, sliders, streamerPrefs>>

-----------------------------------------------------------------------------
(* The panel, Mixer.svelte: which control exists, and what it calls.       *)

\* A row's icon: a click mutes, a click with Shift solos.
ClickIcon(s, shiftKey) ==
    /\ s \in SlugsOf(tracks)
    /\ IF shiftKey THEN OnSoloToggle(s) ELSE OnMuteToggle(s)

SliderInput(s, v) == s \in SlugsOf(tracks) /\ OnChange(s, v)

\* The gear button only shows and hides the offset slider.
Panel ==
    \/ \E s \in Slug : \/ \E v \in Levels : SliderInput(s, v)
                       \/ \E shiftKey \in BOOLEAN : ClickIcon(s, shiftKey)
    \/ \E v \in Levels : OnBroadcastChange(v)
    \/ \E ms \in 0..MaxOffset : OnOffsetChange(ms)
    \/ OnReset \/ OnSaveStreamer

Next ==
    \/ \E l \in Lists : OnTrackList(l)
    \/ \E id \in DOMAIN idToSlug : OnAudio(id)
    \/ Panel
    \/ Remount

Spec == Init /\ [][Next]_vars

-----------------------------------------------------------------------------
(* What is heard.                                                          *)

NodeGain(n) ==
    CASE n[1] = "broadcastGain" -> graph.broadcast
      [] n[1] = "inverter" -> -Unit
      [] n[1] = "userGain" -> graph.tracks[n[2]]
      [] OTHER -> Unit
NodeDelay(n) == IF n[1] = "sharedDelay" THEN graph.delay ELSE 0

\* What leaves node n when c says what leaves the others: each copy that its
\* outgoing wires bring to the loudspeaker, as <<gain, delay>>.
Onward(c, n) ==
    IF n = Shared("destination") THEN {<<Unit, 0>>}
    ELSE {<<(NodeGain(n) * x[1]) \div Unit, NodeDelay(n) + x[2]>> :
            x \in UNION {c[w[2]] : w \in {w \in graph.wires : w[1] = n}}}

\* The copies of a node's signal that reach the loudspeaker.  The longest way,
\* from an entry through the inverter, has five wires.
Copies(node) ==
    LET Nodes == (UNION {{w[1], w[2]} : w \in graph.wires}) \cup {node}
        Step(c) == [n \in Nodes |-> Onward(c, n)]
    IN Onward(Step(Step(Step(Step(Step([n \in Nodes |-> {}]))))), node)

-----------------------------------------------------------------------------
(* Properties.                                                             *)

MapsTo(f, T) == DOMAIN f \subseteq Slug /\ \A s \in DOMAIN f : f[s] \in T

\* Types.
TypeOK ==
    /\ tracks \in Lists \cup {<<>>}
    /\ MapsTo(gains, Levels) /\ MapsTo(muted, BOOLEAN)
    /\ broadcastGain \in Levels /\ offsetMs \in 0..MaxOffset
    /\ MapsTo(graph.tracks, Levels)
    /\ graph.broadcast \in Levels /\ graph.delay \in 0..MaxOffset
    /\ audioLanes \subseteq Slug /\ soloed \subseteq Slug
    /\ \A n \in DOMAIN idToSlug : idToSlug[n] \in Slug
    /\ \A f \in {settings, streamerPrefs, stored} : MapsTo(f, Setting)

\* What is heard is what the panel shows, after any clicks and track lists: a
\* track reaches the loudspeaker as shown by its slider and mute button, its
\* inverted copy at full level and with the offset shown, "so muting never
\* weakens cancellation", and the page's video with the residual shown.
HeardIsShown ==
    /\ \A s \in SlugsOf(tracks) :
        Copies(Entry(s)) = {<<IF muted[s] THEN 0 ELSE gains[s], 0>>,
                            <<-Unit, offsetMs>>}
    /\ Copies(Shared("source")) = {<<broadcastGain, 0>>}

\* The maps kept per track stay in step: nodes, sliders and settings exist for
\* the announced tracks and no others, every wire id leads to one of them, no
\* lane outlives its nodes, and a track that left is disconnected.
Plumbed ==
    /\ TypeOK
    /\ {DOMAIN graph.tracks, DOMAIN settings, DOMAIN gains, DOMAIN muted}
        = {SlugsOf(tracks)}
    /\ {idToSlug[n] : n \in DOMAIN idToSlug} = SlugsOf(tracks)
    /\ audioLanes = IF HasDecoder THEN SlugsOf(tracks) ELSE {}
    /\ {w[1][2] : w \in graph.wires} = SlugsOf(tracks) \cup {""}

\* Save stores what the panel shows: the settings behind the panel follow its
\* sliders and mute buttons through every callback but solo, which changes
\* the mute buttons and not the settings.
SavedIsShown ==
    \A s \in SlugsOf(tracks) :
        /\ settings[s].gain = gains[s]
        /\ s \notin soloed => settings[s].muted = muted[s]

\* A publisher that reconnects announces its tracks again: a track that stays
\* keeps the viewer's slider, mute and applied gain.
ReannounceKeepsMix ==
    [][\A l \in Lists : OnTrackList(l) =>
        \A s \in SlugsOf(tracks) \cap SlugsOf(l) :
            /\ gains'[s] = gains[s] /\ muted'[s] = muted[s]
            /\ graph'.tracks[s] = graph.tracks[s]
      ]_vars

\* The streamer's override wins where present: with the saved map loaded by
\* mount, a track that appears gets the setting saved for it, whatever its
\* category's default.  (After a save in the same mount it gets the old one:
\* streamerPrefs is not refreshed.)
OverrideWins ==
    [][\A l \in Lists : OnTrackList(l) /\ streamerPrefs = stored =>
        \A s \in SlugsOf(l) \ SlugsOf(tracks) :
            s \in DOMAIN stored =>
                /\ settings'[s] = stored[s]
                /\ graph'.tracks[s] = IF stored[s].muted THEN 0 ELSE stored[s].gain
      ]_vars
=============================================================================
