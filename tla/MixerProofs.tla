---------------------------- MODULE MixerProofs -----------------------------
(***************************************************************************)
(* Proofs about Mixer, for any track lists, any saved and global           *)
(* preferences and any resolution of the sliders.                          *)
(***************************************************************************)
EXTENDS Mixer, TLAPS

Fields == {"broadcast", "delay", "tracks", "wires"}
IsGraph(g) == DOMAIN g = Fields /\ g = [k \in Fields |-> g[k]]

\* The wires of a graph whose tracks are the slugs S.
Wired(S) == buildGraph.wires \cup UNION {TrackWires(s) : s \in S}

\* The panel has one row of state for each announced slug and no other.
RowsInv ==
    /\ tracks \in Lists \cup {<<>>}
    /\ gains \in [SlugsOf(tracks) -> Levels]
    /\ muted \in [SlugsOf(tracks) -> BOOLEAN]
    /\ settings \in [SlugsOf(tracks) -> Setting]
    /\ broadcastGain \in Levels /\ offsetMs \in 0..MaxOffset

\* The audio graph is a function of what the panel shows.
GraphInv ==
    /\ IsGraph(graph)
    /\ graph.broadcast = broadcastGain /\ graph.delay = offsetMs
    /\ graph.tracks = [s \in SlugsOf(tracks) |-> Applied(gains[s], muted[s])]
    /\ graph.wires = Wired(SlugsOf(tracks))

LaneInv ==
    /\ audioLanes = (IF HasDecoder THEN SlugsOf(tracks) ELSE {})
    /\ {idToSlug[n] : n \in DOMAIN idToSlug} = SlugsOf(tracks)

PrefInv ==
    /\ MapsTo(streamerPrefs, Setting) /\ MapsTo(stored, Setting)
    /\ soloed \in SUBSET SlugsOf(tracks)
    /\ \A s \in SlugsOf(tracks) :
        /\ settings[s].gain = gains[s]
        /\ s \notin soloed => settings[s].muted = muted[s]

MixInv == RowsInv /\ GraphInv /\ LaneInv /\ PrefInv

-----------------------------------------------------------------------------
(* Levels, settings and slugs.                                             *)

LEMMA UnitFacts == Unit \in Nat \ {0} /\ DefaultGain \in Levels /\ DefaultBroadcast \in Levels
                   /\ MaxOffset \in Nat
  BY MixerAssumption

LEMMA LevelFacts ==
    ASSUME NEW v \in Levels
    PROVE  clamp01(v) = v
  BY UnitFacts DEF Levels, clamp01

LEMMA AppliedLevel ==
    ASSUME NEW v \in Levels, NEW m \in BOOLEAN
    PROVE  Applied(v, m) \in Levels
  BY UnitFacts DEF Applied, Levels

LEMMA SettingFacts ==
    ASSUME NEW x \in Setting
    PROVE  x.gain \in Levels /\ x.muted \in BOOLEAN
  BY DEF Setting

LEMMA EffectiveSetting ==
    ASSUME NEW s, NEW c, NEW p, MapsTo(p, Setting)
    PROVE  effectiveSetting(s, c, p) \in Setting
<1>1. [gain |-> DefaultGain, muted |-> FALSE] \in Setting
    BY UnitFacts DEF Setting
<1>2. \A k \in DOMAIN GlobalPrefs : GlobalPrefs[k] \in Setting
    BY MixerAssumption
<1>3. QED
    BY <1>1, <1>2 DEF effectiveSetting, MapsTo

LEMMA EmptyMap == MapsTo(<<>>, Setting)
  BY DEF MapsTo

LEMMA SlugFacts == ASSUME RowsInv PROVE SlugsOf(tracks) \in SUBSET Slug
<1>1. CASE tracks = <<>>
    BY <1>1 DEF SlugsOf
<1>2. CASE tracks \in Lists
    BY <1>2 DEF Slug
<1>3. QED
    BY <1>1, <1>2 DEF RowsInv

\* Overlaying the map of the new slugs on what is kept of the old map.
LEMMA SpreadFacts ==
    ASSUME NEW S, NEW N, NEW V, NEW f \in [S -> V], NEW e \in [N -> V]
    PROVE  /\ Spread(f, e) \in [S \cup N -> V]
           /\ \A x \in N : Spread(f, e)[x] = e[x]
           /\ \A x \in S \ N : Spread(f, e)[x] = f[x]
  BY DEF Spread

LEMMA RestrictFacts ==
    ASSUME NEW S, NEW K \in SUBSET S, NEW V, NEW f \in [S -> V]
    PROVE  Restrict(f, K) \in [K -> V] /\ \A x \in K : Restrict(f, K)[x] = f[x]
  BY DEF Restrict

\* One slug's value is replaced.
LEMMA SpreadOne ==
    ASSUME NEW S, NEW V, NEW f \in [S -> V], NEW s \in S, NEW v \in V
    PROVE  Spread(f, [r \in {s} |-> v]) = [f EXCEPT ![s] = v]
  BY DEF Spread

-----------------------------------------------------------------------------
(* The graph.                                                              *)

LEMMA GraphFacts ==
    ASSUME NEW g, IsGraph(g), NEW x, NEW y
    PROVE  LET h == [g EXCEPT !.tracks = x, !.wires = y] IN
           /\ IsGraph(h) /\ h.tracks = x /\ h.wires = y
           /\ h.broadcast = g.broadcast /\ h.delay = g.delay
  BY DEF IsGraph, Fields

\* Gains t of the slugs S after those of f have been set.
Reset(S, t, f) == [s \in S |-> IF s \in DOMAIN f THEN f[s] ELSE t[s]]

LEMMA SetTrackGains ==
    ASSUME NEW g, IsGraph(g), NEW S, DOMAIN g.tracks = S,
           NEW f, \A s \in DOMAIN f : f[s] \in Levels, NEW h, h = setTrackGains(g, f)
    PROVE  /\ IsGraph(h) /\ h.wires = g.wires
           /\ h.broadcast = g.broadcast /\ h.delay = g.delay
           /\ h.tracks = Reset(S, g.tracks, f)
<1> DEFINE x == [s \in S |-> IF s \in DOMAIN f THEN clamp01(f[s]) ELSE g.tracks[s]]
<1>1. h = [g EXCEPT !.tracks = x]
    BY DEF setTrackGains
<1>2. x = Reset(S, g.tracks, f)
    BY LevelFacts DEF Reset
<1> HIDE DEF x
<1>3. /\ IsGraph(h) /\ h.wires = g.wires /\ h.tracks = x
      /\ h.broadcast = g.broadcast /\ h.delay = g.delay
    BY <1>1 DEF IsGraph, Fields
<1>4. QED
    BY <1>2, <1>3

LEMMA MountGraph ==
    /\ IsGraph(mountGraph) /\ mountGraph.broadcast = DefaultBroadcast
    /\ mountGraph.delay = 0 /\ mountGraph.tracks = <<>>
    /\ mountGraph.wires = Wired({})
<1> DEFINE g == [buildGraph EXCEPT !.broadcast = DefaultBroadcast]
           h == [g EXCEPT !.delay = 0]
<1>0. IsGraph(buildGraph) /\ buildGraph.tracks = <<>>
    BY DEF IsGraph, Fields, buildGraph
<1>1. mountGraph = h
  <2>1. setBroadcastGain(buildGraph, DefaultBroadcast) = g
    BY UnitFacts, LevelFacts DEF setBroadcastGain
  <2>2. Max({0, 0}) = 0 /\ ~(0 > MaxOffset)
    BY UnitFacts DEF Max
  <2>3. setOffsetMs(g, 0) = h
    BY <2>2 DEF setOffsetMs
  <2>4. QED
    BY <2>1, <2>3 DEF mountGraph
<1>2. /\ IsGraph(g) /\ g.broadcast = DefaultBroadcast /\ g.tracks = <<>>
      /\ g.wires = buildGraph.wires
    BY <1>0 DEF IsGraph, Fields
<1> HIDE DEF g
<1>3. /\ IsGraph(h) /\ h.broadcast = DefaultBroadcast /\ h.tracks = <<>>
      /\ h.wires = buildGraph.wires /\ h.delay = 0
    BY <1>2 DEF IsGraph, Fields
<1>4. Wired({}) = buildGraph.wires
    BY DEF Wired
<1>5. QED
    BY <1>1, <1>3, <1>4

LEMMA SharedWires ==
    buildGraph.wires = {<<Shared("source"), Shared("broadcastGain")>>,
                        <<Shared("broadcastGain"), Shared("master")>>,
                        <<Shared("cancellationSum"), Shared("sharedDelay")>>,
                        <<Shared("sharedDelay"), Shared("inverter")>>,
                        <<Shared("inverter"), Shared("master")>>,
                        <<Shared("master"), Shared("destination")>>}
  BY DEF buildGraph

SharedKinds == {"source", "broadcastGain", "master", "cancellationSum",
                "sharedDelay", "inverter", "destination"}

\* The wires of the tracks that are gone are gone, and no other.
LEMMA RemovedWires ==
    ASSUME NEW S, NEW T
    PROVE  {w \in Wired(S) : w[1] \notin UNION {{Entry(s), UserGain(s)} : s \in T}}
            = Wired(S \ T)
<1>1. \A w \in buildGraph.wires : \A s : w[1] # Entry(s) /\ w[1] # UserGain(s)
  <2>1. \A w \in buildGraph.wires : \E k, m \in SharedKinds :
            w = <<Shared(k), Shared(m)>>
    BY SharedWires, Zenon DEF SharedKinds
  <2>2. \A k \in SharedKinds : \A s : Shared(k) # Entry(s) /\ Shared(k) # UserGain(s)
    BY DEF SharedKinds, Shared, Entry, UserGain
  <2>3. QED
    BY <2>1, <2>2
<1>2. \A s : \A w \in TrackWires(s) : w[1] = Entry(s) \/ w[1] = UserGain(s)
    BY DEF TrackWires
<1>3. \A s, r : (Entry(s) = Entry(r) => s = r) /\ (UserGain(s) = UserGain(r) => s = r)
                /\ Entry(s) # UserGain(r)
    BY DEF Entry, UserGain
<1>4. ASSUME NEW w
      PROVE  w \in {v \in Wired(S) : v[1] \notin UNION {{Entry(s), UserGain(s)} : s \in T}}
                <=> w \in Wired(S \ T)
  <2>1. CASE w \in buildGraph.wires
    BY <1>1, <2>1 DEF Wired
  <2>2. CASE w \notin buildGraph.wires
    <3>1. w \in Wired(S) <=> \E s \in S : w \in TrackWires(s)
      BY <2>2 DEF Wired
    <3>2. w \in Wired(S \ T) <=> \E s \in S \ T : w \in TrackWires(s)
      BY <2>2 DEF Wired
    <3>3. \A s : w \in TrackWires(s) =>
            (w[1] \notin UNION {{Entry(r), UserGain(r)} : r \in T} <=> s \notin T)
      BY <1>2, <1>3
    <3>4. QED
      BY <3>1, <3>2, <3>3
  <2>3. QED
    BY <2>1, <2>2
<1>5. QED
    BY <1>4

LEMMA AddedWires ==
    ASSUME NEW S, NEW T
    PROVE  Wired(S) \cup UNION {TrackWires(s) : s \in T} = Wired(S \cup T)
  BY DEF Wired
-----------------------------------------------------------------------------
(* The steps.                                                              *)

LEMMA MixFacts ==
    ASSUME MixInv
    PROVE  /\ SlugsOf(tracks) \in SUBSET Slug
           /\ DOMAIN settings = SlugsOf(tracks) /\ DOMAIN graph.tracks = SlugsOf(tracks)
           /\ graph.tracks \in [SlugsOf(tracks) -> Levels]
           /\ \A s \in SlugsOf(tracks) : graph.tracks[s] = Applied(gains[s], muted[s])
<1>1. /\ gains \in [SlugsOf(tracks) -> Levels] /\ muted \in [SlugsOf(tracks) -> BOOLEAN]
      /\ settings \in [SlugsOf(tracks) -> Setting]
      /\ graph.tracks = [s \in SlugsOf(tracks) |-> Applied(gains[s], muted[s])]
    BY DEF MixInv, RowsInv, GraphInv
<1>2. \A s \in SlugsOf(tracks) : Applied(gains[s], muted[s]) \in Levels
    BY <1>1, AppliedLevel
<1>3. QED
    BY <1>1, <1>2, SlugFacts DEF MixInv

\* A new mount: no track, and the graph of mount.
LEMMA MixMount ==
    ASSUME tracks = <<>>, gains = <<>>, muted = <<>>, settings = <<>>,
           broadcastGain = DefaultBroadcast, offsetMs = 0, graph = mountGraph,
           audioLanes = {}, idToSlug = <<>>, soloed = {},
           MapsTo(streamerPrefs, Setting), MapsTo(stored, Setting)
    PROVE  MixInv
<1>1. SlugsOf(tracks) = {}
    BY DEF SlugsOf
<1>2. RowsInv
    BY <1>1, UnitFacts DEF RowsInv
<1>3. <<>> = [s \in {} |-> Applied(gains[s], muted[s])]
    OBVIOUS
<1>4. GraphInv
    BY <1>1, <1>3, MountGraph DEF GraphInv
<1>5. LaneInv
    BY <1>1 DEF LaneInv
<1>6. QED
    BY <1>1, <1>2, <1>4, <1>5 DEF MixInv, PrefInv

LEMMA MixInit == Init => MixInv
  BY EmptyMap, MixMount DEF Init

\* What mount finds in the state it has built.
LEMMA MixRemount ==
    ASSUME MixInv, Remount
    PROVE  MixInv'
<1>1. MapsTo(streamerPrefs', Setting) /\ MapsTo(stored', Setting)
    BY DEF MixInv, PrefInv, Remount
<1>2. SlugsOf(tracks') = {}
    BY DEF SlugsOf, Remount
<1>3. RowsInv'
    BY <1>2, UnitFacts DEF RowsInv, Remount
<1>4. <<>> = [s \in {} |-> Applied(gains'[s], muted'[s])]
    OBVIOUS
<1>5. GraphInv'
    BY <1>2, <1>4, MountGraph DEF GraphInv, Remount
<1>6. LaneInv'
    BY <1>2 DEF LaneInv, Remount
<1>7. QED
    BY <1>1, <1>2, <1>3, <1>5, <1>6 DEF MixInv, PrefInv, Remount

LEMMA MixAudio ==
    ASSUME MixInv, NEW id \in DOMAIN idToSlug, OnAudio(id)
    PROVE  MixInv'
<1>1. idToSlug[id] \in SlugsOf(tracks)
    BY DEF MixInv, LaneInv
<1>2. audioLanes' = audioLanes
    BY <1>1 DEF MixInv, LaneInv, OnAudio
<1>3. QED
    BY <1>2 DEF MixInv, RowsInv, GraphInv, LaneInv, PrefInv, OnAudio, sliders, prefVars, IsGraph

LEMMA MixSave ==
    ASSUME MixInv, OnSaveStreamer
    PROVE  MixInv'
<1>1. MapsTo(settings, Setting)
    BY MixFacts DEF MapsTo, MixInv, RowsInv
<1>2. stored' = settings /\ UNCHANGED <<mixVars, sliders, streamerPrefs>>
    BY DEF OnSaveStreamer
<1>3. UNCHANGED <<tracks, gains, muted, settings, graph, audioLanes, idToSlug, soloed,
                  broadcastGain, offsetMs, streamerPrefs>>
    BY <1>2 DEF mixVars, sliders
<1>4. QED
    BY <1>1, <1>2, <1>3 DEF MixInv, RowsInv, GraphInv, LaneInv, PrefInv, IsGraph

\* The two sliders that are not a track's.
LEMMA MixBroadcast ==
    ASSUME MixInv, NEW v \in Levels, OnBroadcastChange(v)
    PROVE  MixInv'
<1>1. graph' = [graph EXCEPT !.broadcast = v]
    BY LevelFacts DEF OnBroadcastChange, setBroadcastGain
<1>2. /\ IsGraph(graph') /\ graph'.broadcast = v /\ graph'.tracks = graph.tracks
      /\ graph'.wires = graph.wires /\ graph'.delay = graph.delay
    BY <1>1 DEF MixInv, GraphInv, IsGraph, Fields
<1>3. /\ broadcastGain' = v
      /\ UNCHANGED <<tracks, gains, muted, settings, audioLanes, idToSlug, soloed,
                     offsetMs, streamerPrefs, stored>>
    BY DEF OnBroadcastChange, prefVars
<1>4. QED
    BY <1>2, <1>3 DEF MixInv, RowsInv, GraphInv, LaneInv, PrefInv

LEMMA MixOffset ==
    ASSUME MixInv, NEW ms \in 0..MaxOffset, OnOffsetChange(ms)
    PROVE  MixInv'
<1>1. graph' = [graph EXCEPT !.delay = ms]
  <2>1. Max({0, ms}) = ms
    BY UnitFacts DEF Max
  <2>2. ~(ms > MaxOffset)
    BY UnitFacts
  <2>3. QED
    BY <2>1, <2>2 DEF OnOffsetChange, setOffsetMs
<1>2. /\ IsGraph(graph') /\ graph'.delay = ms /\ graph'.tracks = graph.tracks
      /\ graph'.wires = graph.wires /\ graph'.broadcast = graph.broadcast
    BY <1>1 DEF MixInv, GraphInv, IsGraph, Fields
<1>3. /\ offsetMs' = ms
      /\ UNCHANGED <<tracks, gains, muted, settings, audioLanes, idToSlug, soloed,
                     broadcastGain, streamerPrefs, stored>>
    BY DEF OnOffsetChange, prefVars
<1>4. QED
    BY <1>2, <1>3 DEF MixInv, RowsInv, GraphInv, LaneInv, PrefInv
LEMMA SetGraph ==
    ASSUME MixInv, NEW f, \A s \in DOMAIN f : f[s] \in Levels,
           graph' = setTrackGains(graph, f)
    PROVE  /\ IsGraph(graph') /\ graph'.wires = graph.wires
           /\ graph'.broadcast = graph.broadcast /\ graph'.delay = graph.delay
           /\ graph'.tracks = Reset(SlugsOf(tracks), graph.tracks, f)
<1>1. IsGraph(graph) /\ DOMAIN graph.tracks = SlugsOf(tracks)
    BY MixFacts DEF MixInv, GraphInv
<1>2. QED
    BY <1>1, SetTrackGains

\* A callback that changes rows of the panel and hands the gains of the slugs N
\* to the graph, N being at least the rows it changed.
LEMMA MixRows ==
    ASSUME MixInv, NEW N \in SUBSET SlugsOf(tracks), NEW f \in [N -> Levels],
           UNCHANGED <<tracks, audioLanes, idToSlug, broadcastGain, offsetMs,
                       streamerPrefs, stored>>,
           gains' \in [SlugsOf(tracks) -> Levels], muted' \in [SlugsOf(tracks) -> BOOLEAN],
           settings' \in [SlugsOf(tracks) -> Setting], soloed' \in SUBSET SlugsOf(tracks),
           graph' = setTrackGains(graph, f),
           \A s \in N : f[s] = Applied(gains'[s], muted'[s]),
           \A s \in SlugsOf(tracks) \ N : gains'[s] = gains[s] /\ muted'[s] = muted[s],
           \A s \in SlugsOf(tracks) :
              /\ settings'[s].gain = gains'[s]
              /\ s \notin soloed' => settings'[s].muted = muted'[s]
    PROVE  MixInv'
<1> DEFINE S == SlugsOf(tracks)
<1>0. S' = S
    OBVIOUS
<1>1. /\ IsGraph(graph') /\ graph'.wires = graph.wires
      /\ graph'.broadcast = graph.broadcast /\ graph'.delay = graph.delay
      /\ graph'.tracks = Reset(S, graph.tracks, f)
    BY SetGraph
<1>2. graph'.tracks = [s \in S |-> Applied(gains'[s], muted'[s])]
  <2>1. \A s \in S : (IF s \in DOMAIN f THEN f[s] ELSE graph.tracks[s])
                            = Applied(gains'[s], muted'[s])
    BY MixFacts
  <2>2. QED
    BY <1>1, <2>1 DEF Reset
<1>3. GraphInv'
    BY <1>0, <1>1, <1>2 DEF MixInv, GraphInv
<1>4. RowsInv'
    BY <1>0 DEF MixInv, RowsInv
<1>5. LaneInv' /\ PrefInv'
    BY <1>0 DEF MixInv, LaneInv, PrefInv
<1>6. QED
    BY <1>3, <1>4, <1>5 DEF MixInv

LEMMA MixChange ==
    ASSUME MixInv, NEW s \in SlugsOf(tracks), NEW v \in Levels, OnChange(s, v)
    PROVE  MixInv'
<1> DEFINE S == SlugsOf(tracks)
           f == [r \in {s} |-> Applied(v, muted[s])]
<1>1. /\ gains \in [S -> Levels] /\ muted \in [S -> BOOLEAN] /\ settings \in [S -> Setting]
      /\ DOMAIN settings = S
    BY MixFacts DEF MixInv, RowsInv
<1>2. /\ UNCHANGED <<tracks, muted, audioLanes, idToSlug, soloed, broadcastGain, offsetMs,
                     streamerPrefs, stored>>
      /\ settings' = [settings EXCEPT ![s].gain = v]
      /\ graph' = setTrackGains(graph, f)
    BY <1>1 DEF OnChange, sliders, prefVars
<1>3. gains' = [gains EXCEPT ![s] = v]
    BY <1>1 DEF OnChange, Spread
<1>4. f \in [{s} -> Levels] /\ f[s] = Applied(v, muted[s])
    BY <1>1, AppliedLevel
<1>5. /\ gains' \in [S -> Levels] /\ gains'[s] = v
      /\ \A r \in S \ {s} : gains'[r] = gains[r]
    BY <1>1, <1>3
<1>6. /\ settings' \in [S -> Setting] /\ settings'[s].gain = v
      /\ settings'[s].muted = settings[s].muted
      /\ \A r \in S \ {s} : settings'[r] = settings[r]
    BY <1>1, <1>2 DEF Setting
<1>7. \A r \in S : /\ settings'[r].gain = gains'[r]
                   /\ r \notin soloed' => settings'[r].muted = muted'[r]
    BY <1>2, <1>5, <1>6 DEF MixInv, PrefInv
<1>8. soloed' \in SUBSET S
    BY <1>2 DEF MixInv, PrefInv
<1> HIDE DEF f
<1> DEFINE N == {s}
<1>9. N \in SUBSET S /\ f \in [N -> Levels] /\ \A r \in N : f[r] = Applied(gains'[r], muted'[r])
    BY <1>2, <1>4, <1>5
<1>10. muted' \in [S -> BOOLEAN]
    BY <1>1, <1>2
<1>11. \A r \in S \ N : gains'[r] = gains[r] /\ muted'[r] = muted[r]
    BY <1>2, <1>5
<1> HIDE DEF N
<1>12. QED
    BY <1>2, <1>4, <1>5, <1>6, <1>7, <1>8, <1>9, <1>10, <1>11, MixRows

LEMMA MixMute ==
    ASSUME MixInv, NEW s \in SlugsOf(tracks), OnMuteToggle(s)
    PROVE  MixInv'
<1> DEFINE S == SlugsOf(tracks)
           m == ~muted[s]
           f == [r \in {s} |-> Applied(gains[s], m)]
<1>1. /\ gains \in [S -> Levels] /\ muted \in [S -> BOOLEAN] /\ settings \in [S -> Setting]
      /\ DOMAIN settings = S
    BY MixFacts DEF MixInv, RowsInv
<1>2. /\ UNCHANGED <<tracks, gains, audioLanes, idToSlug, broadcastGain, offsetMs,
                     streamerPrefs, stored>>
      /\ settings' = [settings EXCEPT ![s].muted = m]
      /\ graph' = setTrackGains(graph, f) /\ soloed' = soloed \ {s}
      /\ muted' = Spread(muted, [r \in {s} |-> m])
    BY <1>1 DEF OnMuteToggle, sliders, prefVars
<1>a. m \in BOOLEAN
    BY <1>1
<1> HIDE DEF m
<1>3. muted' = [muted EXCEPT ![s] = m]
    BY <1>1, <1>2, <1>a DEF Spread
<1>4. f \in [{s} -> Levels] /\ f[s] = Applied(gains[s], m)
    BY <1>1, <1>a, AppliedLevel
<1>5. /\ muted' \in [S -> BOOLEAN] /\ muted'[s] = m
      /\ \A r \in S \ {s} : muted'[r] = muted[r]
    BY <1>1, <1>3, <1>a
<1>6. /\ settings' \in [S -> Setting] /\ settings'[s].muted = m
      /\ settings'[s].gain = settings[s].gain
      /\ \A r \in S \ {s} : settings'[r] = settings[r]
    BY <1>1, <1>2, <1>a DEF Setting
<1>7. \A r \in S : /\ settings'[r].gain = gains'[r]
                   /\ r \notin soloed' => settings'[r].muted = muted'[r]
    BY <1>2, <1>5, <1>6 DEF MixInv, PrefInv
<1>8. soloed' \in SUBSET S
    BY <1>2 DEF MixInv, PrefInv
<1> HIDE DEF f
<1> DEFINE N == {s}
<1>9. N \in SUBSET S /\ f \in [N -> Levels] /\ \A r \in N : f[r] = Applied(gains'[r], muted'[r])
    BY <1>2, <1>4, <1>5
<1>10. gains' \in [S -> Levels]
    BY <1>1, <1>2
<1>11. \A r \in S \ N : gains'[r] = gains[r] /\ muted'[r] = muted[r]
    BY <1>2, <1>5
<1> HIDE DEF N
<1>12. QED
  <2>1. muted' \in [S -> BOOLEAN] /\ settings' \in [S -> Setting]
    BY <1>5, <1>6
  <2>2. /\ UNCHANGED <<tracks, audioLanes, idToSlug, broadcastGain, offsetMs,
                       streamerPrefs, stored>>
        /\ graph' = setTrackGains(graph, f)
    BY <1>2
  <2>3. QED
    BY <2>1, <2>2, <1>7, <1>8, <1>9, <1>10, <1>11, MixRows

LEMMA MixSolo ==
    ASSUME MixInv, NEW s \in SlugsOf(tracks), OnSoloToggle(s)
    PROVE  MixInv'
<1> DEFINE S == SlugsOf(tracks)
           m == [r \in S |-> r # s]
           f == [r \in S |-> Applied(gains[r], m[r])]
<1>1. /\ gains \in [S -> Levels] /\ settings \in [S -> Setting]
    BY DEF MixInv, RowsInv
<1>2. /\ UNCHANGED <<tracks, gains, settings, audioLanes, idToSlug, broadcastGain, offsetMs,
                     streamerPrefs, stored>>
      /\ graph' = setTrackGains(graph, f) /\ soloed' = S /\ muted' = m
    BY DEF OnSoloToggle, sliders, prefVars
<1>3. m \in [S -> BOOLEAN]
    BY Zenon
<1> HIDE DEF m
<1>4. f \in [S -> Levels] /\ \A r \in S : f[r] = Applied(gains'[r], muted'[r])
    BY <1>1, <1>2, <1>3, AppliedLevel
<1>5. \A r \in S : settings'[r].gain = gains'[r]
    BY <1>2 DEF MixInv, PrefInv
<1> HIDE DEF f
<1>6. /\ gains' \in [S -> Levels] /\ muted' \in [S -> BOOLEAN] /\ settings' \in [S -> Setting]
      /\ soloed' \in SUBSET S /\ S \in SUBSET S
      /\ \A r \in S \ S : gains'[r] = gains[r] /\ muted'[r] = muted[r]
      /\ \A r \in S : r \notin soloed' => settings'[r].muted = muted'[r]
    BY <1>1, <1>2, <1>3
<1>7. QED
    BY <1>2, <1>4, <1>5, <1>6, MixRows

LEMMA MixReset ==
    ASSUME MixInv, OnReset
    PROVE  MixInv'
<1> DEFINE S == SlugsOf(tracks)
           eff == [s \in S |-> ResetSetting(s)]
           f == [s \in S |-> Applied(eff[s].gain, eff[s].muted)]
<1>1. eff \in [S -> Setting] /\ settings \in [S -> Setting]
    BY EmptyMap, EffectiveSetting DEF ResetSetting, MixInv, RowsInv
<1>2. /\ UNCHANGED <<tracks, audioLanes, idToSlug, broadcastGain, offsetMs, streamerPrefs, stored>>
      /\ gains' = [s \in S |-> eff[s].gain] /\ muted' = [s \in S |-> eff[s].muted]
      /\ settings' = Spread(settings, eff)
      /\ graph' = setTrackGains(graph, f) /\ soloed' = {}
    BY DEF OnReset, ResetSettings, sliders, prefVars
<1> HIDE DEF eff
<1>3. gains' \in [S -> Levels] /\ muted' \in [S -> BOOLEAN]
    BY <1>1, <1>2, SettingFacts
<1>4. f \in [S -> Levels] /\ \A s \in S : f[s] = Applied(gains'[s], muted'[s])
    BY <1>1, <1>2, SettingFacts, AppliedLevel
<1>5. settings' \in [S -> Setting] /\ \A s \in S : settings'[s] = eff[s]
  <2>1. S \cup S = S
    OBVIOUS
  <2>2. QED
    BY <1>1, <1>2, <2>1 DEF Spread
<1>6. \A s \in S : settings'[s].gain = gains'[s] /\ settings'[s].muted = muted'[s]
    BY <1>2, <1>5
<1> HIDE DEF f
<1>7. /\ soloed' \in SUBSET S /\ S \in SUBSET S
      /\ \A r \in S \ S : gains'[r] = gains[r] /\ muted'[r] = muted[r]
    BY <1>2
<1>8. QED
    BY <1>2, <1>3, <1>4, <1>5, <1>6, <1>7, MixRows
-----------------------------------------------------------------------------
(* A track list.                                                           *)

LEMMA RemoveTracks ==
    ASSUME NEW g, IsGraph(g), NEW S, DOMAIN g.tracks = S, g.wires = Wired(S),
           NEW T, NEW K, K = S \ T, NEW h, h = removeTracks(g, T)
    PROVE  /\ IsGraph(h) /\ h.wires = Wired(K)
           /\ h.broadcast = g.broadcast /\ h.delay = g.delay
           /\ h.tracks = Restrict(g.tracks, K)
<1> DEFINE x == Restrict(g.tracks, K)
           y == {w \in g.wires : w[1] \notin UNION {{Entry(s), UserGain(s)} : s \in T}}
<1>1. h = [g EXCEPT !.tracks = x, !.wires = y]
    BY DEF removeTracks
<1>2. y = Wired(K)
    BY RemovedWires
<1> HIDE DEF x, y
<1>3. /\ IsGraph(h) /\ h.wires = y /\ h.tracks = x
      /\ h.broadcast = g.broadcast /\ h.delay = g.delay
    BY <1>1 DEF IsGraph, Fields
<1>4. QED
    BY <1>2, <1>3 DEF x

LEMMA AddTracks ==
    ASSUME NEW g, IsGraph(g), NEW S, DOMAIN g.tracks = S, g.wires = Wired(S),
           NEW N, N \cap S = {}, NEW h, h = addTracks(g, N)
    PROVE  /\ IsGraph(h) /\ h.wires = Wired(S \cup N)
           /\ h.broadcast = g.broadcast /\ h.delay = g.delay
           /\ h.tracks = Spread(g.tracks, [s \in N |-> DefaultGain])
<1> DEFINE x == Spread(g.tracks, [s \in N |-> DefaultGain])
           y == g.wires \cup UNION {TrackWires(s) : s \in N}
<1>0. N \ DOMAIN g.tracks = N
    OBVIOUS
<1>1. h = [g EXCEPT !.tracks = x, !.wires = y]
    BY <1>0 DEF addTracks
<1>2. y = Wired(S \cup N)
    BY AddedWires
<1> HIDE DEF x, y
<1>3. /\ IsGraph(h) /\ h.wires = y /\ h.tracks = x
      /\ h.broadcast = g.broadcast /\ h.delay = g.delay
    BY <1>1 DEF IsGraph, Fields
<1>4. QED
    BY <1>2, <1>3 DEF x

\* The index leads to the announced slugs: wire ids are distinct.
LEMMA IndexTracks ==
    ASSUME NEW l \in Lists, NEW known
    PROVE  {indexTracks(known, l)[n] : n \in DOMAIN indexTracks(known, l)} = SlugsOf(l)
<1> DEFINE at(n) == CHOOSE i \in 1..Len(l) : l[i].id = n
<1>1. \A i, j \in 1..Len(l) : l[i].id = l[j].id => i = j
    BY MixerAssumption
<1>2. \A i \in 1..Len(l) : at(l[i].id) = i
    BY <1>1
<1>3. \A n \in TrackIds(l) : \E i \in 1..Len(l) : n = l[i].id
    BY DEF TrackIds
<1>4. \A i \in 1..Len(l) : l[i].id \in TrackIds(l)
    BY DEF TrackIds
<1>5. indexTracks(known, l) = [n \in TrackIds(l) |-> l[at(n)].slug]
    BY DEF indexTracks
<1> HIDE DEF at
<1>6. {l[at(n)].slug : n \in TrackIds(l)} = {l[i].slug : i \in 1..Len(l)}
    BY <1>2, <1>3, <1>4
<1>7. QED
    BY <1>5, <1>6 DEF SlugsOf

\* The setting a new slug gets, by its first row.
NewSetting(l, s) == effectiveSetting(s, l[Min(Rows(l, s))].category, streamerPrefs)

LEMMA NewAndKept ==
    ASSUME MixInv, NEW l
    PROVE  /\ Kept(l) = SlugsOf(tracks) \cap SlugsOf(l)
           /\ New(l) = SlugsOf(l) \ SlugsOf(tracks)
  BY MixFacts DEF Kept, New

\* The maps after a track list, slug by slug.
LEMMA ListedRows ==
    ASSUME MixInv, NEW l \in Lists, OnTrackList(l)
    PROVE  /\ gains' \in [SlugsOf(l) -> Levels] /\ muted' \in [SlugsOf(l) -> BOOLEAN]
           /\ settings' \in [SlugsOf(l) -> Setting]
           /\ \A s \in SlugsOf(tracks) \cap SlugsOf(l) :
                gains'[s] = gains[s] /\ muted'[s] = muted[s] /\ settings'[s] = settings[s]
           /\ \A s \in SlugsOf(l) \ SlugsOf(tracks) :
                /\ NewSetting(l, s) \in Setting /\ settings'[s] = NewSetting(l, s)
                /\ gains'[s] = NewSetting(l, s).gain /\ muted'[s] = NewSetting(l, s).muted
<1> DEFINE S == SlugsOf(tracks)
           L == SlugsOf(l)
           K == Kept(l)
           N == New(l)
           eff == [s \in N |-> NewSetting(l, s)]
           G == [s \in N |-> eff[s].gain]
           M == [s \in N |-> eff[s].muted]
<1>1. K = S \cap L /\ N = L \ S
    BY NewAndKept
<1>2. /\ gains \in [S -> Levels] /\ muted \in [S -> BOOLEAN] /\ settings \in [S -> Setting]
    BY DEF MixInv, RowsInv
<1>3. \A s : NewSetting(l, s) \in Setting
    BY EffectiveSetting DEF NewSetting, MixInv, PrefInv
<1>4. /\ settings' = Spread(Restrict(settings, K), eff)
      /\ gains' = Spread(Restrict(gains, K), G)
      /\ muted' = Spread(Restrict(muted, K), M)
    BY DEF OnTrackList, NewSetting
<1>5. eff \in [N -> Setting] /\ \A s \in N : eff[s] = NewSetting(l, s)
    BY <1>3
<1>6. G \in [N -> Levels] /\ M \in [N -> BOOLEAN]
    BY <1>3, SettingFacts
<1>7. \A s \in N : G[s] = NewSetting(l, s).gain /\ M[s] = NewSetting(l, s).muted
    BY <1>5
<1> HIDE DEF eff, G, M, K, N, S, L
<1>8. K \in SUBSET S /\ K \cup N = L /\ K \cap N = {}
    BY <1>1
<1>9. /\ Restrict(settings, K) \in [K -> Setting] /\ Restrict(gains, K) \in [K -> Levels]
      /\ Restrict(muted, K) \in [K -> BOOLEAN]
      /\ \A s \in K : Restrict(settings, K)[s] = settings[s]
      /\ \A s \in K : Restrict(gains, K)[s] = gains[s]
      /\ \A s \in K : Restrict(muted, K)[s] = muted[s]
    BY <1>2, <1>8 DEF Restrict
<1>10. /\ settings' \in [L -> Setting] /\ \A s \in N : settings'[s] = eff[s]
       /\ \A s \in K : settings'[s] = settings[s]
    BY <1>4, <1>5, <1>8, <1>9 DEF Spread
<1>11. /\ gains' \in [L -> Levels] /\ \A s \in N : gains'[s] = G[s]
       /\ \A s \in K : gains'[s] = gains[s]
    BY <1>4, <1>6, <1>8, <1>9 DEF Spread
<1>12. /\ muted' \in [L -> BOOLEAN] /\ \A s \in N : muted'[s] = M[s]
       /\ \A s \in K : muted'[s] = muted[s]
    BY <1>4, <1>6, <1>8, <1>9 DEF Spread
<1>13. QED
    BY <1>1, <1>3, <1>5, <1>7, <1>10, <1>11, <1>12 DEF S, L

\* The graph after a track list.
LEMMA ListedGraph ==
    ASSUME MixInv, NEW l \in Lists, OnTrackList(l)
    PROVE  /\ IsGraph(graph') /\ graph'.wires = Wired(SlugsOf(l))
           /\ graph'.broadcast = graph.broadcast /\ graph'.delay = graph.delay
           /\ graph'.tracks = [s \in SlugsOf(l) |-> Applied(gains'[s], muted'[s])]
<1> DEFINE S == SlugsOf(tracks)
           L == SlugsOf(l)
           N == New(l)
           f == [s \in N |-> Applied(NewSetting(l, s).gain, NewSetting(l, s).muted)]
           g1 == removeTracks(graph, S \ L)
           g2 == addTracks(g1, N)
<1>1. graph' = setTrackGains(g2, f)
    BY DEF OnTrackList, NewSetting
<1>2. N = L \ S /\ S \ (S \ L) = S \cap L /\ N \cap (S \cap L) = {} /\ (S \cap L) \cup N = L
    BY NewAndKept
<1>3. IsGraph(graph) /\ DOMAIN graph.tracks = S /\ graph.wires = Wired(S)
    BY MixFacts DEF MixInv, GraphInv
<1>4. \A s \in DOMAIN f : f[s] \in Levels
    BY <1>2, ListedRows, SettingFacts, AppliedLevel
<1>5. DOMAIN f = N /\ \A s \in N : f[s] = Applied(gains'[s], muted'[s])
    BY <1>2, ListedRows
<1> HIDE DEF f, N, L, S
<1>6. /\ IsGraph(g1) /\ g1.wires = Wired(S \cap L)
      /\ g1.broadcast = graph.broadcast /\ g1.delay = graph.delay
      /\ g1.tracks = Restrict(graph.tracks, S \cap L)
  <2> DEFINE T == S \ L
             K == S \cap L
  <2>1. g1 = removeTracks(graph, T) /\ K = S \ T
    BY <1>2
  <2> HIDE DEF T, K, g1
  <2>2. /\ IsGraph(g1) /\ g1.wires = Wired(K)
        /\ g1.broadcast = graph.broadcast /\ g1.delay = graph.delay
        /\ g1.tracks = Restrict(graph.tracks, K)
    BY <1>3, <2>1, RemoveTracks
  <2>3. QED
    BY <2>2 DEF K
<1> HIDE DEF g1
<1>7. DOMAIN g1.tracks = S \cap L
    BY <1>6 DEF Restrict
<1>8. /\ IsGraph(g2) /\ g2.wires = Wired(L)
      /\ g2.broadcast = graph.broadcast /\ g2.delay = graph.delay
      /\ g2.tracks = Spread(g1.tracks, [s \in N |-> DefaultGain])
  <2> DEFINE K == S \cap L
  <2>1. /\ IsGraph(g1) /\ g1.wires = Wired(K) /\ DOMAIN g1.tracks = K
        /\ N \cap K = {} /\ K \cup N = L
    BY <1>2, <1>6, <1>7
  <2>2. g2 = addTracks(g1, N)
    OBVIOUS
  <2> HIDE DEF K, g2
  <2>3. /\ IsGraph(g2) /\ g2.wires = Wired(K \cup N)
        /\ g2.broadcast = g1.broadcast /\ g2.delay = g1.delay
        /\ g2.tracks = Spread(g1.tracks, [s \in N |-> DefaultGain])
    BY <2>1, <2>2, AddTracks
  <2>4. QED
    BY <1>6, <2>1, <2>3
<1> HIDE DEF g2
<1>9. DOMAIN g2.tracks = L
    BY <1>2, <1>7, <1>8 DEF Spread
<1>10. /\ IsGraph(graph') /\ graph'.wires = Wired(L)
       /\ graph'.broadcast = graph.broadcast /\ graph'.delay = graph.delay
       /\ graph'.tracks = Reset(L, g2.tracks, f)
    BY <1>1, <1>4, <1>8, <1>9, SetTrackGains
<1>11. \A s \in S \cap L : g2.tracks[s] = Applied(gains'[s], muted'[s])
  <2>1. \A s \in S \cap L : g1.tracks[s] = graph.tracks[s]
    BY <1>6 DEF Restrict
  <2>2. \A s \in S \cap L : g2.tracks[s] = g1.tracks[s]
    BY <1>2, <1>7, <1>8 DEF Spread
  <2>3. QED
    BY <2>1, <2>2, MixFacts, ListedRows DEF S, L
<1>12. graph'.tracks = [s \in L |-> Applied(gains'[s], muted'[s])]
  <2>1. \A s \in L : (IF s \in DOMAIN f THEN f[s] ELSE g2.tracks[s]) = Applied(gains'[s], muted'[s])
    BY <1>2, <1>5, <1>11
  <2>2. QED
    BY <1>10, <2>1 DEF Reset
<1>13. QED
    BY <1>10, <1>12 DEF L

LEMMA MixList ==
    ASSUME MixInv, NEW l \in Lists, OnTrackList(l)
    PROVE  MixInv'
<1> DEFINE S == SlugsOf(tracks)
           L == SlugsOf(l)
<1>0. /\ tracks' = l /\ UNCHANGED <<broadcastGain, offsetMs, streamerPrefs, stored>>
      /\ idToSlug' = indexTracks(idToSlug, l)
    BY DEF OnTrackList, sliders, prefVars
<1>1. SlugsOf(tracks)' = L
    BY <1>0
<1>2. RowsInv'
    BY <1>0, <1>1, ListedRows DEF RowsInv, MixInv
<1>3. GraphInv'
  <2>1. graph'.broadcast = broadcastGain' /\ graph'.delay = offsetMs'
    BY <1>0, ListedGraph DEF MixInv, GraphInv
  <2>2. QED
    BY <1>1, <2>1, ListedGraph DEF GraphInv
<1>4. LaneInv'
  <2>1. audioLanes' = (audioLanes \ (S \ L)) \cup (IF HasDecoder THEN L \ S ELSE {})
    BY NewAndKept DEF OnTrackList
  <2>2. audioLanes' = IF HasDecoder THEN L ELSE {}
    BY <2>1 DEF MixInv, LaneInv
  <2>3. {idToSlug'[n] : n \in DOMAIN idToSlug'} = L
    BY <1>0, IndexTracks
  <2>4. QED
    BY <1>1, <2>2, <2>3 DEF LaneInv
<1>5. PrefInv'
  <2>1. soloed' = soloed \cap ((S \cap L) \ (L \ S))
    BY NewAndKept DEF OnTrackList
  <2>2. soloed' \in SUBSET L
    BY <2>1
  <2>3. ASSUME NEW s \in L
        PROVE  /\ settings'[s].gain = gains'[s]
               /\ s \notin soloed' => settings'[s].muted = muted'[s]
    <3>1. CASE s \in S
      BY <2>1, <3>1, ListedRows DEF MixInv, PrefInv
    <3>2. CASE s \notin S
      BY <3>2, ListedRows
    <3>3. QED
      BY <3>1, <3>2
  <2>4. QED
    BY <1>0, <1>1, <2>2, <2>3 DEF PrefInv, MixInv
<1>6. QED
    BY <1>2, <1>3, <1>4, <1>5 DEF MixInv
-----------------------------------------------------------------------------
(* The invariant and what follows from it.                                 *)

LEMMA MixStep == MixInv /\ [Next]_vars => MixInv'
<1> SUFFICES ASSUME MixInv, [Next]_vars PROVE MixInv'
    OBVIOUS
<1>1. CASE UNCHANGED vars
  <2>1. UNCHANGED <<tracks, gains, muted, settings, graph, audioLanes, idToSlug, soloed,
                    broadcastGain, offsetMs, streamerPrefs, stored>>
    BY <1>1 DEF vars, mixVars, sliders, prefVars
  <2>2. QED
    BY <2>1 DEF MixInv, RowsInv, GraphInv, LaneInv, PrefInv, IsGraph
<1>2. CASE Panel
    BY <1>2, MixChange, MixMute, MixSolo, MixBroadcast, MixOffset, MixReset, MixSave
       DEF Panel, SliderInput, ClickIcon
<1>3. QED
    BY <1>1, <1>2, MixList, MixAudio, MixRemount DEF Next

LEMMA MixInvariant == Spec => []MixInv
  BY MixInit, MixStep, PTL DEF Spec

\* The nodes, sliders, settings, lanes and wire ids are those of the announced
\* tracks after any callbacks, for any track lists and any preferences.
THEOREM PlumbedHolds == Spec => []Plumbed
<1>1. MixInv => Plumbed
  <2> SUFFICES ASSUME MixInv PROVE Plumbed
    OBVIOUS
  <2> DEFINE S == SlugsOf(tracks)
  <2>1. TypeOK
    <3>1. /\ MapsTo(gains, Levels) /\ MapsTo(muted, BOOLEAN) /\ MapsTo(settings, Setting)
          /\ MapsTo(graph.tracks, Levels)
      BY MixFacts DEF MapsTo, MixInv, RowsInv
    <3>2. graph.broadcast \in Levels /\ graph.delay \in 0..MaxOffset
      BY DEF MixInv, RowsInv, GraphInv
    <3>3. audioLanes \in SUBSET Slug /\ \A n \in DOMAIN idToSlug : idToSlug[n] \in Slug
      BY MixFacts DEF MixInv, LaneInv
    <3>4. QED
      BY <3>1, <3>2, <3>3, MixFacts DEF TypeOK, MixInv, RowsInv, PrefInv
  <2>2. {DOMAIN graph.tracks, DOMAIN settings, DOMAIN gains, DOMAIN muted} = {S}
    BY MixFacts DEF MixInv, RowsInv
  <2>3. {w[1][2] : w \in graph.wires} = S \cup {""}
    <3>1. graph.wires = Wired(S)
      BY DEF MixInv, GraphInv
    <3>2. \A w \in buildGraph.wires : w[1][2] = ""
      <4>1. \A w \in buildGraph.wires : \E k, m \in SharedKinds : w = <<Shared(k), Shared(m)>>
        BY SharedWires, Zenon DEF SharedKinds
      <4>2. \A k, m \in SharedKinds : <<Shared(k), Shared(m)>>[1][2] = ""
        BY DEF Shared
      <4>3. ASSUME NEW w \in buildGraph.wires PROVE w[1][2] = ""
        <5>1. PICK k \in SharedKinds, m \in SharedKinds : w = <<Shared(k), Shared(m)>>
          BY <4>1
        <5>2. w[1][2] = <<Shared(k), Shared(m)>>[1][2]
          BY <5>1
        <5>3. QED
          BY <4>2, <5>2
      <4>4. QED
        BY <4>3
    <3>3. \A s : \A w \in TrackWires(s) : w[1][2] = s
      BY DEF TrackWires, Entry, UserGain
    <3>4. /\ <<Shared("master"), Shared("destination")>> \in buildGraph.wires
          /\ \A s : <<Entry(s), UserGain(s)>> \in TrackWires(s)
      BY SharedWires DEF TrackWires
    <3>5. ASSUME NEW w \in Wired(S) PROVE w[1][2] \in S \cup {""}
      BY <3>2, <3>3 DEF Wired
    <3>6. \E w \in Wired(S) : w[1][2] = ""
      BY <3>2, <3>4 DEF Wired
    <3>7. ASSUME NEW s \in S PROVE \E w \in Wired(S) : w[1][2] = s
      BY <3>3, <3>4 DEF Wired
    <3>8. QED
      BY <3>1, <3>5, <3>6, <3>7
  <2>4. QED
    BY <2>1, <2>2, <2>3 DEF Plumbed, MixInv, LaneInv
<1>2. QED
    BY <1>1, MixInvariant, PTL

\* What Save stores is what the panel shows, but for the mutes of solo.
THEOREM SavedIsShownHolds == Spec => []SavedIsShown
<1>1. MixInv => SavedIsShown
    BY DEF MixInv, PrefInv, SavedIsShown
<1>2. QED
    BY <1>1, MixInvariant, PTL

\* A track that a new announcement keeps keeps its slider, mute and gain.
THEOREM ReannounceKeepsMixHolds == Spec => ReannounceKeepsMix
<1> DEFINE Keeps == \A l \in Lists : OnTrackList(l) =>
        \A s \in SlugsOf(tracks) \cap SlugsOf(l) :
            /\ gains'[s] = gains[s] /\ muted'[s] = muted[s]
            /\ graph'.tracks[s] = graph.tracks[s]
<1>1. MixInv => Keeps
  <2> SUFFICES ASSUME MixInv, NEW l \in Lists, OnTrackList(l),
                      NEW s \in SlugsOf(tracks) \cap SlugsOf(l)
               PROVE  /\ gains'[s] = gains[s] /\ muted'[s] = muted[s]
                      /\ graph'.tracks[s] = graph.tracks[s]
    OBVIOUS
  <2>1. gains'[s] = gains[s] /\ muted'[s] = muted[s]
    BY ListedRows
  <2>2. graph'.tracks[s] = Applied(gains'[s], muted'[s])
    BY ListedGraph
  <2>3. QED
    BY <2>1, <2>2, MixFacts
<1>2. Spec => [][Keeps]_vars
    BY <1>1, MixInvariant, PTL DEF Spec
<1>3. QED
    BY <1>2 DEF ReannounceKeepsMix

\* A track that appears gets the setting saved for it, whatever its category.
THEOREM OverrideWinsHolds == Spec => OverrideWins
<1> DEFINE Wins == \A l \in Lists : OnTrackList(l) /\ streamerPrefs = stored =>
        \A s \in SlugsOf(l) \ SlugsOf(tracks) :
            s \in DOMAIN stored =>
                /\ settings'[s] = stored[s]
                /\ graph'.tracks[s] = IF stored[s].muted THEN 0 ELSE stored[s].gain
<1>1. MixInv => Wins
  <2> SUFFICES ASSUME MixInv, NEW l \in Lists, OnTrackList(l), streamerPrefs = stored,
                      NEW s \in SlugsOf(l) \ SlugsOf(tracks), s \in DOMAIN stored
               PROVE  /\ settings'[s] = stored[s]
                      /\ graph'.tracks[s] = IF stored[s].muted THEN 0 ELSE stored[s].gain
    OBVIOUS
  <2>1. NewSetting(l, s) = stored[s]
    BY DEF NewSetting, effectiveSetting
  <2>2. settings'[s] = stored[s] /\ gains'[s] = stored[s].gain /\ muted'[s] = stored[s].muted
    BY <2>1, ListedRows
  <2>3. graph'.tracks[s] = Applied(gains'[s], muted'[s])
    BY ListedGraph
  <2>4. QED
    BY <2>2, <2>3 DEF Applied
<1>2. Spec => [][Wins]_vars
    BY <1>1, MixInvariant, PTL DEF Spec
<1>3. QED
    BY <1>2 DEF OverrideWins
-----------------------------------------------------------------------------
(* What is heard.                                                          *)

\* The nodes that node n is wired to.
Ahead(n) == {w[2] : w \in {w \in graph.wires : w[1] = n}}

LEMMA NodeFacts ==
    /\ \A k, m : Shared(k) = Shared(m) => k = m
    /\ \A s, r : UserGain(s) = UserGain(r) => s = r
    /\ \A s, r : Entry(s) = Entry(r) => s = r
    /\ \A s, r : Entry(s) # UserGain(r)
    /\ \A k \in SharedKinds : \A s : Shared(k) # UserGain(s) /\ Shared(k) # Entry(s)
  BY DEF Shared, UserGain, Entry, SharedKinds

LEMMA AheadShared ==
    ASSUME GraphInv
    PROVE  /\ Ahead(Shared("source")) = {Shared("broadcastGain")}
           /\ Ahead(Shared("broadcastGain")) = {Shared("master")}
           /\ Ahead(Shared("cancellationSum")) = {Shared("sharedDelay")}
           /\ Ahead(Shared("sharedDelay")) = {Shared("inverter")}
           /\ Ahead(Shared("inverter")) = {Shared("master")}
           /\ Ahead(Shared("master")) = {Shared("destination")}
<1>1. graph.wires = buildGraph.wires \cup UNION {TrackWires(s) : s \in SlugsOf(tracks)}
    BY DEF GraphInv, Wired
<1>2. \A s : \A w \in TrackWires(s) : \A k \in SharedKinds : w[1] # Shared(k)
    BY NodeFacts DEF TrackWires
<1>3. ASSUME NEW k \in SharedKinds, NEW m \in SharedKinds,
             <<Shared(k), Shared(m)>> \in buildGraph.wires,
             \A w \in buildGraph.wires : w[1] = Shared(k) => w[2] = Shared(m)
      PROVE  Ahead(Shared(k)) = {Shared(m)}
  <2>1. \A w \in graph.wires : w[1] = Shared(k) => w[2] = Shared(m)
    BY <1>1, <1>2, <1>3
  <2>2. <<Shared(k), Shared(m)>> \in graph.wires
    BY <1>1, <1>3
  <2> DEFINE v == <<Shared(k), Shared(m)>>
  <2>3. v \in graph.wires /\ v[1] = Shared(k) /\ v[2] = Shared(m)
    BY <2>2
  <2> HIDE DEF v
  <2>4. QED
    BY <2>1, <2>3 DEF Ahead
<1>4. \A w \in buildGraph.wires :
        /\ w[1] = Shared("source") => w[2] = Shared("broadcastGain")
        /\ w[1] = Shared("broadcastGain") => w[2] = Shared("master")
        /\ w[1] = Shared("cancellationSum") => w[2] = Shared("sharedDelay")
        /\ w[1] = Shared("sharedDelay") => w[2] = Shared("inverter")
        /\ w[1] = Shared("inverter") => w[2] = Shared("master")
        /\ w[1] = Shared("master") => w[2] = Shared("destination")
    BY SharedWires, NodeFacts
<1>5. /\ <<Shared("source"), Shared("broadcastGain")>> \in buildGraph.wires
      /\ <<Shared("broadcastGain"), Shared("master")>> \in buildGraph.wires
      /\ <<Shared("cancellationSum"), Shared("sharedDelay")>> \in buildGraph.wires
      /\ <<Shared("sharedDelay"), Shared("inverter")>> \in buildGraph.wires
      /\ <<Shared("inverter"), Shared("master")>> \in buildGraph.wires
      /\ <<Shared("master"), Shared("destination")>> \in buildGraph.wires
    BY SharedWires
<1>6. /\ "source" \in SharedKinds /\ "broadcastGain" \in SharedKinds
      /\ "cancellationSum" \in SharedKinds /\ "sharedDelay" \in SharedKinds
      /\ "inverter" \in SharedKinds /\ "master" \in SharedKinds
      /\ "destination" \in SharedKinds
    BY DEF SharedKinds
<1>7. QED
    BY <1>3, <1>4, <1>5, <1>6

LEMMA AheadTrack ==
    ASSUME GraphInv, NEW s \in SlugsOf(tracks)
    PROVE  /\ Ahead(UserGain(s)) = {Shared("master")}
           /\ Ahead(Entry(s)) = {UserGain(s), Shared("cancellationSum")}
<1>1. graph.wires = buildGraph.wires \cup UNION {TrackWires(r) : r \in SlugsOf(tracks)}
    BY DEF GraphInv, Wired
<1>2. \A w \in buildGraph.wires : w[1] # Entry(s) /\ w[1] # UserGain(s)
  <2>1. \A k, m \in SharedKinds : /\ <<Shared(k), Shared(m)>>[1] # Entry(s)
                                  /\ <<Shared(k), Shared(m)>>[1] # UserGain(s)
    BY NodeFacts
  <2>2. \A w \in buildGraph.wires : \E k, m \in SharedKinds : w = <<Shared(k), Shared(m)>>
    BY SharedWires, Zenon DEF SharedKinds
  <2>3. QED
    BY <2>1, <2>2
<1>3. \A r : \A w \in TrackWires(r) :
        /\ w[1] = UserGain(s) => w[2] = Shared("master")
        /\ w[1] = Entry(s) => w[2] \in {UserGain(s), Shared("cancellationSum")}
    BY NodeFacts DEF TrackWires
<1>4. \A w \in graph.wires :
        /\ w[1] = UserGain(s) => w[2] = Shared("master")
        /\ w[1] = Entry(s) => w[2] \in {UserGain(s), Shared("cancellationSum")}
    BY <1>1, <1>2, <1>3
<1>5. /\ \E w \in graph.wires : w[1] = UserGain(s) /\ w[2] = Shared("master")
      /\ \E w \in graph.wires : w[1] = Entry(s) /\ w[2] = UserGain(s)
      /\ \E w \in graph.wires : w[1] = Entry(s) /\ w[2] = Shared("cancellationSum")
  <2>1. /\ <<UserGain(s), Shared("master")>> \in graph.wires
        /\ <<Entry(s), UserGain(s)>> \in graph.wires
        /\ <<Entry(s), Shared("cancellationSum")>> \in graph.wires
    BY <1>1 DEF TrackWires
  <2>2. QED
    BY <2>1
<1>6. QED
    BY <1>4, <1>5 DEF Ahead
LEMMA Scaled ==
    ASSUME NEW g \in Int
    PROVE  (g * Unit) \div Unit = g /\ (Unit * g) \div Unit = g
  BY UnitFacts

\* A copy with gain g and delay d, past node n.
Passed(n, g) == (NodeGain(n) * g) \div Unit
Later(n, d) == NodeDelay(n) + d

\* A node with one wire passes the copy it gets, scaled and delayed.
LEMMA OnwardOne ==
    ASSUME NEW c, NEW n, n # Shared("destination"), NEW m, Ahead(n) = {m},
           NEW g, NEW d, c[m] = {<<g, d>>}
    PROVE  Onward(c, n) = {<<Passed(n, g), Later(n, d)>>}
<1> DEFINE X == UNION {c[w[2]] : w \in {w \in graph.wires : w[1] = n}}
<1>1. X = UNION {c[k] : k \in Ahead(n)}
    BY DEF Ahead
<1>2. X = {<<g, d>>}
    BY <1>1
<1>3. Onward(c, n) = {<<Passed(n, x[1]), Later(n, x[2])>> : x \in X}
    BY DEF Onward, Passed, Later
<1> HIDE DEF X
<1>4. QED
    BY <1>2, <1>3

LEMMA NodeValues ==
    ASSUME MixInv
    PROVE  /\ NodeGain(Shared("master")) = Unit /\ NodeDelay(Shared("master")) = 0
           /\ NodeGain(Shared("inverter")) = -Unit /\ NodeDelay(Shared("inverter")) = 0
           /\ NodeGain(Shared("sharedDelay")) = Unit
           /\ NodeDelay(Shared("sharedDelay")) = offsetMs
           /\ NodeGain(Shared("cancellationSum")) = Unit
           /\ NodeDelay(Shared("cancellationSum")) = 0
           /\ NodeGain(Shared("broadcastGain")) = broadcastGain
           /\ NodeDelay(Shared("broadcastGain")) = 0
           /\ NodeGain(Shared("source")) = Unit /\ NodeDelay(Shared("source")) = 0
           /\ \A s \in SlugsOf(tracks) :
                /\ NodeGain(UserGain(s)) = Applied(gains[s], muted[s])
                /\ NodeDelay(UserGain(s)) = 0
                /\ NodeGain(Entry(s)) = Unit /\ NodeDelay(Entry(s)) = 0
<1>1. /\ graph.broadcast = broadcastGain /\ graph.delay = offsetMs
      /\ \A s \in SlugsOf(tracks) : graph.tracks[s] = Applied(gains[s], muted[s])
    BY MixFacts DEF MixInv, GraphInv
<1>2. /\ \A k : Shared(k)[1] = k
      /\ \A s : Entry(s)[1] = "entry" /\ UserGain(s)[1] = "userGain" /\ UserGain(s)[2] = s
    BY DEF Shared, Entry, UserGain
<1>3. QED
    BY <1>1, <1>2 DEF NodeGain, NodeDelay

LEMMA PassedShared ==
    ASSUME MixInv
    PROVE  /\ Passed(Shared("master"), Unit) = Unit /\ Later(Shared("master"), 0) = 0
           /\ Passed(Shared("inverter"), Unit) = -Unit /\ Later(Shared("inverter"), 0) = 0
           /\ Passed(Shared("sharedDelay"), -Unit) = -Unit
           /\ Later(Shared("sharedDelay"), 0) = offsetMs
           /\ Passed(Shared("cancellationSum"), -Unit) = -Unit
           /\ Later(Shared("cancellationSum"), offsetMs) = offsetMs
           /\ Passed(Shared("broadcastGain"), Unit) = broadcastGain
           /\ Later(Shared("broadcastGain"), 0) = 0
           /\ Passed(Shared("source"), broadcastGain) = broadcastGain
           /\ Later(Shared("source"), 0) = 0
<1>1. Unit \in Int /\ -Unit \in Int /\ broadcastGain \in Int /\ offsetMs \in Int
    BY UnitFacts DEF MixInv, RowsInv, Levels
<1>2. /\ (Unit * Unit) \div Unit = Unit /\ ((-Unit) * Unit) \div Unit = -Unit
      /\ (Unit * (-Unit)) \div Unit = -Unit
      /\ (broadcastGain * Unit) \div Unit = broadcastGain
      /\ (Unit * broadcastGain) \div Unit = broadcastGain
    BY <1>1, Scaled
<1>3. 0 + 0 = 0 /\ offsetMs + 0 = offsetMs /\ 0 + offsetMs = offsetMs
    BY <1>1
<1>4. QED
    BY <1>2, <1>3, NodeValues, Zenon DEF Passed, Later

LEMMA PassedTrack ==
    ASSUME MixInv, NEW s \in SlugsOf(tracks), NEW a, a = Applied(gains[s], muted[s])
    PROVE  /\ Passed(UserGain(s), Unit) = a /\ Later(UserGain(s), 0) = 0
           /\ Passed(Entry(s), a) = a /\ Later(Entry(s), 0) = 0
           /\ Passed(Entry(s), -Unit) = -Unit /\ Later(Entry(s), offsetMs) = offsetMs
<1>1. a \in Levels
    BY AppliedLevel DEF MixInv, RowsInv
<1>2. Unit \in Int /\ -Unit \in Int /\ a \in Int /\ offsetMs \in Int
    BY <1>1, UnitFacts DEF MixInv, RowsInv, Levels
<1>3. /\ (a * Unit) \div Unit = a /\ (Unit * a) \div Unit = a
      /\ (Unit * (-Unit)) \div Unit = -Unit
    BY <1>2, Scaled
<1>4. 0 + 0 = 0 /\ 0 + offsetMs = offsetMs
    BY <1>2
<1>5. QED
    BY <1>3, <1>4, NodeValues, Zenon DEF Passed, Later

\* What has settled after one, two, ... steps of Copies from the loudspeaker.
Settled1(c) == c[Shared("destination")] = {<<Unit, 0>>}
Settled2(c) == Settled1(c) /\ c[Shared("master")] = {<<Unit, 0>>}
Settled3(c) ==
    /\ Settled2(c)
    /\ c[Shared("inverter")] = {<<-Unit, 0>>}
    /\ c[Shared("broadcastGain")] = {<<broadcastGain, 0>>}
    /\ \A s \in SlugsOf(tracks) : c[UserGain(s)] = {<<Applied(gains[s], muted[s]), 0>>}
Settled4(c) == Settled3(c) /\ c[Shared("sharedDelay")] = {<<-Unit, offsetMs>>}
Settled5(c) == Settled4(c) /\ c[Shared("cancellationSum")] = {<<-Unit, offsetMs>>}

LEMMA OnwardFacts ==
    ASSUME MixInv, NEW c
    PROVE  /\ Onward(c, Shared("destination")) = {<<Unit, 0>>}
           /\ Settled1(c) => Onward(c, Shared("master")) = {<<Unit, 0>>}
           /\ Settled2(c) => /\ Onward(c, Shared("inverter")) = {<<-Unit, 0>>}
                             /\ Onward(c, Shared("broadcastGain")) = {<<broadcastGain, 0>>}
           /\ Settled3(c) => Onward(c, Shared("sharedDelay")) = {<<-Unit, offsetMs>>}
           /\ Settled4(c) => Onward(c, Shared("cancellationSum")) = {<<-Unit, offsetMs>>}
           /\ Settled3(c) => Onward(c, Shared("source")) = {<<broadcastGain, 0>>}
<1>1. /\ Shared("master") # Shared("destination")
      /\ Shared("inverter") # Shared("destination")
      /\ Shared("broadcastGain") # Shared("destination")
      /\ Shared("sharedDelay") # Shared("destination")
      /\ Shared("cancellationSum") # Shared("destination")
      /\ Shared("source") # Shared("destination")
    BY NodeFacts
<1>2. GraphInv
    BY DEF MixInv
<1>3. Onward(c, Shared("destination")) = {<<Unit, 0>>}
    BY DEF Onward
<1>4. ASSUME Settled1(c) PROVE Onward(c, Shared("master")) = {<<Unit, 0>>}
  <2>1. Ahead(Shared("master")) = {Shared("destination")} /\ c[Shared("destination")] = {<<Unit, 0>>}
    BY <1>2, <1>4, AheadShared DEF Settled1
  <2>2. Onward(c, Shared("master")) = {<<Passed(Shared("master"), Unit), Later(Shared("master"), 0)>>}
    BY <1>1, <2>1, OnwardOne
  <2>3. QED
    BY <2>2, PassedShared
<1>5. ASSUME Settled2(c) PROVE Onward(c, Shared("inverter")) = {<<-Unit, 0>>}
  <2>1. Ahead(Shared("inverter")) = {Shared("master")} /\ c[Shared("master")] = {<<Unit, 0>>}
    BY <1>2, <1>5, AheadShared DEF Settled2
  <2>2. Onward(c, Shared("inverter")) = {<<Passed(Shared("inverter"), Unit), Later(Shared("inverter"), 0)>>}
    BY <1>1, <2>1, OnwardOne
  <2>3. QED
    BY <2>2, PassedShared
<1>6. ASSUME Settled2(c) PROVE Onward(c, Shared("broadcastGain")) = {<<broadcastGain, 0>>}
  <2>1. Ahead(Shared("broadcastGain")) = {Shared("master")} /\ c[Shared("master")] = {<<Unit, 0>>}
    BY <1>2, <1>6, AheadShared DEF Settled2
  <2>2. Onward(c, Shared("broadcastGain")) = {<<Passed(Shared("broadcastGain"), Unit), Later(Shared("broadcastGain"), 0)>>}
    BY <1>1, <2>1, OnwardOne
  <2>3. QED
    BY <2>2, PassedShared
<1>7. ASSUME Settled3(c) PROVE Onward(c, Shared("sharedDelay")) = {<<-Unit, offsetMs>>}
  <2>1. Ahead(Shared("sharedDelay")) = {Shared("inverter")} /\ c[Shared("inverter")] = {<<-Unit, 0>>}
    BY <1>2, <1>7, AheadShared DEF Settled3
  <2>2. Onward(c, Shared("sharedDelay")) = {<<Passed(Shared("sharedDelay"), -Unit), Later(Shared("sharedDelay"), 0)>>}
    BY <1>1, <2>1, OnwardOne
  <2>3. QED
    BY <2>2, PassedShared
<1>8. ASSUME Settled4(c) PROVE Onward(c, Shared("cancellationSum")) = {<<-Unit, offsetMs>>}
  <2>1. Ahead(Shared("cancellationSum")) = {Shared("sharedDelay")} /\ c[Shared("sharedDelay")] = {<<-Unit, offsetMs>>}
    BY <1>2, <1>8, AheadShared DEF Settled4
  <2>2. Onward(c, Shared("cancellationSum")) = {<<Passed(Shared("cancellationSum"), -Unit), Later(Shared("cancellationSum"), offsetMs)>>}
    BY <1>1, <2>1, OnwardOne
  <2>3. QED
    BY <2>2, PassedShared
<1>9. ASSUME Settled3(c) PROVE Onward(c, Shared("source")) = {<<broadcastGain, 0>>}
  <2>1. Ahead(Shared("source")) = {Shared("broadcastGain")} /\ c[Shared("broadcastGain")] = {<<broadcastGain, 0>>}
    BY <1>2, <1>9, AheadShared DEF Settled3
  <2>2. Onward(c, Shared("source")) = {<<Passed(Shared("source"), broadcastGain), Later(Shared("source"), 0)>>}
    BY <1>1, <2>1, OnwardOne
  <2>3. QED
    BY <2>2, PassedShared
<1>10. QED
    BY <1>3, <1>4, <1>5, <1>6, <1>7, <1>8, <1>9

LEMMA OnwardTrack ==
    ASSUME MixInv, NEW c, NEW s \in SlugsOf(tracks)
    PROVE  /\ Settled2(c) => Onward(c, UserGain(s)) = {<<Applied(gains[s], muted[s]), 0>>}
           /\ Settled5(c) => Onward(c, Entry(s)) = {<<Applied(gains[s], muted[s]), 0>>,
                                                    <<-Unit, offsetMs>>}
<1> DEFINE a == Applied(gains[s], muted[s])
<1>1. /\ UserGain(s) # Shared("destination") /\ Entry(s) # Shared("destination")
    BY NodeFacts DEF SharedKinds
<1>2. GraphInv
    BY DEF MixInv
<1>3. /\ Passed(UserGain(s), Unit) = a /\ Later(UserGain(s), 0) = 0
      /\ Passed(Entry(s), a) = a /\ Later(Entry(s), 0) = 0
      /\ Passed(Entry(s), -Unit) = -Unit /\ Later(Entry(s), offsetMs) = offsetMs
    BY PassedTrack
<1>4. Settled3(c) => c[UserGain(s)] = {<<a, 0>>}
    BY DEF Settled3
<1> HIDE DEF a
<1>5. ASSUME Settled2(c) PROVE Onward(c, UserGain(s)) = {<<a, 0>>}
  <2>1. Onward(c, UserGain(s)) = {<<Passed(UserGain(s), Unit), Later(UserGain(s), 0)>>}
    BY <1>1, <1>2, <1>5, AheadTrack, OnwardOne DEF Settled2
  <2>2. QED
    BY <1>3, <2>1
<1>6. ASSUME Settled5(c) PROVE Onward(c, Entry(s)) = {<<a, 0>>, <<-Unit, offsetMs>>}
  <2>1. c[UserGain(s)] = {<<a, 0>>} /\ c[Shared("cancellationSum")] = {<<-Unit, offsetMs>>}
    BY <1>4, <1>6 DEF Settled5, Settled4
  <2>2. Onward(c, Entry(s)) = {<<Passed(Entry(s), a), Later(Entry(s), 0)>>,
                               <<Passed(Entry(s), -Unit), Later(Entry(s), offsetMs)>>}
    <3> DEFINE n == Entry(s)
               m == UserGain(s)
               k == Shared("cancellationSum")
               x == <<a, 0>>
               y == <<-Unit, offsetMs>>
    <3>1. Ahead(n) = {m, k} /\ n # Shared("destination")
      BY <1>1, <1>2, AheadTrack
    <3>2. c[m] = {x} /\ c[k] = {y}
      BY <2>1
    <3>3. x[1] = a /\ x[2] = 0 /\ y[1] = -Unit /\ y[2] = offsetMs
      OBVIOUS
    <3> HIDE DEF n, m, k, x, y
    <3> DEFINE X == UNION {c[w[2]] : w \in {w \in graph.wires : w[1] = n}}
    <3>4. X = UNION {c[j] : j \in Ahead(n)}
      BY DEF Ahead
    <3>5. X = {x, y}
      BY <3>1, <3>2, <3>4
    <3>6. Onward(c, n) = {<<Passed(n, v[1]), Later(n, v[2])>> : v \in X}
      BY <3>1 DEF Onward, Passed, Later
    <3> HIDE DEF X
    <3>7. Onward(c, n) = {<<Passed(n, x[1]), Later(n, x[2])>>, <<Passed(n, y[1]), Later(n, y[2])>>}
      BY <3>5, <3>6
    <3>8. QED
      BY <3>3, <3>7 DEF n
  <2>3. QED
    BY <1>3, <2>2
<1>7. QED
    BY <1>5, <1>6 DEF a
\* The nodes that the steps of Copies run over include those behind the entries.
LEMMA BehindWired ==
    ASSUME MixInv, NEW Nodes, Nodes = UNION {{w[1], w[2]} : w \in graph.wires}
    PROVE  /\ \A k \in SharedKinds : Shared(k) \in Nodes
           /\ \A s \in SlugsOf(tracks) : UserGain(s) \in Nodes
<1>0. \A n : Ahead(n) # {} => n \in Nodes
    BY DEF Ahead
<1>1. \A n : Ahead(n) \in SUBSET Nodes
    BY DEF Ahead
<1>2. GraphInv
    BY DEF MixInv
<1>3. /\ Ahead(Shared("source")) # {} /\ Ahead(Shared("broadcastGain")) # {}
      /\ Ahead(Shared("cancellationSum")) # {} /\ Ahead(Shared("sharedDelay")) # {}
      /\ Ahead(Shared("inverter")) # {} /\ Ahead(Shared("master")) # {}
      /\ Shared("destination") \in Ahead(Shared("master"))
    BY <1>2, AheadShared
<1>4. \A k \in SharedKinds : Shared(k) \in Nodes
    BY <1>0, <1>1, <1>3 DEF SharedKinds
<1>5. \A s \in SlugsOf(tracks) : UserGain(s) \in Nodes
  <2>1. \A s \in SlugsOf(tracks) : Ahead(UserGain(s)) # {}
    BY <1>2, AheadTrack
  <2>2. QED
    BY <1>0, <2>1
<1>6. QED
    BY <1>4, <1>5

\* Each step settles the nodes one wire further from the loudspeaker.
LEMMA Settles ==
    ASSUME MixInv, NEW P, \A k \in SharedKinds : Shared(k) \in P,
           \A s \in SlugsOf(tracks) : UserGain(s) \in P,
           NEW c, NEW d, d = [n \in P |-> Onward(c, n)]
    PROVE  /\ Settled1(d)
           /\ Settled1(c) => Settled2(d)
           /\ Settled2(c) => Settled3(d)
           /\ Settled3(c) => Settled4(d)
           /\ Settled4(c) => Settled5(d)
<1>1. /\ \A k \in SharedKinds : d[Shared(k)] = Onward(c, Shared(k))
      /\ \A s \in SlugsOf(tracks) : d[UserGain(s)] = Onward(c, UserGain(s))
    OBVIOUS
<1>2. /\ d[Shared("destination")] = Onward(c, Shared("destination"))
      /\ d[Shared("master")] = Onward(c, Shared("master"))
      /\ d[Shared("inverter")] = Onward(c, Shared("inverter"))
      /\ d[Shared("broadcastGain")] = Onward(c, Shared("broadcastGain"))
      /\ d[Shared("sharedDelay")] = Onward(c, Shared("sharedDelay"))
      /\ d[Shared("cancellationSum")] = Onward(c, Shared("cancellationSum"))
    BY <1>1 DEF SharedKinds
<1>3. Settled1(d)
    BY <1>2, OnwardFacts DEF Settled1
<1>4. Settled1(c) => Settled2(d)
    BY <1>2, <1>3, OnwardFacts DEF Settled2
<1>5. Settled2(c) => Settled3(d)
  <2> SUFFICES ASSUME Settled2(c) PROVE Settled3(d)
    OBVIOUS
  <2>1. Settled2(d)
    BY <1>4 DEF Settled2
  <2>2. \A s \in SlugsOf(tracks) : d[UserGain(s)] = {<<Applied(gains[s], muted[s]), 0>>}
    BY <1>1, OnwardTrack
  <2>3. QED
    BY <1>2, <2>1, <2>2, OnwardFacts DEF Settled3
<1>6. Settled3(c) => Settled4(d)
    BY <1>2, <1>5, OnwardFacts DEF Settled3, Settled4
<1>7. Settled4(c) => Settled5(d)
    BY <1>2, <1>6, OnwardFacts DEF Settled4, Settled5
<1>8. QED
    BY <1>3, <1>4, <1>5, <1>6, <1>7

\* Copies looks five wires back from the loudspeaker.
LEMMA CopiesSettled ==
    ASSUME MixInv, NEW node
    PROVE  \E c : Settled5(c) /\ Copies(node) = Onward(c, node)
<1> DEFINE Nodes == UNION {{w[1], w[2]} : w \in graph.wires}
           P == Nodes \cup {node}
           Step(c) == [n \in P |-> Onward(c, n)]
           c0 == [n \in P |-> {}]
           c1 == Step(c0)
           c2 == Step(c1)
           c3 == Step(c2)
           c4 == Step(c3)
           c5 == Step(c4)
<1>1. Copies(node) = Onward(c5, node)
    BY DEF Copies
<1>2. /\ \A k \in SharedKinds : Shared(k) \in P
      /\ \A s \in SlugsOf(tracks) : UserGain(s) \in P
    BY BehindWired
<1> HIDE DEF P, c0
<1>3. Settled1(c1)
    BY <1>2, Settles
<1> HIDE DEF c1
<1>4. Settled2(c2)
    BY <1>2, <1>3, Settles
<1> HIDE DEF c2
<1>5. Settled3(c3)
    BY <1>2, <1>4, Settles
<1> HIDE DEF c3
<1>6. Settled4(c4)
    BY <1>2, <1>5, Settles
<1> HIDE DEF c4
<1>7. Settled5(c5)
    BY <1>2, <1>6, Settles
<1> HIDE DEF c5
<1>8. QED
    BY <1>1, <1>7

\* Every track is heard as its slider and mute button show, its inverted copy at
\* full level with the offset shown, and the page's video with the residual
\* shown, for any track lists, preferences and callbacks.
THEOREM HeardIsShownHolds == Spec => []HeardIsShown
<1>1. MixInv => HeardIsShown
  <2> SUFFICES ASSUME MixInv PROVE HeardIsShown
    OBVIOUS
  <2>1. ASSUME NEW s \in SlugsOf(tracks)
        PROVE  Copies(Entry(s)) = {<<IF muted[s] THEN 0 ELSE gains[s], 0>>, <<-Unit, offsetMs>>}
    <3>1. PICK c : Settled5(c) /\ Copies(Entry(s)) = Onward(c, Entry(s))
      BY CopiesSettled
    <3>2. Onward(c, Entry(s)) = {<<Applied(gains[s], muted[s]), 0>>, <<-Unit, offsetMs>>}
      BY <3>1, OnwardTrack
    <3>3. QED
      BY <3>1, <3>2 DEF Applied
  <2>2. Copies(Shared("source")) = {<<broadcastGain, 0>>}
    <3>1. PICK c : Settled5(c) /\ Copies(Shared("source")) = Onward(c, Shared("source"))
      BY CopiesSettled
    <3>2. Settled3(c)
      BY <3>1 DEF Settled5, Settled4
    <3>3. QED
      BY <3>1, <3>2, OnwardFacts
  <2>3. QED
    BY <2>1, <2>2 DEF HeardIsShown
<1>2. QED
    BY <1>1, MixInvariant, PTL
=============================================================================
