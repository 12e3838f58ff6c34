------------------------------- MODULE MCWire -------------------------------
(* A small instance of Wire for TLC.                                       *)
EXTENDS Wire

MCMagic == <<5, 4, 5, 3>>
MCTypeOf == [hello |-> 1, trackList |-> 2, audio |-> 3, fingerprint |-> 4,
             trackMeta |-> 5, stats |-> 6, subTracks |-> 7, error |-> 9]
MCKnownTypes == 1..7 \cup {9}

Arg(c, l, p) == [category |-> <<c>>, label |-> l, process |-> p]

\* Every label of up to three letters and stops, and labels that are long,
\* huge, upper case, dashed, not ASCII, or in need of escapes.
MCLabels ==
    UNION {[1..n -> {"a", "."}] : n \in 0..3}
    \cup {<<"a", ".", ".", "a">>, <<"A", "u">>, <<"-", "a">>, <<"a", "q">>,
          <<"a">> \o [i \in 1..30 |-> "."]}
MCTrackArgs ==
    {Arg("custom", l, TRUE) : l \in MCLabels}
    \cup {Arg("mic", <<>>, TRUE), Arg("mic", <<>>, FALSE), Arg("a", <<>>, TRUE)}

F(kind, track, payload) ==
    [Control(kind, 7, payload) EXCEPT !.track = track, !.flags = 9]
R(id, c, l) == Row(Num(id), Str(<<"mic">>), Str(<<c>>), Str(l))
MCFrames ==
    {F("hello", 0, encodeHello(<<"a">>, 1)),
     F("trackList", 0, encodeTrackList(<<R(1, "mic", <<"A">>)>>)),
     F("trackList", 0, encodeTrackList(<<R(1, "mic", <<"A">>),
                                         R(2, "custom", <<"u">>)>>)),
     F("audio", 2, Binary("audio", MaxPayloadBytes)),
     F("audio", 3, Binary("audio", 1)),
     F("audio", 1, Binary("audio", MaxPayloadBytes + 1)),
     F("fingerprint", 1, encodeFingerprint),
     F("trackMeta", 1, encodeTrackMeta(Str(<<"a">>), Str(<<"https://">>))),
     F("trackMeta", 1, encodeTrackMeta(Absent, Absent)),
     F("stats", 0, encodeStats(0)),
     F("subTracks", 0, encodeSubTracks(<<2, 1>>)),
     F("error", 0, encodeError(<<"RATE_LIMIT">>, <<"a">>))}

MCEditValues ==
    {Absent, Null, Frac, Num(-1), Num(1), Num(3), Str(<<>>), Str(<<"mic">>),
     Str(<<"u", "u">>), Str(<<"a", "-">>), Str(<<"a", "a", "a", "a">>)}
=============================================================================
