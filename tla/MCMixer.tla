------------------------------ MODULE MCMixer -------------------------------
(* Small instances of Mixer for TLC.                                       *)
EXTENDS Mixer

Track(i, s, c) == [id |-> i, slug |-> s, category |-> c]

\* No track, two, and a custom "Music" whose slug collides with the preset one.
MCLists ==
    {<<>>,
     <<Track(1, "mic", "mic"), Track(2, "music", "music")>>,
     <<Track(1, "music", "custom"), Track(2, "music", "music")>>}

MCGlobal == [c \in {"music"} |-> [gain |-> 0, muted |-> TRUE]]
=============================================================================
