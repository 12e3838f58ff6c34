----------------------------- MODULE TrackList ------------------------------
(***************************************************************************)
(* A track list as decodeTrackList (shared/ts/src/messages.ts) accepts it: *)
(* a sequence of records whose wire ids are distinct.  Slugs need not be.  *)
(***************************************************************************)
EXTENDS Integers, Sequences

TrackIds(l) == {l[i].id : i \in 1..Len(l)}
SlugsOf(l) == {l[i].slug : i \in 1..Len(l)}
Rows(l, s) == {i \in 1..Len(l) : l[i].slug = s}

\* The viewer's index from wire id to slug, cleared and rebuilt by each list.
\* (The mistake: an id that is known already keeps its slug.)
indexTracksM(known, l) ==
    [n \in DOMAIN known \cup TrackIds(l) |->
        IF n \in DOMAIN known THEN known[n]
        ELSE l[CHOOSE i \in 1..Len(l) : l[i].id = n].slug]
indexTracks(known, l) ==
    [n \in TrackIds(l) |-> l[CHOOSE i \in 1..Len(l) : l[i].id = n].slug]
=============================================================================
