----------------------------- MODULE MCPlayback -----------------------------
(* Small instances of Playback for TLC.                                    *)
EXTENDS Playback
=============================================================================
