----------------------------- MODULE MCChannel -----------------------------
(* Small instances of Channel for TLC.                                     *)
EXTENDS Channel, TLC

\* Publishers and subscribe requests are interchangeable (safety runs only).
Symmetry == Permutations(Pubs) \cup Permutations(Subs)
=============================================================================
