--------------------------- MODULE MCAuthLimiter ---------------------------
(* Small instances of AuthLimiter for TLC.                                 *)
EXTENDS AuthLimiter, TLC

\* Requests are interchangeable, and so are addresses.
Symmetry == Permutations(Reqs) \cup Permutations(IPs)
=============================================================================
