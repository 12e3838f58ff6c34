------------------------------- MODULE Fanout -------------------------------
(***************************************************************************)
(* What a fan-out hub of the relay promises, without queues, locks and     *)
(* snapshots: at most one publisher is live, packets are numbered in the   *)
(* order it sends them, and each viewer sees an increasing subsequence of  *)
(* what is published after it joins.  Packets may be skipped, never        *)
(* repeated or reordered.                                                  *)
(***************************************************************************)
EXTENDS Integers, FiniteSets

CONSTANTS Viewers, MaxViewers

VARIABLES
    live,       \* a publisher holds the channel
    published,  \* packets published so far
    status,     \* each viewer is "out", "in" or "left"
    seen,       \* the last packet each viewer has had
    got         \* how many packets each viewer has had

vars == <<live, published, status, seen, got>>

In == {v \in Viewers : status[v] = "in"}

Init ==
    /\ live = FALSE
    /\ published = 0
    /\ status = [v \in Viewers |-> "out"]
    /\ seen = [v \in Viewers |-> 0]
    /\ got = [v \in Viewers |-> 0]

Claim ==
    /\ ~live
    /\ live' = TRUE
    /\ UNCHANGED <<published, status, seen, got>>

Release ==
    /\ live
    /\ live' = FALSE
    /\ UNCHANGED <<published, status, seen, got>>

Publish ==
    /\ live
    /\ published' = published + 1
    /\ UNCHANGED <<live, status, seen, got>>

Join(v) ==
    /\ status[v] = "out"
    /\ Cardinality(In) < MaxViewers
    /\ status' = [status EXCEPT ![v] = "in"]
    /\ seen' = [seen EXCEPT ![v] = published]
    /\ UNCHANGED <<live, published, got>>

Deliver(v) ==
    /\ status[v] = "in"
    /\ \E n \in (seen[v] + 1)..published : seen' = [seen EXCEPT ![v] = n]
    /\ got' = [got EXCEPT ![v] = @ + 1]
    /\ UNCHANGED <<live, published, status>>

Leave(v) ==
    /\ status[v] = "in"
    /\ status' = [status EXCEPT ![v] = "left"]
    /\ UNCHANGED <<live, published, seen, got>>

Next ==
    \/ Claim \/ Release \/ Publish
    \/ \E v \in Viewers : Join(v) \/ Deliver(v) \/ Leave(v)

Spec == Init /\ [][Next]_vars
=============================================================================
