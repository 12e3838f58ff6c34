\* Bursts, stalls, gaps, restarts, errors and a suspended context; two tracks
\* share the lane.
CONSTANTS
    Tracks = {t1, t2}
    Frame = 2
    MaxSeq = 3
    MaxPackets = 4
    MaxTime = 8
SPECIFICATION LaneSpec
INVARIANTS Gapless ClosedIsSilent LeadIsBacklog
