\* Three ids for two entries, two publishers and a viewer.  Liveness is checked
\* too, so there is no symmetry.
CONSTANTS
    Ids = {a, b, c}
    Objs = {o1, o2, o3, o4, o5}
    Pubs = {p1, p2}
    Viewers = {v1}
    None = None
    MaxChannels = 2
    MaxSubs = 1
SPECIFICATION LiveSpec
INVARIANT CapsHold
INVARIANT OnlyLateEntrantsOrphaned
PROPERTY IdleIsReaped
