\* One channel id: two claims, with a reap in between.
CONSTANTS
    Ids = {a}
    Objs = {o1, o2, o3, o4, o5}
    Pubs = {p1, p2}
    Viewers = {v1, v2}
    None = None
    MaxChannels = 1
    MaxSubs = 2
SPECIFICATION Spec
INVARIANT OnePublisherPerId
