\* Refinement and liveness: no symmetry.
CONSTANTS
    Pubs = {p1}
    Subs = {s1, s2}
    None = None
    MaxSubs = 2
    SendBuf = 1
    MaxPkts = 2
SPECIFICATION LiveSpec
PROPERTIES ImplementsFanout BroadcastCompletes GoneIsRemoved
