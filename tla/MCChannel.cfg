\* Two competing publishers, three subscribe requests for two places, and
\* queues that overflow.
CONSTANTS
    Pubs = {p1, p2}
    Subs = {s1, s2, s3}
    None = None
    MaxSubs = 2
    SendBuf = 2
    MaxPkts = 3
SPECIFICATION Spec
SYMMETRY Symmetry
INVARIANTS TypeOK OnePublisher Bounded InOrder NewestKept NoSilentLoss
