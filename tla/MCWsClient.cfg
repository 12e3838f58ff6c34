\* A track that may be silent for ever, and a queue that overflows.
\* After a shutdown the publisher has no step left.
CHECK_DEADLOCK FALSE
CONSTANTS
    Tracks = {"game"}
    kMaxQueue = 3
    kBackoffs = 2
SPECIFICATION LiveSpec
INVARIANT NoStaleAudio
INVARIANT NoLostWakeup
INVARIANT SessionAnnounced
PROPERTY Reconnects
PROPERTY StopReturns
