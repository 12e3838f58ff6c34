\* A publisher's announcement, or another sender's frame with two edits, on
\* its way through the relay to the viewer.  A publisher that exits stops.
CONSTANTS
    ByteSize = 10
    Magic <- MCMagic
    KnownTypes <- MCKnownTypes
    MaxTrackSlot = 2
    MaxPayloadBytes = 25
    MaxJsonBytes = 25
    MaxText = 3
    TrackArgs <- MCTrackArgs
    MaxTracks = 2
    MaxFrameBytes = 50
    TypeOf <- MCTypeOf
    NowMs = 12345678
    Frames <- MCFrames
    EditBytes = {0, 1, 9}
    EditValues <- MCEditValues
    MaxEdits = 2
SPECIFICATION Spec
INVARIANT RoundTrip
INVARIANT DecodersAgree
INVARIANT AnnouncementShown
CHECK_DEADLOCK FALSE
