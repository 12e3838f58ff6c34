\* Three calls of mount.
CONSTANTS
    Pages <- MCPages
    ChannelNames <- MCNames
    MaxMounts = 3
SPECIFICATION LiveSpec
INVARIANT SingleFlight
INVARIANT OnlyRacesLeak
PROPERTY Reconnects
PROPERTY Quiesces
