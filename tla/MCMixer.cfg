\* Every sequence of announcements, clicks, saves and remounts.
CONSTANTS
    Lists <- MCLists
    GlobalPrefs <- MCGlobal
    Unit = 1
    DefaultGain = 1
    DefaultBroadcast = 0
    MaxOffset = 1
    HasDecoder = TRUE
SPECIFICATION Spec
INVARIANT HeardIsShown
INVARIANT Plumbed
INVARIANT SavedIsShown
PROPERTIES ReannounceKeepsMix OverrideWins
