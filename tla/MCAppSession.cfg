\* Two tabs that may be pinned, two windows of the application or one of a standalone instance.
CONSTANTS
    id1 = id1
    id2 = id2
    Plain = Plain
    NoSession = NoSession
    Pinnable <- TwoIds
    MaxInstances = 1
    MaxWindows <- Windows21
    MaxTabs = 2
    MaxWrites = 1
SPECIFICATION SessionSpec
INVARIANTS
    PinnedNeverLost
    RoundTrip
SYMMETRY IdSymmetry
