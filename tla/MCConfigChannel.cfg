CONSTANTS
    a = a
    Lumes = {a}
    Director = d
    NoUid = noUid
    None = none
    Vacant = vacant
    NoSnapshot = noSnapshot
    Settings <- SettingsValue
    Default = 1
    AckRingSize = 2
    MaxWrites = 2
    MaxResets = 1
    RegisterMax = 2
    SequenceCap = 3
    LruSlots = 2
SPECIFICATION FairSpec
INVARIANTS WriteGoesWhereShown SnapshotTrue
PROPERTIES KeepsPromise BlockedScreensEnd
