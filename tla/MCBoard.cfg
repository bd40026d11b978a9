CONSTANTS
    Absent = absent
    Refused = refused
    None = none
    Vacant = vacant
    Rolls <- RollsValue
    Lengths <- LengthsValue
    Bags <- BagsValue
    Senders = {d1, d2}
    Self = self
    Other = other
    DefaultShow = simpleBeat
    DefaultStripLength = 29
    DefaultStripGroup = 12
    DefaultBrightness = 1
    DefaultRuntimeMode = "Lume"
    DefaultPairWindow = 60
    DefaultRetransmits = 1
    BufferSize = 120
    MaxNumonce = 2
    LruSlots = 1
    MaxHeaderLen = 3
    MaxBodyLen = 3
    MaxDataLen = 3
    MaxNameLen = 3
    MaxBagLen = 110
    MaxPlanes = 3
    MaxDimension = 3
    BassLevels = {0, 4}
    ShortWindow = 2
    LongWindow = 5
    DropWarmup = 2
    Cooldown = 2
    TransitionFrames = 3
    SustainFrames = 4
    DropHold = 3
    SectionWarmup = 3
    Onsets = {"kick", "hihat"}
    Refractory <- MCRefractory
    Fifths <- MCFifths
    Magnitudes = {1, 9}
    HistorySize = 3
    OnsetWarmup = 2
    DensityWindow = 5
    DensityMaxEvents = 3
    DensityRingCap = 3
    MaxOnsetFrames = 9
    Passwords = {"pw"}
    NoPassword = "off"
    CommunityIds = {1}
    PerfIds = {64, 65}
    MacId = 255
    Addresses = {"a", "b"}
    IdleTimeout = 1
    Lockout = 1
    MaxClients = 2
    MaxCommands = 3
    Schema <- MCSchema
    PropertyValues = {0, 1, 9}
    NoValue = absent
    CacheSize = 2
    Hosts <- HostsValue
    LumeGroup = 2
    Pulses <- PulsesValue
    Washes <- WashesValue
    Texts <- TextsValue
    SignalLost = 0
    FallbackAfter = 1
    FadeAfter = 2
    MaxAge = 3
SPECIFICATION BoardSpec
INVARIANTS CodecSound AckMeansStored DensityTrue OneClientPerLine SavedIsLive BagTellsTruth NewestPulseShown
PROPERTIES NothingHalfApplied SectionsDwell
CHECK_DEADLOCK FALSE
