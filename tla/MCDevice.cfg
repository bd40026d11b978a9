CONSTANTS
    Absent = absent
    Refused = refused
    None = none
    Unseen = unseen
    Rolls <- RollsValue
    Shows <- ShowsValue
    Written <- WrittenValue
    HasExternalIr = TRUE
    StripForced = FALSE
    StripCap = 50
    Build = "b1"
    DefaultShow = "simple-beat"
    DefaultStripLength = 29
    DefaultStripGroup = 12
    DefaultBrightness = 10
    DefaultRuntimeMode = "Lume"
    DefaultPairWindow = 60
    DefaultRetransmits = 1
    WindowUnits = 1
    Watched_ <- WatchedValue
    Edits_ = 1
    Boots_ = 2
SPECIFICATION MCSpec
INVARIANTS SettingsStick NothingLeftRunning 

CHECK_DEADLOCK FALSE
PROPERTIES WindowEnds
