CONSTANTS
    p1 = p1
    c1 = c1
    SourceIds <- MCSourceIds
    PerformanceIds <- MCPerformanceIds
    BroadcastId = bcast
    NoSource = none
    Channels = {1, 6, 11}
    ShowChannel = 11
    Timeout = 3
    MaxLag = 1
    DedupRingSize = 2
    NoEntry = noentry
    ScanOrder <- MCScanOrder
    ChannelPref = 0
    RepeatEnabled = FALSE
    PairGestures = TRUE
    MaxHopCount = 3
    Dwell = 2
    NoSignal = 2
    FallbackEnter = 3
    FallbackFade = 4
    Rescan = 3
    BurstDuration = 1
    DirectorChannel <- MCDirectorChannel
    Seqs = {0}
    Hops = {0}
    FramesPulse = FALSE
    HeartbeatGap = 0
    MaxSessions = 2
SPECIFICATION Spec
INVARIANT ShowChannelStaysClean
PROPERTY SilenceIsReal
INVARIANT StripGivenBack
