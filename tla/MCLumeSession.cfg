CONSTANTS
    p1 = p1
    c1 = c1
    SourceIds <- MCSourceIds
    PerformanceIds <- MCPerformanceIds
    BroadcastId = bcast
    NoSource = none
    Channels = {1, 6, 11}
    ShowChannel = 11
    Timeout = 2
    MaxLag = 1
    DedupRingSize = 2
    NoEntry = noentry
    ScanOrder <- MCScanOrder
    ChannelPref = 11
    RepeatEnabled = TRUE
    PairGestures = FALSE
    MaxHopCount = 3
    Dwell = 1
    NoSignal = 1
    FallbackEnter = 2
    FallbackFade = 2
    Rescan = 2
    BurstDuration = 1
    DirectorChannel <- MCDirectorChannel
    Seqs = {1, 2}
    Hops = {2, 3}
    FramesPulse = TRUE
    HeartbeatGap = 0
    MaxSessions = 2
SPECIFICATION Spec
INVARIANT SessionSound
