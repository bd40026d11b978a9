CONSTANTS
    Channels = {6, 11}
    ShowChannel = 11
    DerivedId <- MCDerivedId
    PerfIds = {64, 65}
    UpstreamId = 200
    NoId = 0
    MaxSeq = 3
    RetransmitCounts = {1, 3}
    GapMin = 1
    GapMax = 2
    MinSendInterval = 2
    HeartbeatPeriod = 4
    ListenWindow = 3
    ListenMaxAttempts = 3
    TickGap = 1
    MaxStarts = 2
SPECIFICATION FairSpec
INVARIANT ListenBeforeBroadcast
INVARIANT HeartbeatRegular
PROPERTY ListeningEnds
