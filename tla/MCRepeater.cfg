CONSTANTS
    d6 = d6
    d11 = d11
    NoEntry = noentry
    NoSource = none
    DedupRingSize = 2
    ScanChannels <- MCScanChannels
    Settings <- MCSettings
    Sources <- MCSources
    SourceChannel <- MCSourceChannel
    Seqs = {0, 1}
    Dwell = 3
    Relock = 4
    MaxLag = 1
    TrafficGap = 1
    ButtonLive = TRUE
    MaxReboots = 1
SPECIFICATION FairSpec
INVARIANT RepeaterSafe
PROPERTY RepeaterFindsTraffic
