CONSTANTS
    p1 = p1
    p2 = p2
    c1 = c1
    SourceIds <- MCSourceIds
    PerformanceIds <- MCPerformanceIds
    BroadcastId = bcast
    NoSource = none
    Channels = {6, 11}
    ShowChannel = 11
    Timeout = 6
    MaxLag = 2
    Director = d
    NoEntry = noentry
    DedupRingSize = 3
    SeqMod = 9
    Spread = 2
    MaxLoss = 1
    MaxFrames = 12
    PayloadBufSize = 4
    MinWashEmitGap = 1
    MinRawWashEmitGap = 2
    MinStrobeInterval = 3
    StrobeScale = 600
    Looks <- MCLooks
    Universes <- MCUniverses
    FirstUniverse <- MCFirstUniverse
    MaxLine = 9
    MaxPackets = 2
    MaxChannels = 3
    MaxCues = 1
    MaxUpsets = 3
    MaxPixels = 2
    PixelCounts = {1, 2}
    Pulses <- MCPulses
    PulseFloor = 1
    Washes <- MCWashes
    Releases = {0, 2}
    MaxFrameLag = 1
    MaxEvents = 3
    IrWashes <- MCIrWashes
    Envelopes = {1, 6}
    RefreshMin = 1
    RefreshMax = 3
    Snapshots = 20
    LongPulse = 1
    PulseMargin = 1
    BraceletHold = 4
    TwoColorHold = 1
    MaxIrEvents = 4
SPECIFICATION FairParts
INVARIANT LockTracksIncumbent
INVARIANT HeardOnce
 
INVARIANT HeldTriggerFiresOnce
INVARIANT NothingDroppedBetweenFrames
INVARIANT NoDivideByZero
PROPERTY HandoverOnlyAfterSilence
PROPERTY ConsoleFollowed
PROPERTY StripSettles
PROPERTY IrSettles
CHECK_DEADLOCK FALSE
