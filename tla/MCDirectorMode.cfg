CONSTANTS
    Targets = {0, 1, 2}
    MaxActiveWashes = 2
    RefreshPeriod = 2
    Palettes <- MCPalettes
    Sections = {"verse", "drop"}
    ShowIds = {"pulse", "drift", "wash_demo"}
    MaxInputs = 5
SPECIFICATION DirectorSpec
INVARIANT StripReleased
PROPERTY DropHeld
PROPERTY RestartedLumeRelit
CHECK_DEADLOCK FALSE
