CONSTANTS
    NoTool = NoTool
    OldTool = OldTool
    NewTool = NewTool
    MaxConnections = 8
    MaxClicks = 3
    MaxLingers = 2
    MaxCrashes = 1
    MaxUninstalls = 2
SPECIFICATION FairSpec
INVARIANTS TypeOK AvailableIsNewest
PROPERTIES DropsOnlyInvalid InvalidIsDropped InstallsOnlyIfNeeded Settles
CHECK_DEADLOCK FALSE
