SPECIFICATION FairSpec
CONSTANTS
    MaxRuns = 2
    MaxFaults = 0
    MaxCrashes = 0
PROPERTIES
    WatchdogBounds
CHECK_DEADLOCK FALSE
