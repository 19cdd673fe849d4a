SPECIFICATION FairSpec
CONSTANTS
    MaxRuns = 2
    MaxFaults = 2
    MaxCrashes = 2
INVARIANTS
    ClaimHeld
PROPERTIES
    EntryTakenOnlyInAGap
    SlotComesFree
CHECK_DEADLOCK FALSE
