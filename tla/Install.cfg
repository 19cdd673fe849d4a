SPECIFICATION FairSpec
CONSTANTS
    Digest = {old, new}
    Configured = {old}
    Staging = staging
    None = none
    MaxFaults = 2
    MaxCrashes = 2
    MaxTroubles = 3
INVARIANTS
    AsideIsJournaled
    InUseIsInstalled
    GoneStaysGone
    RegistryAgrees
PROPERTIES
    RecoveryKeepsOutcome
    InstallKeepsRunnable
    ComesToRest
