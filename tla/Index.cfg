SPECIFICATION FairSpec
CONSTANTS
    N = 2
    title = title
    body = body
    small = small
    large = large
    None = none
    Field <- TwoFields
    Manifests <- TwoManifests
    FirstManifests <- OneManifest
    Models <- TwoModels
    FirstModels <- OneModel
    MaxWrites = 2
    MaxGen = 2
    MaxEvents = 3
INVARIANTS
    CleanMeansInSync
PROPERTIES
    PublishesCurrent
    OldGenerationWritesNothing
    IndexesConverge
CHECK_DEADLOCK FALSE
