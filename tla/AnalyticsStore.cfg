SPECIFICATION FairSpec
CONSTANTS
    c1 = c1  c2 = c2
    Clients = {c1, c2}
    NoOne = NoOne
    MaxArtifacts = 2
    MaxTokens = 2
    MaxFaults = 2
INVARIANTS TypeOK RowKeepsFile NoOrphan DeletedStaysGone
PROPERTIES DeletesWhatWasPreviewed ImplementsArtifactLifecycle MarkerSettled
