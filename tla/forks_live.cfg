SPECIFICATION FairSpec
CONSTANTS
    None = None
    Streams = {"fork", "root"}
    Forks <- OneFork
    Offsets = {1}
    Runs <- TwoRuns
    MaxEdges = 1
    MaxGeneration = 2
    MaxFaults = 2
CHECK_DEADLOCK FALSE
INVARIANTS
    TypeOK
    UncontestedOwned
    UncontestedPinned
PROPERTIES
    ReleasesDrain
    IntentsSettle
    ZombiesCollected
