SPECIFICATION ChainSpec
CONSTANTS
    None = None
    Streams = {"leaf", "fork", "root"}
    Forks <- Chain
    Offsets = {1, 2}
    Runs <- ChainRuns
    MaxEdges = 3
    MaxGeneration = 3
    MaxFaults = 1
CHECK_DEADLOCK FALSE
INVARIANTS
    NoZombie
    UncontestedOwned
    UncontestedPinned
