SPECIFICATION Spec
CONSTANTS
    None = None
    Streams = {"fork", "root"}
    Forks <- OneFork
    Offsets = {1}
    Runs <- OneRun
    MaxEdges = 1
    MaxGeneration = 2
    MaxFaults = 0
CHECK_DEADLOCK FALSE
INVARIANT LiveForkPinned
