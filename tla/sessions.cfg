SPECIFICATION SpecSessions
CONSTANTS
    None = None
    p1 = p1
    p2 = p2
    Producers = {p1, p2}
    Epochs = {0, 1}
    Seqs = {0, 1}
    StreamSeqs = {}
    ContentTypes = {"json"}
    Ttls = {}
    ExpiresAts = {}
    Sizes = {1}
    Edges = {}
    ForkOffsets = {}
    PRODUCER_STATE_TTL_MS = 1
    SWEEP_LIMIT = 1
    MaxClock = 0
    MaxGeneration = 1
    MaxMessages = 9
    Sessions <- Rivals
    LAST = 1
    Plan <- LastOnes
    MaxFaults = 2
CHECK_DEADLOCK FALSE
INVARIANTS
    AckedOnce
    StoppedByOthers
PROPERTY SessionsSettle
