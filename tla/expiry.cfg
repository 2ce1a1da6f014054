SPECIFICATION FairTimers
CONSTANTS
    None = None
    r1 = r1
    r2 = r2
    e1 = e1
    Producers = {}
    Epochs = {0}
    Seqs = {0}
    StreamSeqs = {}
    ContentTypes = {"json"}
    Ttls = {1}
    ExpiresAts = {1}
    Sizes = {1}
    Edges = {e1}
    ForkOffsets = {}
    PRODUCER_STATE_TTL_MS = 9
    SWEEP_LIMIT = 1
    MaxClock = 2
    MaxGeneration = 2
    MaxMessages = 0
    MAINTENANCE_RETRY_MS = 1
    LastRequest = 1
    Runs = {r1, r2}
    MaxRestarts = 1
    MaxFailures = 1
CHECK_DEADLOCK FALSE
INVARIANT LookedAtInTime
PROPERTY IdleStreamsGo
