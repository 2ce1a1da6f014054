SPECIFICATION Spec
CONSTANTS
    None = None
    r1 = r1
    r2 = r2
    Readers = {r1}
    MAX_READ_ROWS = 1
    MAX_CONCURRENT_READS = 1
    MAX_LIVE_READERS = 1
    Modes = {"get", "long-poll", "sse"}
    Starts = {"position", "now"}
    MaxTail = 2
    MaxGeneration = 2
    MaxCommits = 5
INVARIANTS
    TypeOK
    InOrder
    NoLostWakeup
    ClosedReadIsTheEnd
PROPERTY WholeBatches
