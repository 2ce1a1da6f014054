SPECIFICATION Spec
CONSTANTS
    None = None
    r1 = r1
    r2 = r2
    Readers = {r1}
    MAX_READ_ROWS = 1
    MAX_CONCURRENT_READS = 1
    MAX_LIVE_READERS = 1
    Modes = {"get"}
    Starts = {"position"}
    MaxTail = 2
    MaxGeneration = 1
    MaxCommits = 3
INVARIANT NothingSkipped
