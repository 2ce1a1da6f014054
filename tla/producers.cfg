SPECIFICATION WritesSpec
CONSTANTS
    None = None
    p1 = p1
    p2 = p2
    Producers = {p1, p2}
    Epochs = {0, 1}
    Seqs = {0, 1}
    StreamSeqs = {1, 2}
    ContentTypes = {"json"}
    Ttls = {}
    ExpiresAts = {}
    Sizes = {1}
    Edges = {}
    ForkOffsets = {}
    PRODUCER_STATE_TTL_MS = 0
    SWEEP_LIMIT = 1
    MaxClock = 1
    MaxGeneration = 1
    MaxMessages = 3
SYMMETRY ProducerSymmetry
INVARIANTS
    TypeOK
    InOrderOnce
    DedupRemembers
    StreamSeqOrdered
    RetrySettled
PROPERTIES
    ClosedForGood
    ImplementsLog
