SPECIFICATION Spec
CONSTANTS
    None = None
    p1 = p1
    e1 = e1
    e2 = e2
    Producers = {p1}
    Epochs = {0}
    Seqs = {0}
    StreamSeqs = {}
    ContentTypes = {"json"}
    Ttls = {1}
    ExpiresAts = {2}
    Sizes = {1}
    Edges = {e1, e2}
    ForkOffsets = {6, 7}
    PRODUCER_STATE_TTL_MS = 3
    SWEEP_LIMIT = 1
    MaxClock = 2
    MaxGeneration = 2
    MaxMessages = 1
SYMMETRY EdgeSymmetry
INVARIANTS
    NothingOutlivesMeta
    PinHolds
    NoZombie
