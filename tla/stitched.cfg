SPECIFICATION Spec
CONSTANTS
    None = None
    Refused = Refused
    Streams = {"leaf", "fork", "root"}
    Source <- Chain
    Sizes = {1, 3}
    SubOffsets = {1, 2}
    MAX_READ_ROWS = 2
    MAX_READ_BYTES = 4
    MaxGeneration = 3
    MaxMessages = 3
    MaxChanges = 2
CHECK_DEADLOCK FALSE
INVARIANTS
    TypeOK
    StitchedWhole
    UncappedReachesTail
    CappedAdvances
    WithinBudget
    BodyIsOneArray
    SubOffsetOfSource
