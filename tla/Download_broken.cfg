SPECIFICATION Spec
CONSTANTS
    Blocks <- ShortOnes
    Refusable = {}
    Uncreatable = {}
    MAX_DOWNLOAD_WINDOW = 2
    BlocksPerSnap = 2
    SHORT_RANGE = 16
    Window = 3
    MaxPending = 4
INVARIANT AcknowledgesExpectedBlock
CHECK_DEADLOCK FALSE
