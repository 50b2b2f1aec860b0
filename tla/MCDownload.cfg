SPECIFICATION FairSpec
CONSTANTS
    Blocks <- LongThenShort
    Refusable = {2}
    Uncreatable = {3}
    MAX_DOWNLOAD_WINDOW = 3
    BlocksPerSnap = 2
    SHORT_RANGE = 10
    Window = 4
    MaxPending = 4
INVARIANTS TypeOK FinishedIntact WindowKept AcknowledgesExpectedBlock
PROPERTY DownloadsEnd
CHECK_DEADLOCK FALSE
