SPECIFICATION Spec
CONSTANTS
    PACKET_BACKUP = 5
    DELTA_MARGIN = 2
    numSnapshotEntities = 8
    MAX_PARSE_ENTITIES = 3
    PARSE_MARGIN = 1
    Frames <- OneOrTwo
    OtherSizes = {5}
    MaxMessages = 7
    MaxEntities = 16
    Window = 1
INVARIANTS TypeOK SnapshotsIntact DeltaFrameIsKept CGameGetsWhatItAskedFor
CHECK_DEADLOCK FALSE
