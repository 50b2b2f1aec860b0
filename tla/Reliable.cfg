SPECIFICATION FairSpec
CONSTANTS
    MAX_RELIABLE_COMMANDS = 2
    FloodProtect = TRUE
    MaxServerCommands = 4
    MaxClientCommands = 2
    ServerAhead = 3
    ClientAhead = 1
    Window = 1
INVARIANTS TypeOK ServerCommandsAsIssued SnapshotAfterCommands KeysAgree ClientCommandsAsIssued MoveAfterCommands
PROPERTIES CommandsArrive DroppedClientLeaves
CHECK_DEADLOCK FALSE
