SPECIFICATION Spec
CONSTANTS
    MAX_RELIABLE_COMMANDS = 2
    FloodProtect = FALSE
    MaxServerCommands = 1
    MaxClientCommands = 3
    ServerAhead = 1
    ClientAhead = 3
    Window = 1
INVARIANTS ClientCommandsAsIssued
CHECK_DEADLOCK FALSE
