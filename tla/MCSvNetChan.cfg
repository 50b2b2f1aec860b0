SPECIFICATION SvSpec
CONSTANTS
    FRAGMENT_SIZE = 2
    MAX_MSGLEN = 5
    MaxSent = 3
    MaxCommands = 1
INVARIANTS TypeOK Intact InOrder NeverStranded NeitherLostNorRepeated KeyHasSequence
PROPERTY ChannelSpec
