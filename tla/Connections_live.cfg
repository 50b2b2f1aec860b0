SPECIFICATION FairSpec
CONSTANTS
    a = a
    b = b
    Nobody = Nobody
    p1 = p1
    p2 = p2
    NoPort = NoPort
    Ports = {p1, p2}
    Clients = {a, b}
    sv_maxclients = 1
    MAX_CHALLENGES = 2
    Denies = {}
    Steady = {a}
    MaxChallenges = 4
    MaxConnects = 2
    MaxFaults = 0
    MaxInFlight = 2
    QuietTimes = TRUE
PROPERTY GetsIn
CHECK_DEADLOCK FALSE
