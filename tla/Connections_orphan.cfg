SPECIFICATION TrafficSpec
CONSTANTS
    a = a
    Nobody = Nobody
    p1 = p1
    NoPort = NoPort
    Ports = {p1}
    Clients = {a}
    sv_maxclients = 1
    MAX_CHALLENGES = 1
    Denies = {}
    Steady = {a}
    MaxChallenges = 1
    MaxConnects = 1
    MaxFaults = 1
    MaxInFlight = 1
    QuietTimes = TRUE
PROPERTY OrphanLeaves
CHECK_DEADLOCK FALSE
