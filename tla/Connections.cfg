SPECIFICATION Spec
CONSTANTS
    a = a
    b = b
    Nobody = Nobody
    p1 = p1
    p2 = p2
    p3 = p3
    NoPort = NoPort
    Ports = {p1, p2, p3}
    Clients = {a, b}
    sv_maxclients = 2
    MAX_CHALLENGES = 1
    Denies = {"new"}
    Steady = {}
    MaxChallenges = 2
    MaxConnects = 2
    MaxFaults = 1
    MaxInFlight = 2
    QuietTimes = FALSE
SYMMETRY Interchangeable
INVARIANTS TypeOK OneSlotEach GameKnowsClients
PROPERTY RosterSpec
CHECK_DEADLOCK FALSE
