SPECIFICATION FairSpec
CONSTANTS
  Pure = {TRUE, FALSE}
  Large = {"gamestate"}
  Downloads = {"http", "server"}
  EarlyRestarts = FALSE
  MaxSpawns = 1
  MaxRestarts = 1
  MaxChanges = 1
  MaxVidRestarts = 1
  MaxDownloads = 1
  MaxInFlight = 1
INVARIANTS TypeOK ConfigStringsAgree PureClientStays
PROPERTIES EntersWithGamestate ReplicaSpec CatchesUp
CHECK_DEADLOCK FALSE
