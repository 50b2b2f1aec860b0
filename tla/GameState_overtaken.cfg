SPECIFICATION Spec
CONSTANTS
  Pure = {TRUE}
  Large = {"gamestate", "snapshot"}
  Downloads = {}
  EarlyRestarts = FALSE
  MaxSpawns = 0
  MaxRestarts = 0
  MaxChanges = 2
  MaxVidRestarts = 0
  MaxDownloads = 0
  MaxInFlight = 2
INVARIANT ConfigStringsAgree
CHECK_DEADLOCK FALSE
