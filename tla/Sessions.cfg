SPECIFICATION MCSpec
CONSTANTS
  MaxEvents = 2
  Calls = {1, 2}
  Requests <- LaneRequests
  LaneEvents = 1
INVARIANTS NothingLeftBehind CleanMeansRestored UserWins LaneFenced ReceiptIsTrue OrdinaryMeansSettled
PROPERTIES RecoveryEnds
CHECK_DEADLOCK FALSE
