SPECIFICATION FairSpec
CONSTANTS N = 2  Edits = {e1}  MaxCheckpoints = 30  MaxFaults = 1  MaxEdits = 1  MaxSessions = 2
INVARIANTS RestoredAtRest WorkerSeesInputs NothingLost
PROPERTY RecoveryEnds
CHECK_DEADLOCK FALSE
