SPECIFICATION CatchableSpec
CONSTANTS N = 1  Edits = {e1}  MaxCheckpoints = 12  MaxFaults = 2  MaxEdits = 0  MaxSessions = 1
PROPERTY RecoveryEnds
CHECK_DEADLOCK FALSE
