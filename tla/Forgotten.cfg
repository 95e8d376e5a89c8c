SPECIFICATION Spec
CONSTANT MaxEvents = 2
INVARIANT RecoveredMeansRestored
CHECK_DEADLOCK FALSE
