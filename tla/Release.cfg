SPECIFICATION Spec
CONSTANTS
  Commits = {1, 2, 3}
  Tree <- MCTree
  Ahead <- MCAhead
  Branch <- MCBranch
  MaxAttempts = 4
  MaxFaults = 1
  MaxLost = 1
  MaxStray = 0
INVARIANTS RunExecutesOneIntent EvidenceMatchesStore SentOnceUnlessGranted SentIsRecoverable
CHECK_DEADLOCK FALSE
