SPECIFICATION FairSpec
CONSTANTS
  N = 3
  Dirs <- NestedDirs
  Parent <- NestedParent
  Obj = {o1, o2, o3}
  NoObj = NoObj
  MaxFaults = 2
  MaxEdits = 1
  MaxApplies = 1
INVARIANTS OriginalSafe ReportTruthful
PROPERTIES NoObjectLost ImplementsAtomicInstall TransactionEnds
