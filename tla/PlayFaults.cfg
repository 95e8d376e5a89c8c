SPECIFICATION FairSpec
CONSTANTS
  MaxFaults = 3
  MaxForeign = 2
INVARIANTS ReleasedOnce ReceiptTruthful
PROPERTIES NoForeignAdoption ReceiptComes
