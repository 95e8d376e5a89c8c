SPECIFICATION FairSpec
CONSTANTS
  MaxEvents = 1
  Verifications <- AllVerifications
INVARIANTS GreenIsTrue ProcessesStayConfined
PROPERTIES PassIsTrue ForeignStays VerificationEnds
