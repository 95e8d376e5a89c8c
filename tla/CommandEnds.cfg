SPECIFICATION FairSpec
CONSTANTS
    Requests = {{}}
    Limits = {"run", "C"}
    MaxKills = 1
    MaxFaults = 0
    Together = FALSE
INVARIANTS
    QuietRunCompletes
PROPERTIES
    OrphansEnd
    OutcomeComes
