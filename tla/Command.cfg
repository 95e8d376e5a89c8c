SPECIFICATION Spec
CONSTANTS
    Requests = {{"journal"}}
    Limits = {"C"}
    MaxKills = 1
    MaxFaults = 1
    Together = TRUE
INVARIANTS
    ContainedIsTrue
    HoldCovers
    ResultIsTrue
PROPERTIES
    KeepsPromise
