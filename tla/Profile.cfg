SPECIFICATION MCSpec
CONSTANTS
    Limits = {"run","capture","O","C","K"}
    MaxEvents = 1
    Descriptors = 3
    ChildEvents = 3
INVARIANTS
    AcceptedIsTrue
    FinalityIsTrue
    QuietRunAccepts
    ClaimIsTrue
