\* Two jobs, one Manager restart, one failed write, all threads fair.
SPECIFICATION FairSpec
CONSTANTS
    Jobs = {j1, j2}
    None = None
    Percent = {100}
    MaxRestarts = 1
    MaxFaults = 1
INVARIANTS
    OutcomeIsLogged
    PageShowsOutcome
    ActiveIsOwned
PROPERTIES
    KeepsContract
    FinalIsFinal
    JobsFinish
