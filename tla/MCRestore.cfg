SPECIFICATION Spec
CONSTANTS
    MaxBackups = 3
    MaxMade = 1
    Keep = 1
    Window = 0
    Audit = 0
    Made = {"manual"}
    Plans <- MCPlans
INVARIANTS
    WayBack
    OutcomeIsTrue
CHECK_DEADLOCK FALSE
