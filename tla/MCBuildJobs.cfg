SPECIFICATION Spec
CONSTANTS
    Jobs = {j1, j2}
    Workers = {w1}
    Paths = {p1}
    Watched = {}
    None = None
    MaxRestarts = 1
    MaxTimeouts = 1
    MaxFaults = 0
SYMMETRY Symmetry
INVARIANTS OutcomeIsBacked
PROPERTIES KeepsContract SuccessIsOwnCapsule
CHECK_DEADLOCK FALSE
