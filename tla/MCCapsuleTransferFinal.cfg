SPECIFICATION Spec
CONSTANTS
    Uploads = {u1, u2}
    Builds = {bad, good}
    Good = {good}
    None = None
    Chunks = 2
    MaxRebuilds = 0
    MaxKills = 0
CHECK_DEADLOCK FALSE
INVARIANTS
    FinalIsWhole
