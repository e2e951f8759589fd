SPECIFICATION Spec
CONSTANTS
    Uploads = {u1, u2, u3}
    Builds = {bad, good}
    Good = {good}
    None = None
    Chunks = 1
    MaxRebuilds = 1
    MaxKills = 1
SYMMETRY UploadSymmetry
CHECK_DEADLOCK FALSE
INVARIANTS
    TypeOK
    CopiedIsThere
PROPERTIES
    DeployImportsItsCopy
