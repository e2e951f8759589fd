SPECIFICATION PSpec
CONSTANTS
    Jobs = {j1, j2}
    Keys = {k1}
    NoKey = NoKey
    j1 = j1
    j2 = j2
    k1 = k1
    Requests <- MCRequests
    Handled = {"manifest", "image", "spaced"}
    MaxEdits = 3
INVARIANTS
    AcceptedIsDeclared
    AcceptedIsInstallable
CHECK_DEADLOCK FALSE
