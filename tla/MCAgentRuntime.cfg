SPECIFICATION Spec
CONSTANTS
    Capsules = {c1}
    DefaultCapsule = c1
    Builds = {good, bad}
    Signed = {good}
    Unloaded = Unloaded
    Passwords = {p1, p2}
    Placeholder = Placeholder
    Requests <- MCRequests
    RequireToken = TRUE
    RequireAudit = TRUE
    None = None
SYMMETRY Interchangeable
INVARIANTS TypeOK PasswordKept AppliedIsWhole
PROPERTIES GatedStartRunsVerified ChangesAreRecorded KeepsContract
