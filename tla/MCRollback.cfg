SPECIFICATION Spec
CONSTANTS
    Capsules = {c1, c2}
    None = None
SYMMETRY CapsuleSymmetry
INVARIANTS
    TypeOK
    CompletedIsDone
    ReplyIsRecorded
PROPERTIES
    RepointsWhenStopped
