SPECIFICATION Spec
CONSTANTS
    Frames <- MCFrames
    Seq16 = {1, 2, 3}
    Wrap = 4
    HbTimeout = 1
    MaxFrames = 4
INVARIANTS
    RecoveryClosed
CHECK_DEADLOCK FALSE
