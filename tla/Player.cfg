SPECIFICATION Spec
CONSTANTS
    MaxVersion = 2
    MaxMessages = 3
INVARIANTS
    InStep
    AnnouncedIsReady
    NudgesEnd
CHECK_DEADLOCK FALSE
