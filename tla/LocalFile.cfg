SPECIFICATION Spec
CONSTANTS
    File = {f, g}
    Job = {j1, j2}
    NoFile = nofile
    NoJob = nojob
    MaxVersion = 2
    MaxMessages = 2
INVARIANTS
    UrlsAreHeld
    VerifyingHoldsAFile
    LoadedWasAccepted
    RememberedWasAccepted
CHECK_DEADLOCK FALSE
