SPECIFICATION Spec
CONSTANTS
    User = {host, viewer}
    Host = host
    File = {f1, f2}
    NoFile = noFile
    HostTabs = 1
    ViewerTabs = 1
    MaxVersion = 2
    MaxLeaves = 1
SYMMETRY Files
INVARIANTS
    TypeOK
    MemoryFollowsDatabase
    HostGateIsCurrent
    ReadyWasProved
PROPERTY VersionNeverRegresses
CHECK_DEADLOCK FALSE
