SPECIFICATION FairSpec
CONSTANTS
    User = {host, viewer}
    Host = host
    Conn = {c1, c2}
    None = none
    MaxTickets = 1
    MaxLeaves = 0
    MaxFaults = 0
    MaxRestarts = 0
PROPERTIES
    GraceRecordResolves
    RestCloseDrains
CHECK_DEADLOCK FALSE
