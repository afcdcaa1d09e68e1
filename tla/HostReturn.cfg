SPECIFICATION Spec
CONSTANTS
    User = {host, viewer}
    Host = host
    Conn = {c1, c2, c3}
    None = none
    MaxTickets = 1
    MaxLeaves = 0
    MaxFaults = 0
    MaxRestarts = 0
INVARIANT HostReturnReopensRoom
CHECK_DEADLOCK FALSE
