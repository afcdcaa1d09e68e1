SPECIFICATION Spec
CONSTANTS
    User = {host, viewer}
    Host = host
    Conn = {c1, c2}
    None = none
    MaxTickets = 1
    MaxLeaves = 1
    MaxFaults = 1
    MaxRestarts = 1
SYMMETRY Connections
INVARIANTS
    TypeOK
    RegisteredIsServed
    GraceRecordBacked
    OccupiedRoomIsEquipped
    RestClosedRoomIsSealed
CHECK_DEADLOCK FALSE
