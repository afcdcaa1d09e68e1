SPECIFICATION Spec
CONSTANTS
    User = {host, viewer}
    Host = host
    Heartbeat = heartbeat
    MaxVersion = 2
    MaxSeq = 7
    MaxQueue = 1
    MaxEvents = 1
INVARIANTS
    TypeOK
    CounterIsAhead
    FreshSocketHydrates
    ClientsAgree
CHECK_DEADLOCK FALSE
