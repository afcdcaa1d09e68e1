SPECIFICATION FairSpec
CONSTANTS
    Room = {ra, rb}
    Hosted = {ra}
    Home = home
    Attempt = {a1, a2}
    NoSocket = none
    MaxMounts = 3
INVARIANTS
    NeverGivesUp
    SingleLifeline
    ConnectedIsTrue
PROPERTY Recovers
CHECK_DEADLOCK FALSE
