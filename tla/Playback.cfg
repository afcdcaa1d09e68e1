SPECIFICATION Spec
CONSTANTS
    User = {host, v1, v2}
    Host = host
    MaxVersion = 2
SYMMETRY Viewers
INVARIANTS
    TypeOK
    PlayingStatusIsTrue
    PlaybackNeedsFile
PROPERTY ImplementsRoomStatus
CHECK_DEADLOCK FALSE
