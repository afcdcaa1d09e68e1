SPECIFICATION StageSpec
INVARIANTS
    PausedHasControls
    IdleBarHides
    ScrubberFollows
CHECK_DEADLOCK FALSE
