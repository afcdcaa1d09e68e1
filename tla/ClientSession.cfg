SPECIFICATION Spec
CONSTANTS
    Tab = {t1, t2}
    Call = {c1}
    BootMe = boot
    LoginMe = login
    MaxPair = 2
INVARIANTS
    RefreshesOnce
    WaitersHaveARefresh
    SpinnersEnd
PROPERTY
    SignedOutIsAsked
CHECK_DEADLOCK FALSE
