SPECIFICATION ChatSpec
CONSTANTS
    Request = {q1, q2}
    Page = 1
    MaxMessages = 3
INVARIANTS
    NoDuplicates
    OlderAreReachable
CHECK_DEADLOCK FALSE
SYMMETRY Symmetry
