\* Two threads; sends of 2 and 3 tokens out of 4, and a cancel.
SPECIFICATION Spec
CONSTANTS
    Tx = {1, 2, 3}
    Amount <- Sizes
    Cancels = {1}
    Thread = {t1, t2}
    FirstBalance = 4
    MaxReorgs = 1
INVARIANTS
    PendingExact
    
PROPERTIES
    EventuallyReleased
CHECK_DEADLOCK FALSE
