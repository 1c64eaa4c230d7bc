\* Spec S6: exactly the blocks at or below the staleness height are released.
CONSTANTS
    MaxBlk = 4
    MaxParents = 2
    MaxStaleness = 3
SPECIFICATION Spec
INVARIANTS EvictsByHeight
\* prune returns
CHECK_DEADLOCK FALSE
