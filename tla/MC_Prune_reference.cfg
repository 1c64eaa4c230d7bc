\* Every DAG over b0..b4 with up to one uncle per block, every bexec and
\* staleness 0..3: prune releases exactly what the reference says.
CONSTANTS
    MaxBlk = 4
    MaxParents = 2
    MaxStaleness = 3
SPECIFICATION Spec
INVARIANTS TypeOK PruneMatchesReference
\* prune returns
CHECK_DEADLOCK FALSE
