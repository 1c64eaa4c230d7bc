\* Up to one lost ReqBlock or RespBlock; without a loss every message's
\* block is delivered in the end.
CONSTANTS
    p1 = p1
    p2 = p2
    nb = nb
    np = np
    Blocks <- MCBlocks
    Genesis = 0
    ParentOf <- MCParentOf
    QcOf <- MCQcOf
    Peers <- MCPeers
    Props <- MCProps
    MaxLoss = 1
    NoBlock <- nb
    NoPeer <- np
SPECIFICATION Spec
INVARIANTS TypeOK
PROPERTIES EventuallyDelivered
\* the replica idles once every message is handled, entries left stuck by a loss included
CHECK_DEADLOCK FALSE
