\* A Notify naming a block that is not in storage yet, over connections that lose nothing.
CONSTANTS
    p1 = p1
    p2 = p2
    nb = nb
    np = np
    Blocks <- MCBlocks
    Genesis = 0
    ParentOf <- MCParentOf
    QcOf <- MCQcOf
    Peers <- MCPeers
    Props <- MCProps
    MaxLoss = 0
    NoBlock <- nb
    NoPeer <- np
SPECIFICATION Spec
INVARIANTS NotifyWithoutCrash
