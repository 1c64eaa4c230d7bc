--------------------------- MODULE MC_BlockDelivery ---------------------------
(* A chain b0 <- b1 <- b2 <- b3 whose QCs refer to b0, b1 and b1 (so b3's  *)
(* QC block is not its parent), and two peers.  MCProps has one message of *)
(* every type a handler delivers a block for: p1's proposal of b3 and p2's *)
(* vote for it, a NewView and a BlameNotify whose hqc block is b2, and a   *)
(* Status and a Notify naming b1.  MCPropsLossy has proposals of b1, b2    *)
(* and b3 from p1 and p2's vote for b3.                                    *)
EXTENDS BlockDelivery, TLC

CONSTANTS p1, p2, nb, np

MCBlocks == 0..3
MCParentOf == [h \in 1..3 |-> h - 1]
MCQcOf == (1 :> 0) @@ (2 :> 1) @@ (3 :> 1)
MCPeers == {p1, p2}
MCProps == {[type |-> "propose", src |-> p1, blk |-> 3],
            [type |-> "vote", src |-> p2, blk |-> 3],
            [type |-> "newview", src |-> p1, blk |-> 2],
            [type |-> "blamenotify", src |-> p2, blk |-> 2],
            [type |-> "status", src |-> p2, blk |-> 1],
            [type |-> "notify", src |-> p2, blk |-> 1]}
MCPropsLossy == {[type |-> "propose", src |-> p1, blk |-> 1],
                 [type |-> "propose", src |-> p1, blk |-> 2],
                 [type |-> "propose", src |-> p1, blk |-> 3],
                 [type |-> "vote", src |-> p2, blk |-> 3]}
====
