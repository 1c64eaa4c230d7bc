\* async_deliver_blk delivers a block without looking at the result of
\* blk->verify: a Byzantine proposer's QCs need not be signed by a quorum.
CONSTANTS
    r1 = r1
    r2 = r2
    r3 = r3
    r4 = r4
    NoBlock = NoBlock
    Leaders <- MCLeaders
    Replica <- MCReplica3
    Byz <- MCByz
    MaxBlock = 3
    ForgeQC = TRUE
    MaxRestarts = 0
    MaxQcWaits = 0
SYMMETRY HonestSymmetry
SPECIFICATION Spec
INVARIANTS
    BexecCertified
