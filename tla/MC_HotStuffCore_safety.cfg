\* Safety of the voting and commit rules against a Byzantine proposer that
\* equivocates, attaches any genuine QC and withholds blocks.
CONSTANTS
    r1 = r1
    r2 = r2
    r3 = r3
    r4 = r4
    NoBlock = NoBlock
    Leaders <- MCLeaders
    Replica <- MCReplica
    Byz <- MCByz
    MaxBlock = 4
    ForgeQC = FALSE
    MaxRestarts = 0
    MaxQcWaits = 0
SYMMETRY HonestSymmetry
SPECIFICATION Spec
INVARIANTS
    TypeOK
    UniqueCertifiedPerHeight
    DecidedIsBexecChain
PROPERTIES
    Monotone
    ImplementsCommitLog
