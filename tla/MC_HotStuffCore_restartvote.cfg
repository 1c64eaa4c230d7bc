\* One crash and restart of an honest replica: it forgets vheight and
\* votes again at a height it already voted at.
CONSTANTS
    r1 = r1
    r2 = r2
    r3 = r3
    r4 = r4
    NoBlock = NoBlock
    Leaders <- MCLeadersHonest
    Replica <- MCReplica
    Byz <- MCByz
    MaxBlock = 2
    ForgeQC = FALSE
    MaxRestarts = 1
    MaxQcWaits = 0
SYMMETRY LeaderSymmetry
SPECIFICATION Spec
INVARIANTS
    UniqueCertifiedPerHeight
