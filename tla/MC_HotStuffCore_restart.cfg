\* The honest leader r1, the Byzantine r4 voting for anything, and up to
\* two crashes and restarts of honest replicas (the leader included), each
\* coming back with the state the constructor and on_init give it: its
\* commits stay a chain while it catches up.  The pacemaker may keep up
\* to two async_qc_finish waits on blocks r1 proposed, and no wait
\* outlives the QC's completion.
CONSTANTS
    r1 = r1
    r2 = r2
    r3 = r3
    r4 = r4
    NoBlock = NoBlock
    Leaders <- MCLeaderR1
    Replica <- MCReplica
    Byz <- MCByz
    MaxBlock = 4
    ForgeQC = FALSE
    MaxRestarts = 2
    MaxQcWaits = 2
SPECIFICATION Spec
INVARIANTS
    DecidedIsBexecChain
    QcWaitNotStale
