\* A replica that stays proposer: every command it accepts is batched,
\* proposed and answered, or still on its way.
CONSTANTS
    c1 = c1
    c2 = c2
    c3 = c3
    c4 = c4
    c5 = c5
    s1 = s1
    s2 = s2
    NoReq = NoReq
    Cmd <- MCCmd
    Self = s1
    Leaders <- MCLeadersSelf
    BlkSize = 2
    MaxReq = 5
    UniqueCmds = TRUE
SPECIFICATION Spec
INVARIANTS
    TypeOK
    NoRequestLost
PROPERTIES
    EventuallyAnsweredOrBuffered
