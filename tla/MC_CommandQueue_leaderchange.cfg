\* The pacemaker hands the turn to s2 while commands are queued or a
\* batch waits on beat(): the handler and the beat callback drop them.
CONSTANTS
    c1 = c1
    c2 = c2
    c3 = c3
    c4 = c4
    c5 = c5
    s1 = s1
    s2 = s2
    NoReq = NoReq
    Cmd <- MCCmd
    Self = s1
    Leaders <- MCLeadersTwo
    BlkSize = 2
    MaxReq = 5
    UniqueCmds = TRUE
SYMMETRY CmdSymmetry
SPECIFICATION Spec
INVARIANTS
    NoRequestLost
