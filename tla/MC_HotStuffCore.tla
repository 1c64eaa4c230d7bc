-------------------------- MODULE MC_HotStuffCore --------------------------
(* Model-checking instances of HotStuffCore with four replicas             *)
(* (nfaulty = 3 / 2 = 1, nmajority = 3).                                   *)
EXTENDS HotStuffCore

CONSTANTS r1, r2, r3, r4

MCReplica == {r1, r2, r3, r4}
\* one Byzantine replica, r4
MCByz == {r4}
\* two honest replicas and the Byzantine one (nfaulty = 2 / 2 = 1)
MCReplica3 == {r1, r2, r4}
\* the pacemaker only ever names the Byzantine replica as proposer
MCLeaders == {r4}
\* the pacemaker names the honest r1 or r2
MCLeadersHonest == {r1, r2}
\* the pacemaker always names the honest r1
MCLeaderR1 == {r1}

\* honest replicas are interchangeable when none of them leads
HonestSymmetry == Permutations(Honest)
\* with honest leaders, only the leaders are interchangeable
LeaderSymmetry == Permutations(MCLeadersHonest)
====
