--------------------------- MODULE MC_CommandQueue ---------------------------
(* Instances of CommandQueue for TLC: five command hashes, batches of two. *)
EXTENDS CommandQueue, TLC

CONSTANTS c1, c2, c3, c4, c5, s1, s2

MCCmd == {c1, c2, c3, c4, c5}
\* the pacemaker always names this replica
MCLeadersSelf == {s1}
\* the pacemaker may hand the turn to s2 and back
MCLeadersTwo == {s1, s2}
CmdSymmetry == Permutations(MCCmd)
====
