------------------------------ MODULE CommitLog ------------------------------
(***************************************************************************)
(* What the commit rule promises the state machine of one replica (spec    *)
(* section 6: state_machine_execute is invoked in commit order, once per   *)
(* command).  The blocks executed so far form one chain that starts at a   *)
(* child of b0, each block right after its parent, and what was executed   *)
(* stays executed.  One step appends one or more blocks, as a single       *)
(* commit of an ancestor with its uncommitted ancestors does.              *)
(***************************************************************************)
EXTENDS Sequences, SequencesExt

CONSTANT Genesis   \* b0, decided from the start and never executed

VARIABLES
    log,     \* the blocks executed, in the order they were executed
    parent   \* the primary parent of every block there is

vars == <<log>>

\* s runs down no fork: its first block is a child of b0 and every other
\* block a child of the one before it
FromGenesis(s) ==
    \A i \in 1..Len(s) : parent[s[i]] = IF i = 1 THEN Genesis ELSE s[i - 1]

Init == log = <<>>

\* A commit: the log grows at its end only, and stays a chain from b0
Commit ==
    /\ Len(log') > Len(log)
    /\ IsPrefix(log, log')
    /\ FromGenesis(log')

Spec == Init /\ [][Commit]_vars
====
