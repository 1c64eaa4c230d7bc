-------------------------------- MODULE Prune --------------------------------
(***************************************************************************)
(* HotStuffCore::prune(staleness), src/src/consensus.cpp lines 235-256:    *)
(* from bexec, step staleness primary parents down to start (returning if  *)
(* a block without parents is met on the way), then walk depth first from  *)
(* start over every parent edge, nulling qc_ref and popping the parents    *)
(* of each block, and releasing a block from storage once it has no        *)
(* parents left.                                                           *)
(*                                                                         *)
(* The input is any block DAG over blocks 0..MaxBlk in creation order:     *)
(* block 0 is b0, every other block has a primary parent and at most       *)
(* MaxParents - 1 further parents (uncles), all created before it.  A      *)
(* Byzantine proposer may choose any such parents, so every such DAG can   *)
(* be in a replica's storage.  Each step of the model is one iteration of  *)
(* one of the two loops.                                                   *)
(***************************************************************************)
EXTENDS Naturals, Sequences, SequencesExt, TLC

CONSTANTS MaxBlk, MaxParents, MaxStaleness

Blocks == 0..MaxBlk
Genesis == 0

\* The parent lists block b can have: distinct earlier blocks, primary first
ParentSeqs(b) ==
    {s \in BoundedSeq(0..(b - 1), MaxParents) : Len(s) >= 1 /\ IsInjective(s)}

\* Every block DAG over Blocks, as the parent list of each block
RECURSIVE DagsUpTo(_)
DagsUpTo(n) ==
    IF n = 0 THEN {Genesis :> <<>>}
    ELSE {d @@ (n :> s) : d \in DagsUpTo(n - 1), s \in ParentSeqs(n)}

\* Block heights as on_deliver_blk sets them: one above the primary parent
RECURSIVE HeightIn(_, _)
HeightIn(d, b) == IF d[b] = <<>> THEN 0 ELSE HeightIn(d, d[b][1]) + 1

VARIABLES
    dag,       \* the parent lists before prune ran (never changes)
    bexec,     \* bexec
    staleness, \* the argument of prune (never changes)
    parents,   \* blk->parents of every block
    qcNull,    \* the blocks whose qc_ref prune has set to nullptr
    released,  \* the blocks passed to storage->try_release_blk
    stack,     \* std::stack<block_t> s (top last)
    start,     \* start
    stal,      \* staleness, counted down by the skip loop
    pc         \* "skip", "walk" or "done"

vars == <<dag, bexec, staleness, parents, qcNull, released, stack, start, stal, pc>>

Init ==
    /\ dag \in DagsUpTo(MaxBlk)
    /\ parents = dag
    /\ bexec \in Blocks
    /\ staleness \in 0..MaxStaleness
    /\ stal = staleness
    /\ start = bexec
    /\ qcNull = {}
    /\ released = {}
    /\ stack = <<>>
    /\ pc = "skip"

(***************************************************************************)
(* The skip loop, lines 238-239: with staleness left, return if start has  *)
(* no parents, else step to parents[0]; with none left, null start's       *)
(* qc_ref and push it (lines 241-242).                                     *)
(***************************************************************************)
\* Mutation: the skip loop takes one step more than staleness
SkipOneMore ==
    /\ pc = "skip"
    /\ IF parents[start] = <<>>
         THEN /\ pc' = "done"
              /\ UNCHANGED <<qcNull, stack, start, stal>>
         ELSE /\ start' = parents[start][1]
              /\ stal' = stal - 1
              /\ UNCHANGED <<qcNull, stack, pc>>
    /\ UNCHANGED <<dag, bexec, staleness, parents, released>>

Skip ==
    /\ pc = "skip"
    /\ IF stal = 0
         THEN /\ qcNull' = qcNull \cup {start}
              /\ stack' = <<start>>
              /\ pc' = "walk"
              /\ UNCHANGED <<start, stal>>
         ELSE IF parents[start] = <<>>
           THEN /\ pc' = "done"
                /\ UNCHANGED <<qcNull, stack, start, stal>>
           ELSE /\ start' = parents[start][1]
                /\ stal' = stal - 1
                /\ UNCHANGED <<qcNull, stack, pc>>
    /\ UNCHANGED <<dag, bexec, staleness, parents, released>>

\* Mutation: the walk follows the primary parent only and drops the rest
WalkPrimaryOnly ==
    /\ pc = "walk"
    /\ stack # <<>>
    /\ LET b == Last(stack)
       IN  IF parents[b] = <<>>
             THEN /\ released' = released \cup {b}
                  /\ stack' = Front(stack)
                  /\ UNCHANGED <<parents, qcNull>>
             ELSE /\ qcNull' = qcNull \cup {b}
                  /\ stack' = Append(stack, parents[b][1])
                  /\ parents' = [parents EXCEPT ![b] = <<>>]
                  /\ UNCHANGED released
    /\ UNCHANGED <<dag, bexec, staleness, start, stal, pc>>

(***************************************************************************)
(* One iteration of the depth-first loop, lines 243-254, on the block b on *)
(* top of the stack: without parents it is released and popped; otherwise *)
(* its qc_ref is nulled and its last parent moved from its list onto the   *)
(* stack.                                                                  *)
(***************************************************************************)
Walk ==
    /\ pc = "walk"
    /\ stack # <<>>
    /\ LET b == Last(stack)
       IN  IF parents[b] = <<>>
             THEN /\ released' = released \cup {b}
                  /\ stack' = Front(stack)
                  /\ UNCHANGED <<parents, qcNull>>
             ELSE /\ qcNull' = qcNull \cup {b}
                  /\ stack' = Append(stack, Last(parents[b]))
                  /\ parents' = [parents EXCEPT ![b] = Front(@)]
                  /\ UNCHANGED released
    /\ UNCHANGED <<dag, bexec, staleness, start, stal, pc>>

\* The stack is empty: prune returns
Finish ==
    /\ pc = "walk"
    /\ stack = <<>>
    /\ pc' = "done"
    /\ UNCHANGED <<dag, bexec, staleness, parents, qcNull, released, stack, start,
                   stal>>

Next == Skip \/ Walk \/ Finish

Spec == Init /\ [][Next]_vars

-----------------------------------------------------------------------------
TypeOK ==
    /\ parents \in [Blocks -> Seq(Blocks)]
    /\ qcNull \subseteq Blocks /\ released \subseteq Blocks
    /\ stack \in Seq(Blocks) /\ Len(stack) <= MaxBlk + 1
    /\ start \in Blocks /\ stal \in 0..MaxStaleness
    /\ pc \in {"skip", "walk", "done"}

\* Reference definitions, over the DAG as it was before prune: the block
\* staleness heights below bexec on its primary chain, and every block
\* reachable from it over parent edges (a fixpoint: Graphs' Descendants
\* computes a transitive closure over all pairs, too slow to evaluate in
\* every final state)
RECURSIVE Reach(_)
Reach(S) == LET T == S \cup UNION {ToSet(dag[b]) : b \in S}
            IN  IF T = S THEN S ELSE Reach(T)

RECURSIVE PrimaryAt(_, _)
PrimaryAt(b, h) == IF HeightIn(dag, b) <= h THEN b ELSE PrimaryAt(dag[b][1], h)

Stale == PrimaryAt(bexec, HeightIn(dag, bexec) - staleness)

ToRelease ==
    IF HeightIn(dag, bexec) < staleness THEN {}
    ELSE Reach({Stale})

\* Spec 4.1 (pruning): once prune returns, exactly the block staleness
\* below bexec and everything reachable from it over any parent edge has
\* been released, with its parents severed and its qc_ref nulled (b0's own
\* qc_ref excepted: it has no parents to trigger the nulling); every other
\* block keeps its parent list, so the last staleness blocks below bexec
\* stay reachable.
PruneMatchesReference ==
    pc = "done" =>
        /\ released = ToRelease
        /\ \A b \in Blocks :
              parents[b] = IF b \in ToRelease THEN <<>> ELSE dag[b]
        /\ ToRelease \ {Genesis} \subseteq qcNull

\* Spec S6: prune(s) evicts exactly the blocks at heights up to bexec's
\* height minus s.  The depth-first walk reaches only what parent edges
\* lead to from the block s below bexec: fork blocks at or below that
\* height are never released, and an uncle edge (on_deliver_blk bounds no
\* uncle's height) leads it to blocks above that height, whose parents it
\* severs and which it releases.
EvictsByHeight ==
    pc = "done" /\ HeightIn(dag, bexec) >= staleness =>
        \A b \in Blocks :
            b \in released <=> HeightIn(dag, b) + staleness <= HeightIn(dag, bexec)

====
