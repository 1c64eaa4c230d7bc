---------------------------- MODULE HotStuffCore ----------------------------
(***************************************************************************)
(* The consensus core of libhotstuff (src/src/consensus.cpp, HotStuffCore) *)
(* run by every honest replica, against Byzantine replicas that propose    *)
(* arbitrary blocks and vote for anything.                                 *)
(*                                                                         *)
(* Blocks are identified by their creation index; block 0 is the genesis   *)
(* block b0.  A block's content (primary parent, the block its QC refers   *)
(* to, its height and creator) is global: it is what its hash commits to.  *)
(* What a replica knows of a block (delivered, decided, voters counted,    *)
(* and the fields on_deliver_blk fills in) is per replica.                 *)
(*                                                                         *)
(* The fetch/deliver pipeline of hotstuff.cpp is abstracted here to its    *)
(* outcome: propose_handler runs on_receive_proposal in the same promise   *)
(* resolution that delivers the block, after on_deliver_blk has run for    *)
(* each missing ancestor, oldest first.  As in async_deliver_blk, the      *)
(* result of blk->verify is not consulted, so a block whose QC is not      *)
(* backed by a quorum is delivered like any other (ForgeQC lets Byzantine  *)
(* replicas attach such QCs).  Commands and signatures are left out; the   *)
(* pacemaker is reduced to its choices: which replicas it names proposer   *)
(* (Leaders) and a parent among the tails.                                 *)
(***************************************************************************)
EXTENDS Naturals, FiniteSets, Sequences, TLC

CONSTANTS
    \* the replicas, as configured by HotStuffBase::start / add_replica
    Replica,
    \* the Byzantine replicas; the others run the code below
    Byz,
    \* the largest block index that may be created (bounds the run)
    MaxBlock,
    \* whether Byzantine proposers attach QCs no quorum signed
    ForgeQC,
    \* a null block reference (block_t nullptr)
    NoBlock,
    \* the replicas the pacemaker may name as proposer (get_proposer)
    Leaders,
    \* how many times honest replicas may crash and start again
    MaxRestarts,
    \* how many qc_waiting entries the honest replicas keep at once, in all
    MaxQcWaits

ASSUME /\ Byz \subseteq Replica /\ Leaders \subseteq Replica
       /\ MaxBlock \in Nat /\ ForgeQC \in BOOLEAN /\ MaxRestarts \in Nat
       /\ MaxQcWaits \in Nat

Honest == Replica \ Byz

\* HotStuffBase::start: nfaulty = peers.size() / 2, peers excludes self;
\* HotStuffCore::on_init: nmajority = 2 * nfaulty + 1
NFaulty == (Cardinality(Replica) - 1) \div 2
NMajority == 2 * NFaulty + 1

Genesis == 0
BlockId == 0..MaxBlock

VARIABLES
    blk,        \* content of every created block: [parent, qc, height, proposer]
    proposals,  \* blocks broadcast in a Proposal message
    votes,      \* Vote messages sent by honest replicas: [voter, blk]
    delivered,  \* delivered[r]: blocks with blk->delivered at r
    tails,      \* tails[r]: HotStuffCore::tails
    vheight,    \* vheight[r]
    hqc,        \* hqc[r]: the block of hqc.first
    bexec,      \* bexec[r]
    decided,    \* decided[r]: blocks with blk->decision = 1 at r
    executed,   \* executed[r]: the blocks do_decide was called for, in order
    voted,      \* voted[r][b]: blk->voted at r, the voters counted into self_qc
    thrown,     \* thrown[r]: the runtime_errors r's handlers have raised
    qcwait,     \* qcwait[r]: the blocks with a qc_waiting entry at r
    restarts    \* how many restarts have happened

vars == <<blk, proposals, votes, delivered, tails, vheight, hqc, bexec,
          decided, executed, voted, thrown, qcwait, restarts>>

Created == DOMAIN blk
Errors == {"EmptyQcRef", "SafetyBreached", "BelowVheight"}

Height(b) == blk[b].height
Parent(b) == blk[b].parent

\* Block fields as a replica whose delivered blocks are d sees them.
\* on_deliver_blk sets height and qc_ref; a block that is only fetched
\* keeps height 0 and a null qc_ref.
\* Mutation: the height of a block read whether or not it was delivered
HeightAtRaw(d, b) == Height(b)
HeightAt(d, b) == IF b \in d THEN Height(b) ELSE 0
QcRefAt(d, b) == IF b \in d THEN blk[b].qc ELSE NoBlock

\* Walking parents[0] from b while the height is above h
RECURSIVE AncestorAt(_, _)
AncestorAt(b, h) == IF Height(b) <= h \/ b = Genesis THEN b
                    ELSE AncestorAt(Parent(b), h)

\* b and every block on its primary-parent chain
RECURSIVE Chain(_)
Chain(b) == IF b = Genesis THEN {b} ELSE {b} \cup Chain(Parent(b))

Extends(b, a) == a \in Chain(b)

(***************************************************************************)
(* The pieces of HotStuffCore's handlers.                                  *)
(***************************************************************************)

\* Mutation: update_hqc without the height comparison
UpdateHqcAlways(d, h, b) == b
\* update_hqc: replace hqc when the certified block is higher
UpdateHqc(d, h, b) == IF HeightAt(d, b) > HeightAt(d, h) THEN b ELSE h

\* update, lines 99-105: the commit candidate p exists when blk carries a
\* QC for its own primary parent and neither is decided yet
CommitCandidate(r, d, b) ==
    /\ QcRefAt(d, b) # NoBlock
    /\ b \notin decided[r]
    /\ Parent(b) \notin decided[r]
    /\ Parent(b) = QcRefAt(d, b)

\* Mutation: the walk stops one block above bexec's height
CommitQueueShort(r, d, p) ==
    {b \in Chain(p) : Height(b) > HeightAt(d, bexec[r]) + 1}
\* update, lines 107-112: the blocks walked from p down to bexec's height
CommitQueue(r, d, p) == {b \in Chain(p) : Height(b) > HeightAt(d, bexec[r])}

\* Mutation: the commit queue executed from its front, newest block first
RECURSIVE CommitOrderNewestFirst(_, _)
CommitOrderNewestFirst(b, h) ==
    IF Height(b) > h THEN <<b>> \o CommitOrderNewestFirst(Parent(b), h) ELSE <<>>
\* update, lines 107-126: the walk pushes p and its ancestors above height
\* h, and the loop over commit_queue.rbegin() sets decision and calls
\* do_decide for them oldest first
RECURSIVE CommitOrder(_, _)
CommitOrder(b, h) ==
    IF Height(b) > h THEN CommitOrder(Parent(b), h) \o <<b>> ELSE <<>>

\* update, line 113: the walk must end on bexec
WalkReachesBexec(r, d, p) == AncestorAt(p, HeightAt(d, bexec[r])) = bexec[r]

\* update(nblk) as a whole, given b = nblk->qc_ref: the error it raises
\* (or "None") and the new hqc, decided set and bexec it leaves behind
Update(r, d, b) ==
    LET h == UpdateHqc(d, hqc[r], b)
        p == Parent(b)
    IN  CASE b = NoBlock ->
               [err |-> "EmptyQcRef", hqc |-> hqc[r],
                decided |-> decided[r], bexec |-> bexec[r], exec |-> <<>>]
          [] ~CommitCandidate(r, d, b) ->
               [err |-> "None", hqc |-> h,
                decided |-> decided[r], bexec |-> bexec[r], exec |-> <<>>]
          [] ~WalkReachesBexec(r, d, p) ->
               [err |-> "SafetyBreached", hqc |-> h,
                decided |-> decided[r], bexec |-> bexec[r], exec |-> <<>>]
          [] OTHER ->
               [err |-> "None", hqc |-> h,
                decided |-> decided[r] \cup CommitQueue(r, d, p), bexec |-> p,
                exec |-> CommitOrder(p, HeightAt(d, bexec[r]))]

\* Mutation: vote at a height already voted at
OpinionSameHeight(r, d, b, h) ==
    /\ Height(b) >= vheight[r]
    /\ AncestorAt(b, HeightAt(d, h)) = h
\* on_receive_proposal, lines 177-189: vote iff the block is above vheight
\* and lies on the branch of the (just updated) hqc
Opinion(r, d, b, h) ==
    /\ Height(b) > vheight[r]
    /\ AncestorAt(b, HeightAt(d, h)) = h

\* on_qc_finish, lines 276-283: the qc_waiting entry of b, if any, is
\* resolved and erased
OnQcFinish(r, b) == [qcwait EXCEPT ![r] = @ \ {b}]

\* on_propose, lines 140-144: carry the parent's QC once it is complete
ProposalQc(r, p) == IF Cardinality(voted[r][p]) >= NMajority THEN p ELSE NoBlock

\* on_receive_vote, lines 205-211: the vote is counted
CountsVote(r, v, b) ==
    /\ Cardinality(voted[r][b]) < NMajority
    /\ v \notin voted[r][b]

\* The replicas whose signature over b exists: the honest votes sent
\* (do_vote), the Byzantine replicas, and an honest proposer's self-vote
\* (lines 159-165), which exists only in its own blk->voted and self_qc
\* and so is gone once that replica restarts
Signers(b) ==
    {m.voter : m \in {m \in votes : m.blk = b}} \cup Byz
      \cup {p \in Honest : p \in voted[p][b]}

\* A QC over b travels inside every block that carries it (lines 140-144);
\* a Byzantine block's QC is genuine unless ForgeQC
QcCarried(b) ==
    \E c \in Created \ {Genesis} :
        blk[c].qc = b /\ (blk[c].proposer \in Honest \/ ~ForgeQC)

\* A QC over b exists or can be assembled: b0's synthetic QC, a self_qc
\* an honest replica completed and still holds, a QC carried in a block,
\* or nmajority signatures
Certified(b) ==
    \/ b = Genesis
    \/ \E r \in Honest : Cardinality(voted[r][b]) >= NMajority
    \/ QcCarried(b)
    \/ Cardinality(Signers(b)) >= NMajority

\* get_delivered_blk, lines 51-56: a block the handler may use; any other
\* makes it throw "block not delivered" before any state change
GetDeliveredBlk(r, b) == b \in delivered[r]

\* add_replica, lines 258-263, for every replica: b0->voted holds them all,
\* so b0's QC counts as complete; no other block has a voter yet
InitVoted == [b \in BlockId |-> IF b = Genesis THEN Replica ELSE {}]

-----------------------------------------------------------------------------
(***************************************************************************)
(* Initial state: the constructor, add_replica for every replica, on_init. *)
(***************************************************************************)
Init ==
    /\ blk = (Genesis :> [parent |-> NoBlock, qc |-> Genesis, height |-> 0,
                          proposer |-> NoBlock])
    /\ proposals = {}
    /\ votes = {}
    /\ delivered = [r \in Honest |-> {Genesis}]
    /\ tails = [r \in Honest |-> {Genesis}]
    /\ vheight = [r \in Honest |-> 0]
    /\ hqc = [r \in Honest |-> Genesis]
    /\ bexec = [r \in Honest |-> Genesis]
    /\ decided = [r \in Honest |-> {Genesis}]
    /\ executed = [r \in Honest |-> <<>>]
    /\ voted = [r \in Honest |-> InitVoted]
    /\ thrown = [r \in Honest |-> {}]
    /\ qcwait = [r \in Honest |-> {}]
    /\ restarts = 0

NewBlock == Cardinality(Created)
CanCreate == NewBlock <= MaxBlock

\* async_deliver_blk(b): the blocks of b's primary chain not yet delivered
\* at r; each is fetched, its parents delivered first (recursively), and
\* then passed to on_deliver_blk.  The block its QC refers to need only be
\* fetched.
Missing(r, b) == Chain(b) \ delivered[r]

(***************************************************************************)
(* HotStuffCore::on_deliver_blk for each block of the set New, oldest      *)
(* first, Ps being their parents: each is marked delivered, its parent     *)
(* leaves the tails and the block joins them.                              *)
(***************************************************************************)
DeliverBlocks(r, New, Ps) ==
    /\ delivered' = [delivered EXCEPT ![r] = @ \cup New]
    /\ tails' = [tails EXCEPT ![r] = (@ \cup New) \ Ps]

(***************************************************************************)
(* HotStuffCore::on_propose(cmds, {p}) at honest replica r.  Each throw    *)
(* ends the handler with the effects made before it.                       *)
(***************************************************************************)
Propose(r, p) ==
    /\ r \in Leaders
    /\ CanCreate
    /\ p \in tails[r]
    /\ LET n   == NewBlock
           d   == delivered[r] \cup {n}
           q   == ProposalQc(r, p)
           u   == Update(r, d, q)
           ok  == u.err = "None" /\ Height(p) + 1 > vheight[r]
           err == IF u.err # "None" THEN u.err ELSE "BelowVheight"
           \* the self-vote completes the QC only when nmajority = 1
           h2  == IF NMajority = 1 /\ Height(p) + 1 > HeightAt(d, u.hqc)
                    THEN n ELSE u.hqc
       IN /\ blk' = blk @@ (n :> [parent |-> p, qc |-> q,
                                  height |-> Height(p) + 1, proposer |-> r])
          /\ DeliverBlocks(r, {n}, {p})
          \* update(bnew) at line 156 has run, and committed, before the
          \* vheight check at lines 160-161 can throw
          /\ decided' = [decided EXCEPT ![r] = u.decided]
          /\ executed' = [executed EXCEPT ![r] = @ \o u.exec]
          /\ bexec' = [bexec EXCEPT ![r] = u.bexec]
          /\ IF ok
               THEN /\ vheight' = [vheight EXCEPT ![r] = Height(p) + 1]
                    /\ voted' = [voted EXCEPT ![r][n] = {r}]
                    /\ hqc' = [hqc EXCEPT ![r] = h2]
                    /\ proposals' = proposals \cup {n}
                    /\ UNCHANGED thrown
               ELSE /\ hqc' = [hqc EXCEPT ![r] = u.hqc]
                    /\ thrown' = [thrown EXCEPT ![r] = @ \cup {err}]
                    /\ UNCHANGED <<vheight, voted, proposals>>
    /\ UNCHANGED <<votes, qcwait, restarts>>

(***************************************************************************)
(* propose_handler at honest replica r: async_deliver_blk delivers the     *)
(* block's missing ancestors and the block, then on_receive_proposal runs. *)
(* Proposals are multicast to the peers only, so r never receives its      *)
(* own.  The network may delay, drop or duplicate them: any sent proposal  *)
(* may arrive, any number of times.                                        *)
(***************************************************************************)
ReceiveProposal(r, b) ==
    /\ b \in proposals
    /\ blk[b].proposer # r
    /\ LET d == delivered[r] \cup Chain(b)
           u == Update(r, d, QcRefAt(d, b))
           vote == u.err = "None" /\ Opinion(r, d, b, u.hqc)
       IN /\ DeliverBlocks(r, Missing(r, b), {Parent(x) : x \in Missing(r, b)})
          /\ hqc' = [hqc EXCEPT ![r] = u.hqc]
          /\ decided' = [decided EXCEPT ![r] = u.decided]
          /\ executed' = [executed EXCEPT ![r] = @ \o u.exec]
          /\ bexec' = [bexec EXCEPT ![r] = u.bexec]
          \* only the safety breach is recorded; an empty qc_ref just ends
          \* the handler
          /\ thrown' = IF u.err = "SafetyBreached"
                        THEN [thrown EXCEPT ![r] = @ \cup {u.err}]
                        ELSE thrown
          /\ vheight' = IF vote THEN [vheight EXCEPT ![r] = Height(b)]
                                 ELSE vheight
          /\ votes' = IF vote THEN votes \cup {[voter |-> r, blk |-> b]}
                               ELSE votes
          \* lines 196-197: on_qc_finish(bnew->qc_ref) once update returned
          /\ qcwait' = IF u.err = "None"
                         THEN OnQcFinish(r, QcRefAt(d, b))
                         ELSE qcwait
    /\ UNCHANGED <<blk, proposals, voted, restarts>>

(***************************************************************************)
(* HotStuffCore::on_receive_vote at honest replica r, reached from         *)
(* vote_handler once the block is delivered and the signature checked.     *)
(* Votes go to the block's proposer (do_vote(prop.proposer, ...)); a vote  *)
(* comes from an honest replica that sent it or from a Byzantine replica,  *)
(* which can sign a vote for any block.  Votes forwarded to a replica      *)
(* that did not propose the block (lines 212-216 count them with a fresh   *)
(* self_qc) are not modelled: see the README.                              *)
(***************************************************************************)
ReceiveVote(r, v, b) ==
    /\ GetDeliveredBlk(r, b)
    /\ blk[b].proposer = r
    /\ v \in Byz \/ [voter |-> v, blk |-> b] \in votes
    /\ CountsVote(r, v, b)
    /\ voted' = [voted EXCEPT ![r][b] = @ \cup {v}]
    \* lines 219-223: the vote that completes the QC runs on_qc_finish and
    \* update_hqc
    /\ IF Cardinality(voted[r][b]) + 1 = NMajority
         THEN /\ hqc' = [hqc EXCEPT ![r] = UpdateHqc(delivered[r], @, b)]
              /\ qcwait' = OnQcFinish(r, b)
         ELSE UNCHANGED <<hqc, qcwait>>
    /\ UNCHANGED <<blk, proposals, votes, delivered, tails, vheight, bexec,
                   decided, executed, thrown, restarts>>

(***************************************************************************)
(* A Byzantine replica proposes a block on any parent, carrying a QC that  *)
(* a quorum could have signed or (ForgeQC) a QC over any block.  A block   *)
(* with no QC is left out: an honest replica's update() throws on it       *)
(* before any state change, so it can only serve as a parent, which a      *)
(* block carrying b0's QC does as well.                                    *)
(***************************************************************************)
ByzPropose(z, p, q) ==
    /\ z \in Leaders
    /\ CanCreate
    /\ p \in Created
    /\ q \in Created
    /\ ForgeQC \/ Certified(q)
    /\ blk' = blk @@ (NewBlock :> [parent |-> p, qc |-> q,
                                   height |-> Height(p) + 1, proposer |-> z])
    /\ proposals' = proposals \cup {NewBlock}
    /\ UNCHANGED <<votes, delivered, tails, vheight, hqc, bexec, decided,
                   voted, executed, thrown, qcwait, restarts>>

(***************************************************************************)
(* Honest replica r crashes and starts again: nothing of HotStuffCore is   *)
(* written to disk (the constructor, lines 33-44, builds a fresh storage   *)
(* holding only b0; on_init, lines 227-233, sets nmajority and hqc), so    *)
(* r comes back with the state Init gives it.  Messages already sent stay  *)
(* in the network; r's own errors are kept as a record of the run.         *)
(***************************************************************************)
Restart(r) ==
    /\ restarts < MaxRestarts
    /\ delivered' = [delivered EXCEPT ![r] = {Genesis}]
    /\ tails' = [tails EXCEPT ![r] = {Genesis}]
    /\ vheight' = [vheight EXCEPT ![r] = 0]
    /\ hqc' = [hqc EXCEPT ![r] = Genesis]
    /\ bexec' = [bexec EXCEPT ![r] = Genesis]
    /\ decided' = [decided EXCEPT ![r] = {Genesis}]
    /\ executed' = [executed EXCEPT ![r] = <<>>]
    /\ voted' = [voted EXCEPT ![r] = InitVoted]
    /\ qcwait' = [qcwait EXCEPT ![r] = {}]
    /\ restarts' = restarts + 1
    /\ UNCHANGED <<blk, proposals, votes, thrown>>

(***************************************************************************)
(* HotStuffCore::async_qc_finish(blk), lines 265-274, called by the        *)
(* pacemaker of r: resolved at once when blk->voted has nmajority voters;  *)
(* otherwise the qc_waiting entry of blk, created if there is none, and    *)
(* left for on_qc_finish (lines 276-283) to resolve and erase.  The wait   *)
(* is on a block r proposed: votes go to the proposer only (do_vote), so   *)
(* only there can blk->voted reach nmajority.                              *)
(***************************************************************************)
\* The qc_waiting entries of all honest replicas, bounded by MaxQcWaits.
QcWaits == {<<s, c>> \in Honest \X BlockId : c \in qcwait[s]}

\* Mutation: the QC counted complete only above nmajority voters
QcCompleteAbove(r, b) == Cardinality(voted[r][b]) > NMajority
QcComplete(r, b) == Cardinality(voted[r][b]) >= NMajority

AsyncQcFinish(r, b) ==
    /\ b \in delivered[r]
    /\ blk[b].proposer = r
    /\ ~QcComplete(r, b)
    /\ b \notin qcwait[r]
    /\ Cardinality(QcWaits) < MaxQcWaits
    /\ qcwait' = [qcwait EXCEPT ![r] = @ \cup {b}]
    /\ UNCHANGED <<blk, proposals, votes, delivered, tails, vheight, hqc, bexec,
                   decided, executed, voted, thrown, restarts>>

Next ==
    \/ \E r \in Honest, p \in BlockId : Propose(r, p)
    \/ \E r \in Honest, b \in BlockId : ReceiveProposal(r, b)
    \/ \E r \in Honest, v \in Replica, b \in BlockId : ReceiveVote(r, v, b)
    \/ \E z \in Byz, p, q \in BlockId :
          ByzPropose(z, p, q)
    \/ \E r \in Honest : Restart(r)
    \/ \E r \in Honest, b \in BlockId : AsyncQcFinish(r, b)

Spec == Init /\ [][Next]_vars

-----------------------------------------------------------------------------
(***************************************************************************)
(* Properties                                                              *)
(***************************************************************************)

TypeOK ==
    /\ Created \subseteq BlockId
    /\ \A b \in Created :
         blk[b] \in [parent : BlockId \cup {NoBlock}, qc : BlockId \cup {NoBlock},
                     height : Nat, proposer : Replica \cup {NoBlock}]
    /\ proposals \subseteq Created
    /\ votes \subseteq [voter : Honest, blk : Created]
    /\ delivered \in [Honest -> SUBSET Created]
    /\ tails \in [Honest -> SUBSET Created]
    /\ vheight \in [Honest -> Nat]
    /\ hqc \in [Honest -> Created]
    /\ bexec \in [Honest -> Created]
    /\ decided \in [Honest -> SUBSET Created]
    /\ executed \in [Honest -> Seq(Created)]
    /\ voted \in [Honest -> [BlockId -> SUBSET Replica]]
    /\ thrown \in [Honest -> SUBSET Errors]
    /\ qcwait \in [Honest -> SUBSET Created]
    /\ restarts \in 0..MaxRestarts
    \* a replica's block pointers (hqc, bexec, its decided blocks) refer to
    \* blocks it has delivered: heights read through them are real ones
    /\ \A r \in Honest : /\ hqc[r] \in delivered[r]
                        /\ bexec[r] \in delivered[r]
                        /\ decided[r] \subseteq delivered[r]

\* Safety across honest replicas (spec section 8, invariant 4): the blocks
\* any two honest replicas have committed in update() lie on one chain.
Agreement ==
    \A r1, r2 \in Honest :
        \A b1 \in decided[r1], b2 \in decided[r2] :
            Extends(b1, b2) \/ Extends(b2, b1)

\* Chain commit (spec section 8, invariant 5): what replica r has decided
\* is exactly bexec and its primary-parent ancestors, with no gap left by
\* the commit walk of update().
DecidedIsBexecChain == \A r \in Honest : decided[r] = Chain(bexec[r])

\* At most one block per height can gather a quorum of votes: the
\* vheight rule of on_propose and on_receive_proposal keeps every honest
\* replica from voting twice at a height, and quorums intersect.
UniqueCertifiedPerHeight ==
    \A b1, b2 \in Created \ {Genesis} :
        Certified(b1) /\ Certified(b2) /\ Height(b1) = Height(b2) => b1 = b2

\* Spec section 8, invariants 1-3: vheight, bexec's height and hqc's
\* height never decrease, and a decided block stays decided.
Monotone ==
    [][\A r \in Honest :
        /\ vheight'[r] >= vheight[r]
        /\ blk'[bexec'[r]].height >= Height(bexec[r])
        /\ blk'[hqc'[r]].height >= Height(hqc[r])
        /\ decided[r] \subseteq decided'[r]]_vars

\* Spec 4.1, on_propose: every block an honest replica creates carries
\* the proposer's self-vote and is broadcast as a Proposal.
ProposedBlocksBroadcast ==
    \A b \in Created :
        blk[b].proposer \in Honest =>
            /\ b \in proposals
            /\ blk[b].proposer \in voted[blk[b].proposer][b]

\* The block update() commits directly (bexec, the p of line 127; its
\* ancestors follow it without needing QCs of their own) has a QC a
\* quorum really signed (spec 4.2: a block is delivered only after its
\* QC is verified).
BexecCertified == \A r \in Honest : Certified(bexec[r])

\* The pacemaker's wait on a QC is never left pending behind a QC that is
\* already complete: whether async_qc_finish comes before or after the vote
\* that completes the QC at r (on_receive_vote, lines 219-221), and across
\* restarts, a qc_waiting entry of r exists only while blk->voted at r is
\* short of nmajority.
QcWaitNotStale ==
    \A r \in Honest : \A b \in qcwait[r] : Cardinality(voted[r][b]) < NMajority

(***************************************************************************)
(* Spec section 6: state_machine_execute runs in commit order, once per    *)
(* command.  Every honest replica's sequence of do_decide calls (made by   *)
(* update() over commit_queue from rbegin to rend) implements CommitLog:   *)
(* it only grows at its end, and it is the chain from b0 to bexec, each    *)
(* block after its parent, whatever proposals, forks and QCs arrive.       *)
(***************************************************************************)
Log(r) == INSTANCE CommitLog
            WITH log <- executed[r], parent <- [b \in Created |-> Parent(b)]

\* \A r \in Honest : Log(r)!Spec, with the quantifier moved inside [] so
\* that TLC can check it
ImplementsCommitLog ==
    /\ \A r \in Honest : Log(r)!Init
    /\ [][\A r \in Honest : [Log(r)!Commit]_(Log(r)!vars)]_vars

====
