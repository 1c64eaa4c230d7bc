---------------------------- MODULE BlockDelivery ----------------------------
(***************************************************************************)
(* The fetch and deliver pipeline of one replica (src/src/hotstuff.cpp):   *)
(* a handler asks async_deliver_blk for the block its message names, which *)
(* fetches it from the sending peer (async_fetch_blk, ReqBlock/RespBlock)  *)
(* unless it is in storage (a Proposal carries its block, which parsing    *)
(* adds to storage), then fetches the block its QC refers to, delivers its *)
(* parent recursively and verifies it, and calls on_deliver_blk once all   *)
(* of that has resolved.                                                   *)
(*                                                                         *)
(* Promise callbacks run synchronously on the event loop: a fetch that     *)
(* resolves runs the continuation of async_deliver_blk at once, and a      *)
(* delivery that resolves runs on_deliver_blk of every block that was      *)
(* only waiting for it, in the same step (Settle).  Signature checks run   *)
(* on the worker pool and come back as a later event (VerifyDone).  The    *)
(* peers hold every block and answer ReqBlock; a message between the      *)
(* replica and a peer may be lost (a dropped connection, a peer that does  *)
(* not answer), at most MaxLoss times.                                     *)
(***************************************************************************)
EXTENDS Naturals, FiniteSets

CONSTANTS
    \* block hashes; Genesis is b0, delivered from the start
    Blocks, Genesis,
    \* the primary parent and the QC's block of every block but b0
    ParentOf, QcOf,
    \* the peers that send proposals and answer block requests
    Peers,
    \* the Propose, Vote, Notify, Status, BlameNotify and NewView messages
    \* the network carries to this replica, [type, src, blk]: the sender and
    \* the block the message names (proposed, voted for, or the hqc block)
    Props,
    \* how many ReqBlock/RespBlock messages may be lost
    MaxLoss,
    \* a null block (no QC) and a null peer
    NoBlock, NoPeer

MsgTypes == {"propose", "vote", "notify", "status", "blamenotify", "newview"}

ASSUME /\ Genesis \in Blocks /\ MaxLoss \in Nat
       /\ ParentOf \in [Blocks \ {Genesis} -> Blocks]
       /\ QcOf \in [Blocks \ {Genesis} -> Blocks \cup {NoBlock}]
       /\ Props \subseteq [type : MsgTypes, src : Peers, blk : Blocks]

Msgs == [type : {"req", "resp"}, peer : Peers, blk : Blocks]

VARIABLES
    fetched,    \* storage: blocks whose bytes are in blk_cache
    delivered,  \* storage->is_blk_delivered
    fetching,   \* the keys of blk_fetch_waiting
    asked,      \* asked[h]: the replicas of h's BlockFetchContext
    dwait,      \* the keys of blk_delivery_waiting
    dpeer,      \* dpeer[h]: the replica_id h's delivery was started with
    launched,   \* deliveries whose fetch resolved and whose sub-promises run
    qcfetch,    \* launched deliveries whose QC-block fetch waits on an entry
    verifying,  \* blk->verify running on the worker pool
    verified,   \* blk->verify resolved
    net,        \* ReqBlock/RespBlock messages in flight
    handled,    \* messages of Props whose handler has run
    lost,       \* messages lost so far
    after,      \* history: the messages of handled taken up after a loss
    crashed     \* a handler dereferenced a null block_t: the process is gone

vars == <<fetched, delivered, fetching, asked, dwait, dpeer, launched, qcfetch,
          verifying, verified, net, handled, lost, after, crashed>>

\* The replica's state as a record, so that the recursive helpers below can
\* thread it through a call chain, and its storage back into the variables
St == [fetched |-> fetched, delivered |-> delivered, fetching |-> fetching,
       asked |-> asked, dwait |-> dwait, dpeer |-> dpeer,
       launched |-> launched, qcfetch |-> qcfetch, verifying |-> verifying, verified |-> verified,
       net |-> net]

Store(s) ==
    /\ fetched' = s.fetched
    /\ delivered' = s.delivered
    /\ fetching' = s.fetching
    /\ asked' = s.asked
    /\ dwait' = s.dwait
    /\ dpeer' = s.dpeer
    /\ launched' = s.launched
    /\ qcfetch' = s.qcfetch
    /\ verifying' = s.verifying
    /\ verified' = s.verified
    /\ net' = s.net

Init ==
    /\ fetched = {Genesis}
    /\ delivered = {Genesis}
    /\ fetching = {}
    /\ asked = [h \in Blocks |-> {}]
    /\ dwait = {}
    /\ dpeer = [h \in Blocks |-> NoPeer]
    /\ launched = {}
    /\ qcfetch = {}
    /\ verifying = {}
    /\ verified = {}
    /\ net = {}
    /\ handled = {}
    /\ lost = 0
    /\ after = {}
    /\ crashed = FALSE

(***************************************************************************)
(* BlockFetchContext::add_replica (spec 4.2; the class is not under src/): *)
(* the first replica registered for a hash is sent a ReqBlock, later ones  *)
(* are only recorded.  There is no timeout that would ask again (spec 5).  *)
(***************************************************************************)
AddReplica(s, h, p) ==
    IF s.asked[h] = {}
      THEN [s EXCEPT !.asked[h] = {p},
                     !.net = @ \cup {[type |-> "req", peer |-> p, blk |-> h]}]
      ELSE [s EXCEPT !.asked[h] = @ \cup {p}]

\* async_fetch_blk(h, &p): resolved at once if h is in storage, otherwise
\* the blk_fetch_waiting entry for h is found or made and p added to it
AsyncFetch(s, h, p) ==
    IF h \in s.fetched THEN s
    ELSE AddReplica([s EXCEPT !.fetching = @ \cup {h}], h, p)

(***************************************************************************)
(* async_deliver_blk(h, p), lines 199-227, and the continuation its fetch  *)
(* runs (Launch): fetch the QC's block, deliver the parent, start verify.  *)
(* A delivered block resolves at once; an existing blk_delivery_waiting    *)
(* entry is returned as it is; otherwise an entry is made and the block    *)
(* fetched, the continuation running now if the block is in storage.       *)
(***************************************************************************)
RECURSIVE AsyncDeliver(_, _, _), Launch(_, _, _)
AsyncDeliver(s, h, p) ==
    IF h \in s.delivered \/ h \in s.dwait THEN s
    ELSE LET s1 == [s EXCEPT !.dwait = @ \cup {h}, !.dpeer[h] = p]
         IN  IF h \in s.fetched THEN Launch(s1, h, p) ELSE AsyncFetch(s1, h, p)

Launch(s, h, p) ==
    LET s1 == [s EXCEPT !.launched = @ \cup {h}, !.verifying = @ \cup {h}]
        s2 == IF QcOf[h] = NoBlock \/ QcOf[h] \in s1.fetched THEN s1
              ELSE [AsyncFetch(s1, QcOf[h], p) EXCEPT !.qcfetch = @ \cup {h}]
    IN  AsyncDeliver(s2, ParentOf[h], p)

\* promise::all(pms) of h's delivery has resolved: the QC block's fetch
\* resolved, the parent delivered and verify done (its result unused)
Ready(s, h) ==
    /\ h \in s.launched
    /\ h \notin s.qcfetch
    /\ ParentOf[h] \in s.delivered
    /\ h \in s.verified

\* Mutation: the blk_delivery_waiting entry is not erased on delivery
RECURSIVE SettleNoErase(_)
SettleNoErase(s) ==
    LET R == {h \in s.dwait \ s.delivered : Ready(s, h)}
    IN  IF R = {} THEN s ELSE SettleNoErase([s EXCEPT !.delivered = @ \cup R])
\* Mutation: a resolved delivery does not run its waiters' continuations
SettleOnce(s) ==
    LET R == {h \in s.dwait : Ready(s, h)}
    IN  [s EXCEPT !.delivered = @ \cup R, !.dwait = @ \ R]
(***************************************************************************)
(* HotStuffBase::on_deliver_blk, lines 134-174, for every entry whose      *)
(* promise::all has resolved: HotStuffCore::on_deliver_blk marks it        *)
(* delivered, the entry's promise is resolved and erased, and that runs    *)
(* the continuations waiting on it, oldest block first.                    *)
(***************************************************************************)
RECURSIVE Settle(_)
Settle(s) ==
    LET R == {h \in s.dwait : Ready(s, h)}
    IN  IF R = {} THEN s
        ELSE Settle([s EXCEPT !.delivered = @ \cup R, !.dwait = @ \ R])

\* storage->add_blk, from MsgRespBlock::postponed_parse (lines 99-110) or
\* from parsing a Proposal: the block is in storage, and no fetch entry is
\* resolved by it
AddBlk(s, h) == [s EXCEPT !.fetched = @ \cup {h}]

-----------------------------------------------------------------------------
\* A handler taking up message m, its body parsed into state s:
\* async_deliver_blk of its block from the sender; the on_receive_* call
\* that follows belongs to HotStuffCore
TakeUp(m, s) ==
    /\ m \in Props \ handled
    /\ Store(AsyncDeliver(s, m.blk, m.src))
    /\ handled' = handled \cup {m}
    /\ after' = IF lost > 0 THEN after \cup {m} ELSE after
    /\ UNCHANGED lost

\* propose_handler, lines 229-240: msg.postponed_parse (lines 30-33) reads
\* the Proposal, whose block goes into storage, so async_fetch_blk of it
\* resolves at once (line 179) unless a delivery entry for it exists
ProposeHandler(m) ==
    m.type = "propose" /\ TakeUp(m, AddBlk(St, m.blk)) /\ UNCHANGED crashed

\* vote_handler, lines 242-256: the voted block is delivered while the
\* vote's signature is checked (that check gates only on_receive_vote)
VoteHandler(m) == m.type = "vote" /\ TakeUp(m, St) /\ UNCHANGED crashed

\* status_handler, lines 284-298, new_view_handler, lines 330-345, and
\* blamenotify_handler, lines 313-328: the hqc block the message names is
\* delivered while its signature is checked, and on_receive_status,
\* on_receive_new_view or on_receive_blamenotify (the pacemaker's) follows
StatusHandler(m) == m.type = "status" /\ TakeUp(m, St) /\ UNCHANGED crashed
NewViewHandler(m) == m.type = "newview" /\ TakeUp(m, St) /\ UNCHANGED crashed
BlameNotifyHandler(m) ==
    m.type = "blamenotify" /\ TakeUp(m, St) /\ UNCHANGED crashed

(***************************************************************************)
(* notify_handler, lines 267-282: async_deliver_blk of the block, then     *)
(* verify_notify (lines 258-265), which reads storage->find_blk(hash) and  *)
(* dereferences it with no null check.  async_deliver_blk has only sent a  *)
(* ReqBlock for a block not in storage, so find_blk returns nullptr then.  *)
(***************************************************************************)
NotifyHandler(m) ==
    /\ m.type = "notify"
    /\ TakeUp(m, St)
    /\ crashed' = (m.blk \notin fetched)

\* req_blk_handler at the peer, lines 412-427: the peer holds the block,
\* so its async_fetch_blk resolves at once and a RespBlock goes back
ReqBlkHandler(msg) ==
    /\ msg \in net
    /\ msg.type = "req"
    /\ net' = (net \ {msg}) \cup {[msg EXCEPT !.type = "resp"]}
    /\ UNCHANGED <<fetched, delivered, fetching, asked, dwait, dpeer, launched,
                   qcfetch, verifying, verified, handled, lost, after, crashed>>

(***************************************************************************)
(* on_fetch_blk, lines 117-132: the fetch entry of h, if any, is resolved  *)
(* and erased.  Resolving it runs at once the continuation of h's own      *)
(* delivery, if one is waiting on the fetch; the QC fetches waiting on it  *)
(* are inputs of a promise::all that Settle looks at.                      *)
(***************************************************************************)
OnFetchBlk(s, h) ==
    IF h \notin s.fetching THEN s
    ELSE LET s1 == [s EXCEPT !.fetching = @ \ {h}, !.asked[h] = {},
                             !.qcfetch = {g \in @ : QcOf[g] # h}]
         IN  IF h \in s.dwait /\ h \notin s.launched
               THEN Launch(s1, h, s.dpeer[h]) ELSE s1

\* resp_blk_handler, lines 429-433: the response's block is parsed into
\* storage, then on_fetch_blk; the deliveries that completes follow
RespBlkHandler(msg) ==
    /\ msg \in net
    /\ msg.type = "resp"
    /\ Store(Settle(OnFetchBlk(AddBlk([St EXCEPT !.net = @ \ {msg}], msg.blk),
                               msg.blk)))
    /\ UNCHANGED <<handled, lost, after, crashed>>

\* blk->verify comes back from the worker pool
VerifyDone(h) ==
    /\ h \in verifying
    /\ Store(Settle([St EXCEPT !.verifying = @ \ {h}, !.verified = @ \cup {h}]))
    /\ UNCHANGED <<handled, lost, after, crashed>>

\* The network loses a ReqBlock or RespBlock
Lose(msg) ==
    /\ msg \in net
    /\ lost < MaxLoss
    /\ net' = net \ {msg}
    /\ lost' = lost + 1
    /\ UNCHANGED <<fetched, delivered, fetching, asked, dwait, dpeer, launched,
                   qcfetch, verifying, verified, handled, after, crashed>>

\* The handler the event loop runs for a message of Props (registered with
\* pn.reg_handler in the constructor, lines 525-534)
HandleMsg(m) ==
    \/ ProposeHandler(m) \/ VoteHandler(m) \/ NotifyHandler(m)
    \/ StatusHandler(m) \/ NewViewHandler(m) \/ BlameNotifyHandler(m)

\* Every step but a loss: a handler, a ReqBlock or RespBlock, a verification
Progress ==
    \/ \E m \in Props : HandleMsg(m)
    \/ \E msg \in Msgs : ReqBlkHandler(msg) \/ RespBlkHandler(msg)
    \/ \E h \in Blocks : VerifyDone(h)

\* A crashed replica takes no step
Next == ~crashed /\ (Progress \/ \E msg \in Msgs : Lose(msg))

(***************************************************************************)
(* The event loop runs every handler whose message has arrived, the TCP    *)
(* connections carry every message that is not lost, and the worker pool   *)
(* finishes every verification.  Each Progress step consumes one of these  *)
(* pending events, of which a behaviour has finitely many (Props is        *)
(* finite, and a ReqBlock is sent only when a fetch starts), so weak       *)
(* fairness of Progress as a whole gives each event its turn: it is the    *)
(* per-event weak fairness of the loop, stated once.  Losses are never     *)
(* forced.                                                                 *)
(***************************************************************************)
Fairness == WF_vars(~crashed /\ Progress)

Spec == Init /\ [][Next]_vars /\ Fairness

-----------------------------------------------------------------------------
TypeOK ==
    /\ fetched \subseteq Blocks /\ delivered \subseteq fetched
    \* a fetch entry outlives the block's arrival in a Proposal
    /\ fetching \subseteq Blocks
    /\ asked \in [Blocks -> SUBSET Peers]
    /\ dpeer \in [Blocks -> Peers \cup {NoPeer}]
    /\ launched \subseteq fetched /\ qcfetch \subseteq launched /\ verifying \cup verified \subseteq launched
    /\ net \subseteq Msgs
    /\ handled \subseteq Props /\ after \subseteq handled
    /\ lost \in 0..MaxLoss /\ crashed \in BOOLEAN
    \* a blk_delivery_waiting entry is erased when its block is delivered
    /\ dwait \cap delivered = {}

\* Every proposal or vote a handler takes up has its block delivered in
\* the end (after which on_receive_proposal or on_receive_vote runs), over
\* connections that do not lose messages (behaviours in which Lose never
\* fires; lost only grows, so [](lost = 0) says exactly that), in a
\* process that has not crashed.
EventuallyDelivered ==
    [](lost = 0 /\ ~crashed) => \A m \in Props : m \in handled ~> m.blk \in delivered

NotifyWithoutCrash == ~crashed
====
