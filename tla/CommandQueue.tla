---------------------------- MODULE CommandQueue ----------------------------
(***************************************************************************)
(* The command queue and proposal trigger of one replica                   *)
(* (src/src/hotstuff.cpp): exec_command enqueues (cmd_hash, callback) on   *)
(* cmd_pending; the handler HotStuffBase::start registers on it drains     *)
(* the queue into cmd_pending_buffer and decision_waiting and, once        *)
(* blk_size commands are buffered, cuts a batch and waits on               *)
(* pmaker->beat(); do_decide answers the callback of a committed command.  *)
(*                                                                         *)
(* A callback is identified by the index of the exec_command call that     *)
(* registered it.  The consensus core is reduced to its effect here: the   *)
(* batches on_propose turned into blocks are committed in order.          *)
(***************************************************************************)
EXTENDS Naturals, Sequences, SequencesExt

CONSTANTS
    \* command hashes clients submit
    Cmd,
    \* this replica's id and the ids the pacemaker may name proposer
    Self, Leaders,
    \* blk_size
    BlkSize,
    \* the number of exec_command calls in a run
    MaxReq,
    \* whether clients never submit a command hash twice
    UniqueCmds,
    \* an absent decision_waiting entry
    NoReq

ASSUME /\ Self \in Leaders /\ BlkSize \in Nat \ {0} /\ MaxReq \in Nat
       /\ UniqueCmds \in BOOLEAN

Req == 1..MaxReq

VARIABLES
    queue,      \* cmd_pending: <<[req, cmd], ...>>
    buffer,     \* cmd_pending_buffer
    waiting,    \* decision_waiting: waiting[c] is the callback kept for c
    beats,      \* batches waiting on pmaker->beat()
    proposed,   \* batches passed to on_propose, not yet committed
    answered,   \* callbacks called with a Finality
    proposer,   \* what pmaker->get_proposer() returns now
    submitted,  \* history: submitted[i] is the command of call i
    accepted    \* history: calls the handler kept while this replica led

vars == <<queue, buffer, waiting, beats, proposed, answered, proposer,
          submitted, accepted>>

Init ==
    /\ queue = <<>>
    /\ buffer = <<>>
    /\ waiting = [c \in Cmd |-> NoReq]
    /\ beats = <<>>
    /\ proposed = <<>>
    /\ answered = {}
    /\ proposer \in Leaders
    /\ submitted = <<>>
    /\ accepted = {}

\* exec_command: the client's (cmd_hash, callback) joins cmd_pending
ExecCommand(c) ==
    /\ Len(submitted) < MaxReq
    /\ UniqueCmds => c \notin ToSet(submitted)
    /\ queue' = Append(queue, [req |-> Len(submitted) + 1, cmd |-> c])
    /\ submitted' = Append(submitted, c)
    /\ UNCHANGED <<buffer, waiting, beats, proposed, answered, proposer,
                   accepted>>

\* Mutation: the batch loop stops one command short of blk_size
TakeBatchShort(buf) == SubSeq(buf, 1, BlkSize - 1)
\* the first blk_size commands popped off cmd_pending_buffer, and the rest
TakeBatch(buf) == SubSeq(buf, 1, BlkSize)
Rest(buf) == SubSeq(buf, BlkSize + 1, Len(buf))

\* decision_waiting.insert unless an entry for the command exists
Register(w, e) == IF w[e.cmd] = NoReq THEN [w EXCEPT ![e.cmd] = e.req] ELSE w

(***************************************************************************)
(* One run of the cmd_pending handler, lines 597-630: try_dequeue until    *)
(* the queue is empty or a batch is cut (then it returns true and the      *)
(* event loop runs it again).  A command dequeued while another replica    *)
(* is proposer is skipped with its callback.  get_proposer cannot change   *)
(* during the run: the loop is single threaded.                            *)
(***************************************************************************)
\* Mutation: a batch is cut only once the buffer holds more than blk_size
RECURSIVE DrainCutLate(_, _, _)
DrainCutLate(q, buf, w) ==
    IF q = <<>> THEN [q |-> q, buf |-> buf, w |-> w, batch |-> <<>>]
    ELSE IF proposer # Self THEN DrainCutLate(Tail(q), buf, w)
    ELSE LET buf2 == Append(buf, Head(q).cmd)
             w2 == Register(w, Head(q))
         IN  IF Len(buf2) > BlkSize
               THEN [q |-> Tail(q), buf |-> Rest(buf2), w |-> w2,
                     batch |-> TakeBatch(buf2)]
               ELSE DrainCutLate(Tail(q), buf2, w2)

RECURSIVE Drain(_, _, _)
Drain(q, buf, w) ==
    IF q = <<>> THEN [q |-> q, buf |-> buf, w |-> w, batch |-> <<>>]
    ELSE IF proposer # Self THEN Drain(Tail(q), buf, w)
    ELSE LET buf2 == Append(buf, Head(q).cmd)
             w2 == Register(w, Head(q))
         IN  IF Len(buf2) >= BlkSize
               THEN [q |-> Tail(q), buf |-> Rest(buf2), w |-> w2,
                     batch |-> TakeBatch(buf2)]
               ELSE Drain(Tail(q), buf2, w2)

HandleQueue ==
    /\ queue # <<>>
    /\ LET d == Drain(queue, buffer, waiting)
       IN /\ queue' = d.q
          /\ buffer' = d.buf
          /\ waiting' = d.w
          /\ beats' = IF d.batch = <<>> THEN beats ELSE Append(beats, d.batch)
          /\ accepted' = IF proposer = Self
                            THEN accepted \cup {queue[k].req : k \in 1..(Len(queue) - Len(d.q))}
                            ELSE accepted
    /\ UNCHANGED <<proposed, answered, proposer, submitted>>

\* pmaker->beat() resolves with proposer pr (lines 623-626): the batch goes
\* to on_propose only if pr is this replica, and is dropped otherwise
ResolveBeat(i, pr) ==
    /\ i \in DOMAIN beats
    /\ beats' = RemoveAt(beats, i)
    /\ proposed' = IF pr = Self THEN Append(proposed, beats[i]) ELSE proposed
    /\ UNCHANGED <<queue, buffer, waiting, answered, proposer, submitted,
                   accepted>>

\* The pacemaker names another proposer
ChangeProposer(pr) ==
    /\ proposer' = pr
    /\ UNCHANGED <<queue, buffer, waiting, beats, proposed, answered, submitted,
                   accepted>>

\* The oldest proposed block commits: do_decide for each of its commands
\* calls and erases the decision_waiting entry (lines 550-559)
Decide ==
    /\ proposed # <<>>
    /\ LET cs == ToSet(Head(proposed))
       IN /\ answered' = answered \cup ({waiting[c] : c \in cs} \ {NoReq})
          /\ waiting' = [c \in Cmd |-> IF c \in cs THEN NoReq ELSE waiting[c]]
    /\ proposed' = Tail(proposed)
    /\ UNCHANGED <<queue, buffer, beats, proposer, submitted, accepted>>

Next ==
    \/ \E c \in Cmd : ExecCommand(c)
    \/ HandleQueue
    \/ \E i \in 1..MaxReq, pr \in Leaders : ResolveBeat(i, pr)
    \/ \E pr \in Leaders : ChangeProposer(pr)
    \/ Decide

(***************************************************************************)
(* The cmd_pending handler runs whenever the queue is not empty: enqueue   *)
(* notifies the event loop, and a run that returns true (a batch was cut)  *)
(* is scheduled again.  Clients, the pacemaker and the consensus core get  *)
(* no fairness here.                                                       *)
(***************************************************************************)
Spec == Init /\ [][Next]_vars /\ WF_vars(HandleQueue)

-----------------------------------------------------------------------------
TypeOK ==
    /\ queue \in Seq([req : Req, cmd : Cmd])
    /\ buffer \in Seq(Cmd) /\ Len(buffer) < BlkSize
    /\ waiting \in [Cmd -> Req \cup {NoReq}]
    \* a batch is a vector of exactly blk_size commands
    /\ beats \in Seq([1..BlkSize -> Cmd])
    /\ proposed \in Seq([1..BlkSize -> Cmd])
    /\ answered \subseteq Req
    /\ proposer \in Leaders
    /\ submitted \in Seq(Cmd)
    /\ accepted \subseteq Req

\* The commands a callback can still be answered for: buffered, in a batch
\* waiting on beat, or proposed and not yet committed
InFlight ==
    ToSet(buffer) \cup UNION {ToSet(b) : b \in ToSet(beats) \cup ToSet(proposed)}

\* Spec 4.5: a command the handler accepted while this replica was proposer
\* (it passed line 601, was buffered and has its decision_waiting entry)
\* is never lost.  Its callback is answered, or is still kept in
\* decision_waiting for a command buffered, waiting on beat() or proposed:
\* the spec says commands not proposed are retained for re-submission.
NoRequestLost ==
    \A i \in accepted :
        \/ i \in answered
        \/ waiting[submitted[i]] = i /\ submitted[i] \in InFlight

\* Spec 4.5, and the last commands of a client (line 615): if every beat
\* resolves and every proposed batch commits in the end, then for each
\* command handed to exec_command there comes a time from which on its
\* callback is answered, or the command stays in cmd_pending_buffer,
\* short of a full batch, because no further commands arrive.
EventuallyAnsweredOrBuffered ==
    (WF_vars(\E i \in 1..MaxReq, pr \in Leaders : ResolveBeat(i, pr)) /\ WF_vars(Decide))
        => \A i \in Req :
              <>[](i <= Len(submitted) =>
                     \/ i \in answered
                     \/ /\ submitted[i] \in ToSet(buffer)
                        /\ Len(buffer) < BlkSize)
====
