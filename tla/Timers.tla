-------------------------------- MODULE Timers --------------------------------
(***************************************************************************)
(* The one-shot timers of HotStuffBase (src/src/hotstuff.cpp 348-409):     *)
(* commit_timers, one per height, each carrying the block it was set for,  *)
(* and the three single timers blame_timer, viewtrans_timer and            *)
(* status_timer.  A set_X_timer assigns a fresh TimerEvent to the slot,    *)
(* which cancels the one it replaces; stop_X_timer clears the slot.  The   *)
(* callback of a timer runs its on_X_timeout handler and then its          *)
(* stop_X_timer.                                                           *)
(*                                                                         *)
(* The handlers are virtual and implemented outside src/ (the pacemaker).  *)
(* Spec 4.6: "All timers are one-shot; re-arming is explicit", and the     *)
(* status timer is periodic.  A handler is modelled by what it may do to   *)
(* the timers: arm any set of them.  The build without timers              *)
(* (SYNCHS_NOTIMER) is not modelled.                                       *)
(***************************************************************************)
EXTENDS FiniteSets

CONSTANTS
    Heights,  \* the heights commit timers are set for
    Blks,     \* the blocks a commit timer may carry
    None      \* an empty commit_timers entry

Slots == {"blame", "viewtrans", "status"}
Keys == Slots \cup Heights

VARIABLES
    commit,   \* commit_timers: commit[h] is the block of the timer at h
    armed,    \* armed[s]: the TimerEvent in slot s is pending
    rearmed   \* the timers the handler of the last callback armed

vars == <<commit, armed, rearmed>>

IsArmed(k) == IF k \in Slots THEN armed[k] ELSE commit[k] # None

Init ==
    /\ commit = [h \in Heights |-> None]
    /\ armed = [s \in Slots |-> FALSE]
    /\ rearmed = {}

\* set_commit_timer(blk, t): commit_timers[height] = TimerEvent(...)
SetCommitTimer(b, h) ==
    /\ commit' = [commit EXCEPT ![h] = b]
    /\ UNCHANGED armed /\ rearmed' = {}

\* stop_commit_timer(height): commit_timers.erase(height)
StopCommitTimer(h) ==
    /\ commit' = [commit EXCEPT ![h] = None]
    /\ UNCHANGED armed /\ rearmed' = {}

\* stop_commit_timer_all(): commit_timers.clear()
StopCommitTimerAll ==
    /\ commit' = [h \in Heights |-> None]
    /\ UNCHANGED armed /\ rearmed' = {}

\* set_X_timer: X_timer = TimerEvent(...); X_timer.add(t)
SetTimer(s) ==
    /\ armed' = [armed EXCEPT ![s] = TRUE]
    /\ UNCHANGED commit /\ rearmed' = {}

\* stop_X_timer: X_timer.clear()
StopTimer(s) ==
    /\ armed' = [armed EXCEPT ![s] = FALSE]
    /\ UNCHANGED commit /\ rearmed' = {}

SetBlameTimer == SetTimer("blame")
SetViewtransTimer == SetTimer("viewtrans")
SetStatusTimer == SetTimer("status")
StopBlameTimer == StopTimer("blame")
StopViewtransTimer == StopTimer("viewtrans")
StopStatusTimer == StopTimer("status")

\* reset_blame_timer: stop_blame_timer(), then set_blame_timer(t) arms a
\* fresh one
ResetBlameTimer ==
    /\ armed' = [armed EXCEPT !["blame"] = TRUE]
    /\ UNCHANGED commit /\ rearmed' = {}

\* What a handler's set_X_timer calls leave: the timers in A armed, a
\* commit timer with block b
ArmAll(A, b) ==
    [ c |-> [h \in Heights |-> IF h \in A THEN b ELSE commit[h]],
      a |-> [s \in Slots |-> armed[s] \/ s \in A] ]

(***************************************************************************)
(* The callback of slot s (lines 371-374, 388-391, 400-403): the handler   *)
(* on_X_timeout arms the timers A, then stop_X_timer() clears slot s.     *)
(***************************************************************************)
SlotTimeout(s, A, b) ==
    /\ armed[s]
    /\ LET t == ArmAll(A, b)
       IN  /\ armed' = [t.a EXCEPT ![s] = FALSE]
           /\ commit' = t.c
    /\ rearmed' = A

BlameTimeout(A, b) == SlotTimeout("blame", A, b)
ViewtransTimeout(A, b) == SlotTimeout("viewtrans", A, b)
StatusTimeout(A, b) == SlotTimeout("status", A, b)

\* The callback of the commit timer at h (lines 354-357): on_commit_timeout
\* with the block it captured, then stop_commit_timer(height)
CommitTimeout(h, A, b) ==
    /\ commit[h] # None
    /\ LET t == ArmAll(A, b)
       IN  /\ commit' = [t.c EXCEPT ![h] = None]
           /\ armed' = t.a
    /\ rearmed' = A

Next ==
    \/ \E b \in Blks, h \in Heights : SetCommitTimer(b, h)
    \/ \E h \in Heights : StopCommitTimer(h)
    \/ StopCommitTimerAll
    \/ SetBlameTimer \/ SetViewtransTimer \/ SetStatusTimer
    \/ StopBlameTimer \/ StopViewtransTimer \/ StopStatusTimer
    \/ ResetBlameTimer
    \/ \E A \in SUBSET Keys, b \in Blks :
          \/ BlameTimeout(A, b) \/ ViewtransTimeout(A, b) \/ StatusTimeout(A, b)
          \/ \E h \in Heights : CommitTimeout(h, A, b)

Spec == Init /\ [][Next]_vars

-----------------------------------------------------------------------------
TypeOK ==
    /\ commit \in [Heights -> Blks \cup {None}]
    /\ armed \in [Slots -> BOOLEAN]
    /\ rearmed \subseteq Keys

\* Spec 4.6: re-arming is explicit.  A timer that the handler of a callback
\* arms again (the periodic status timer, a blame timer reset on timeout)
\* is pending when the callback returns, so it fires again.
RearmedStaysArmed == \A k \in rearmed : IsArmed(k)
====
