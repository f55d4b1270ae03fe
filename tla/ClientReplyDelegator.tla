------------------------- MODULE ClientReplyDelegator -------------------------
(***************************************************************************)
(* ClientReplyDelegator (base/client_reply_delegator.cpp): the thread that *)
(* sends the replies of a client user to the server, away from the network *)
(* callback that obtained them.                                            *)
(*                                                                         *)
(* m_mtx is held over a single step except by InterruptAll, which calls    *)
(* m_interrupt_func while it holds it: `interrupting` is the id of that    *)
(* call.  The operations are composed with their callers in EPICSIOClient. *)
(***************************************************************************)
EXTENDS Naturals, Sequences, SequencesExt

CONSTANTS
    Requests,       \* number of requests that may be replied to
    MaxDeliveries,  \* bound on the number of replies that are made
    NoReply         \* the delegatee has no reply in hand

ASSUME RequestsAssumption == Requests \in Nat
ASSUME MaxDeliveriesAssumption == MaxDeliveries \in Nat
ASSUME NoReplyAssumption == NoReply \notin [id : Nat, event : Nat]

Ids == 1..Requests
NoId == 0

\* A reply is known by the id of its request and by the number of the event
\* that made the client prompt for it.
ReplyInfos == [id : Ids, event : 1..MaxDeliveries]

VARIABLES
    m_reply_queue,
    m_active_id,
    m_halt,
    asleep,         \* the delegatee is blocked on m_cv
    delegatee,      \* where the delegatee stands in HandleClientReply
    current,        \* the reply_info it took last
    interrupting,   \* id of a running m_interrupt_func, or NoId
    sent,           \* history: replies given to m_reply_func, in order
    dropped,        \* history: replies InterruptAll took out of the queue
    interrupted,    \* history: replies that were active in an InterruptAll
    takenAfterHalt  \* history: number of replies taken once m_halt was set

delegatorVars == <<m_reply_queue, m_active_id, m_halt, asleep, delegatee,
                   current, interrupting, sent, dropped, interrupted,
                   takenAfterHalt>>

DelegatorTypeOK ==
    /\ m_reply_queue \in Seq(ReplyInfos)
    /\ m_active_id \in Ids \cup {NoId}
    /\ m_halt \in BOOLEAN
    /\ asleep \in BOOLEAN
    /\ delegatee \in {"wait", "taken", "sending", "relock", "ended"}
    /\ current \in ReplyInfos \cup {NoReply}
    /\ interrupting \in Ids \cup {NoId}
    /\ sent \in Seq(ReplyInfos)
    /\ dropped \in SUBSET ReplyInfos
    /\ interrupted \in SUBSET ReplyInfos
    /\ takenAfterHalt \in Nat

DelegatorInit ==
    /\ m_reply_queue = <<>>
    /\ m_active_id = NoId
    /\ m_halt = FALSE
    /\ asleep = FALSE
    /\ delegatee = "wait"
    /\ current = NoReply
    /\ interrupting = NoId
    /\ sent = <<>>
    /\ dropped = {}
    /\ interrupted = {}
    /\ takenAfterHalt = 0

MutexIsFree == interrupting = NoId

-----------------------------------------------------------------------------
(* Forms with a plausible bug, used by no action of the specification.     *)

FinishReplyKeepsActiveId ==
    /\ delegatee = "relock"
    /\ MutexIsFree
    /\ delegatee' = IF m_halt THEN "ended" ELSE "wait"
    /\ UNCHANGED <<m_reply_queue, m_active_id, m_halt, asleep, current,
                   interrupting, sent, dropped, interrupted, takenAfterHalt>>

TakeReplyBeforeActiveId ==
    /\ m_reply_queue /= <<>>
    /\ current' = Head(m_reply_queue)
    /\ m_reply_queue' = Tail(m_reply_queue)
    /\ delegatee' = "taken"
    /\ takenAfterHalt' = takenAfterHalt + (IF m_halt THEN 1 ELSE 0)
    /\ UNCHANGED <<m_active_id, asleep>>

TakeLastReply ==
    /\ m_reply_queue /= <<>>
    /\ current' = Last(m_reply_queue)
    /\ m_reply_queue' = Front(m_reply_queue)
    /\ m_active_id' = current'.id
    /\ delegatee' = "taken"
    /\ takenAfterHalt' = takenAfterHalt + (IF m_halt THEN 1 ELSE 0)
    /\ UNCHANGED asleep

SleepDespiteHalt ==
    /\ m_reply_queue = <<>>
    /\ asleep' = TRUE
    /\ UNCHANGED <<m_reply_queue, m_active_id, delegatee, current,
                   takenAfterHalt>>

NotifyNobody == UNCHANGED asleep

-----------------------------------------------------------------------------
(* The delegatee, which runs HandleClientReply.                            *)

\* The head of the queue becomes the active reply; the mutex is released.
TakeReply ==
    /\ m_reply_queue /= <<>>
    /\ current' = Head(m_reply_queue)
    /\ m_reply_queue' = Tail(m_reply_queue)
    /\ m_active_id' = current'.id
    /\ delegatee' = "taken"
    /\ takenAfterHalt' = takenAfterHalt + (IF m_halt THEN 1 ELSE 0)
    /\ UNCHANGED asleep

EndWhenHalted ==
    /\ m_reply_queue = <<>> /\ m_halt
    /\ delegatee' = "ended"
    /\ UNCHANGED <<m_reply_queue, m_active_id, asleep, current, takenAfterHalt>>

Sleep ==
    /\ m_reply_queue = <<>> /\ ~ m_halt
    /\ asleep' = TRUE
    /\ UNCHANGED <<m_reply_queue, m_active_id, delegatee, current,
                   takenAfterHalt>>

\* m_cv.wait and what follows it under the lock.
WaitForWork ==
    /\ delegatee = "wait"
    /\ ~ asleep
    /\ MutexIsFree
    /\ TakeReply \/ EndWhenHalted \/ Sleep
    /\ UNCHANGED <<m_halt, interrupting, sent, dropped, interrupted>>

WakeWithoutCause ==
    /\ asleep
    /\ asleep' = FALSE
    /\ UNCHANGED <<m_reply_queue, m_active_id, m_halt, delegatee, current,
                   interrupting, sent, dropped, interrupted, takenAfterHalt>>

\* m_reply_func starts, without the lock.
SendReply ==
    /\ delegatee = "taken"
    /\ delegatee' = "sending"
    /\ sent' = Append(sent, current)
    /\ UNCHANGED <<m_reply_queue, m_active_id, m_halt, asleep, current,
                   interrupting, dropped, interrupted, takenAfterHalt>>

\* m_reply_func returns: the server answered, or the RPC timed out.
ReplySent ==
    /\ delegatee = "sending"
    /\ delegatee' = "relock"
    /\ UNCHANGED <<m_reply_queue, m_active_id, m_halt, asleep, current,
                   interrupting, sent, dropped, interrupted, takenAfterHalt>>

\* What is left in the queue when m_halt is found is never sent.
FinishReply ==
    /\ delegatee = "relock"
    /\ MutexIsFree
    /\ m_active_id' = NoId
    /\ delegatee' = IF m_halt THEN "ended" ELSE "wait"
    /\ UNCHANGED <<m_reply_queue, m_halt, asleep, current, interrupting, sent,
                   dropped, interrupted, takenAfterHalt>>

HandleClientReply == WaitForWork \/ SendReply \/ ReplySent \/ FinishReply

-----------------------------------------------------------------------------
(* The other threads.                                                      *)

\* notify_one: only the delegatee waits.
NotifyDelegatee == asleep' = FALSE

NotifyOne ==
    /\ NotifyDelegatee
    /\ UNCHANGED <<m_reply_queue, m_active_id, m_halt, delegatee, current,
                   interrupting, sent, dropped, interrupted, takenAfterHalt>>

\* QueueReply up to the unlock.
QueueReply(info) ==
    /\ MutexIsFree
    /\ m_reply_queue' = Append(m_reply_queue, info)
    /\ UNCHANGED <<m_active_id, m_halt, asleep, delegatee, current,
                   interrupting, sent, dropped, interrupted, takenAfterHalt>>

\* InterruptAll up to the call of m_interrupt_func, or to its end when no
\* reply is active.
InterruptAll ==
    /\ MutexIsFree
    /\ dropped' = dropped \cup ToSet(m_reply_queue)
    /\ m_reply_queue' = <<>>
    /\ interrupting' = m_active_id
    /\ interrupted' = IF m_active_id = NoId THEN interrupted
                      ELSE interrupted \cup {current}
    /\ UNCHANGED <<m_active_id, m_halt, asleep, delegatee, current, sent,
                   takenAfterHalt>>

\* m_interrupt_func returns and the mutex is released.
InterruptFuncReturns ==
    /\ interrupting' = NoId
    /\ UNCHANGED <<m_reply_queue, m_active_id, m_halt, asleep, delegatee,
                   current, sent, dropped, interrupted, takenAfterHalt>>

\* Halt up to the unlock.
Halt ==
    /\ MutexIsFree
    /\ m_halt' = TRUE
    /\ UNCHANGED <<m_reply_queue, m_active_id, asleep, delegatee, current,
                   interrupting, sent, dropped, interrupted, takenAfterHalt>>

=============================================================================
