----------------------------- MODULE EPICSIOClient -----------------------------
(***************************************************************************)
(* The user input side of EPICSIOClient (epics/epics_io_client.cpp) for    *)
(* one input server: the monitor callback of the request variable prompts  *)
(* the user and queues the reply with the ClientReplyDelegator, or drops   *)
(* what is queued when the variable is cleared; the destructor stops both. *)
(*                                                                         *)
(* The server shows the values Clear, 1, Clear, 2, Clear, ... in the       *)
(* request variable (UserInputManager, RequestsSeparatedByClear).  The     *)
(* monitor delivers them in that order to one callback at a time; it may   *)
(* lag, skip values and deliver a value again after a reconnection.        *)
(***************************************************************************)
EXTENDS ClientReplyDelegator

Positions == 0..(2 * Requests)

\* The value of the request variable at a position of its history.
IsRequest(position) == position % 2 = 1
RequestAtOffByOne(position) == position \div 2  \* a plausible bug, not used
RequestAt(position) == (position + 1) \div 2
PositionOf(id) == 2 * id - 1

VARIABLES
    shown,          \* position of the value the server shows
    seen,           \* position of the last value delivered to the callback
    deliveries,     \* number of events delivered
    callback,       \* where the monitor callback stands
    clearSeen,      \* history: position of the last Clear InterruptAll handled
    owner           \* where the thread that owns the client stands

clientVars == <<shown, seen, deliveries, callback, clearSeen, owner>>
vars == <<delegatorVars, clientVars>>

\* The types: among others, every queued reply has the id of a request.
TypeOK ==
    /\ DelegatorTypeOK
    /\ shown \in Positions
    /\ seen \in Positions
    /\ deliveries \in 0..MaxDeliveries
    /\ callback \in {"idle", "prompt", "queue", "notify", "interrupt",
                     "interrupting"}
    /\ clearSeen \in Positions
    /\ owner \in {"alive", "halt", "notify", "join", "destroyed"}

Init ==
    /\ DelegatorInit
    /\ shown = 0
    /\ seen = 0
    /\ deliveries = 0
    /\ callback = "idle"
    /\ clearSeen = 0
    /\ owner = "alive"

-----------------------------------------------------------------------------
(* Forms with a plausible bug, used by no action of Spec.                  *)

HandleNewRequest(position) ==
    IF IsRequest(position) /\ position /= seen THEN "prompt" ELSE "interrupt"

-----------------------------------------------------------------------------
(* The server and the monitor (external).                                  *)

ServerUpdates ==
    /\ shown + 1 \in Positions
    /\ shown' = shown + 1
    /\ UNCHANGED <<delegatorVars, seen, deliveries, callback, clearSeen, owner>>

\* What HandleUserInput does with the value: a request is prompted for,
\* anything else interrupts.
HandleUserInput(position) ==
    IF IsRequest(position) THEN "prompt" ELSE "interrupt"

Deliver(position) ==
    /\ owner = "alive"
    /\ callback = "idle"
    /\ deliveries < MaxDeliveries
    /\ position \in seen..shown
    /\ seen' = position
    /\ deliveries' = deliveries + 1
    /\ callback' = HandleUserInput(position)
    /\ UNCHANGED <<delegatorVars, shown, clearSeen, owner>>

-----------------------------------------------------------------------------
(* The callback.                                                           *)

CallbackMoves(from, to) ==
    /\ callback = from
    /\ callback' = to
    /\ UNCHANGED <<shown, seen, deliveries, owner>>

\* The manager's GetUserInput returns: the user answered.
UserAnswers ==
    /\ CallbackMoves("prompt", "queue")
    /\ UNCHANGED <<delegatorVars, clearSeen>>

ReplyAnswer ==
    /\ CallbackMoves("queue", "notify")
    /\ QueueReply([id |-> RequestAt(seen), event |-> deliveries])
    /\ UNCHANGED clearSeen

NotifyAnswer ==
    /\ CallbackMoves("notify", "idle")
    /\ NotifyOne
    /\ UNCHANGED clearSeen

DropReplies ==
    /\ CallbackMoves("interrupt",
                     IF m_active_id = NoId THEN "idle" ELSE "interrupting")
    /\ InterruptAll
    /\ clearSeen' = seen

InterruptReturns ==
    /\ CallbackMoves("interrupting", "idle")
    /\ InterruptFuncReturns
    /\ UNCHANGED clearSeen

-----------------------------------------------------------------------------
(* The destructor: client variables first, then the delegator.             *)

OwnerMoves(from, to) ==
    /\ owner = from
    /\ owner' = to
    /\ UNCHANGED <<shown, seen, deliveries, callback, clearSeen>>

\* The variable's destructor waits for its callback to end.
DestroyClientPVs ==
    /\ callback = "idle"
    /\ OwnerMoves("alive", "halt")
    /\ UNCHANGED delegatorVars

HaltDelegator ==
    /\ OwnerMoves("halt", "notify")
    /\ Halt

NotifyHalt ==
    /\ OwnerMoves("notify", "join")
    /\ NotifyOne

Join ==
    /\ OwnerMoves("join", "destroyed")
    /\ delegatee = "ended"
    /\ UNCHANGED delegatorVars

-----------------------------------------------------------------------------

Delegatee == HandleClientReply /\ UNCHANGED clientVars

Callback == ReplyAnswer \/ NotifyAnswer \/ DropReplies \/ InterruptReturns

Destructor == HaltDelegator \/ NotifyHalt \/ Join

Next ==
    \/ ServerUpdates
    \/ \E position \in Positions : Deliver(position)
    \/ UserAnswers
    \/ Callback
    \/ Delegatee
    \/ WakeWithoutCause /\ UNCHANGED clientVars
    \/ DestroyClientPVs
    \/ Destructor

Spec == Init /\ [][Next]_vars

\* The callback, the delegatee and a destructor that started keep running; the
\* reply RPC ends because it has a time-out, m_interrupt_func because it only
\* informs the user interface.  The user need not answer.
FairSpec ==
    /\ Spec
    /\ WF_vars(Callback)
    /\ WF_vars(Delegatee)
    /\ WF_vars(Destructor)

-----------------------------------------------------------------------------

\* A reply the delegatee sends after InterruptAll handled the clearing of its
\* request was in its hand by then, and was interrupted: InterruptAll misses
\* neither a queued reply nor the active one.
StaleReplyIsInterrupted ==
    [][\A info \in ReplyInfos :
          sent' = Append(sent, info) /\ PositionOf(info.id) < clearSeen
              => info \in interrupted]_vars

\* InterruptAll takes no reply out of the queue whose request is still open:
\* the comment in InterruptAll says that there can be none.
OnlyStaleRepliesAreDropped == \A info \in dropped : PositionOf(info.id) < shown

\* m_interrupt_func is called for a reply the delegatee is busy with.
InterruptIsForActiveReply ==
    interrupting /= NoId =>
        /\ delegatee \in {"taken", "sending", "relock"}
        /\ current.id = interrupting

\* m_active_id is the id of the reply the delegatee is busy with.
ActiveReplyIsCurrent ==
    /\ delegatee \in {"taken", "sending", "relock"} =>
          current \in ReplyInfos /\ m_active_id = current.id
    /\ delegatee \in {"wait", "ended"} => m_active_id = NoId

\* m_interrupt_func runs in the callback, for the reply that is active: the
\* mutex keeps it active.
InterruptInCallback ==
    /\ interrupting /= NoId <=> callback = "interrupting"
    /\ interrupting /= NoId => interrupting = m_active_id

\* The callback prompts for requests and is not called during the destruction.
CallbackInv ==
    /\ clearSeen <= seen /\ seen <= shown
    /\ callback \in {"prompt", "queue"} =>
          IsRequest(seen) /\ deliveries \in 1..MaxDeliveries
    /\ callback = "interrupt" => ~ IsRequest(seen)
    /\ owner /= "alive" => callback = "idle"

\* A queued reply is to a request of which the callback saw no clearing; one that
\* was taken before it saw it is interrupted.
RepliesAreCurrent ==
    /\ \A i \in 1..Len(m_reply_queue) :
          PositionOf(m_reply_queue[i].id) \in clearSeen..seen
    /\ delegatee = "taken" =>
          PositionOf(current.id) >= clearSeen \/ current \in interrupted

\* After Halt the delegatee takes one reply at most, and then ends.
HaltInv ==
    /\ m_halt <=> owner \in {"notify", "join", "destroyed"}
    /\ takenAfterHalt \in 0..1
    /\ takenAfterHalt = 1 => m_halt /\ delegatee /= "wait"

\* The types with what holds between callback, delegatee and destructor.
IndInv ==
    /\ TypeOK
    /\ ActiveReplyIsCurrent
    /\ InterruptInCallback
    /\ CallbackInv
    /\ RepliesAreCurrent
    /\ OnlyStaleRepliesAreDropped
    /\ HaltInv

\* The client as its user and the server see it: ReplyClientContract.  A reply in
\* the hand of the delegatee counts as pending until m_reply_func is called.
Contract == INSTANCE ReplyClientContract WITH
    client <- [seen |-> seen,
               prompting |-> callback \in {"prompt", "queue"},
               pending |-> (IF delegatee = "taken" THEN <<current>> ELSE <<>>)
                              \o m_reply_queue],
    halted <- m_halt,
    left <- IF m_halt
            THEN (IF delegatee = "taken" THEN 1 ELSE 0) + 1 - takenAfterHalt
            ELSE 2

\* Threads, mutex and condition variable of the client implement the contract:
\* replies are sent at most once and in the order of the prompts, only replies
\* to requests that were cleared are dropped, and Halt ends the sending.
ImplementsContract == Contract!Spec

\* Every queued reply is sent, dropped by InterruptAll or abandoned at the end.
QueuedRepliesLeave == m_reply_queue /= <<>> ~> (m_reply_queue = <<>> \/ m_halt)

\* The destructor of the client returns.
DestructorReturns == owner = "halt" ~> owner = "destroyed"

=============================================================================
