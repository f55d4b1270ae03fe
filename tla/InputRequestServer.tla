-------------------------- MODULE InputRequestServer --------------------------
(***************************************************************************)
(* The InputRequestServer objects of one EPICSAnyValueManager              *)
(* (base/input_request_server.cpp): the single request each holds, the     *)
(* mutex and condition variable a job thread and the RPC threads meet on.  *)
(*                                                                         *)
(* Every critical section of m_mtx is one step.  m_cv is the set of calls  *)
(* asleep on it; the notify_one that follows a critical section after its  *)
(* unlock is a step of its own, taken by the thread that owes it.          *)
(* The operations are composed with their callers in UserInputManager.     *)
(***************************************************************************)
EXTENDS Naturals

CONSTANTS
    Servers,        \* input servers (one InputRequestServer each)
    Ids,            \* request ids, unique per server
    Calls,          \* the calls <<server, id>> of GetUserInput
    Replies,        \* the valid user replies
    InvalidReply,   \* kInvalidUserInputReply
    Helpers,        \* threads that run SetClientReply or Interrupt
    NoServer        \* the value of "owes no notify_one"

ASSUME IdsAssumption == Ids \subseteq Nat
ASSUME CallsAssumption == Calls \subseteq Servers \X Ids
ASSUME InvalidReplyAssumption == InvalidReply \notin Replies
ASSUME NoServerAssumption == NoServer \notin Servers

NoId == 0

ServerOf(c) == c[1]
IdOf(c) == c[2]

VARIABLES
    m_request_id,       \* [Servers -> Ids \cup {NoId}]
    m_reply,            \* [Servers -> Replies \cup {InvalidReply}]
    m_interrupt,        \* [Servers -> BOOLEAN]
    asleep,             \* calls blocked on the m_cv of their server
    notifying,          \* the server each helper still has to notify
    accepted,           \* history: replies a client was told were accepted
    interruptCalled     \* history: calls some thread asked to interrupt

serverVars == <<m_request_id, m_reply, m_interrupt, asleep, notifying>>
historyVars == <<accepted, interruptCalled>>
irsVars == <<serverVars, historyVars>>

InputRequestServerTypeOK ==
    /\ m_request_id \in [Servers -> Ids \cup {NoId}]
    /\ m_reply \in [Servers -> Replies \cup {InvalidReply}]
    /\ m_interrupt \in [Servers -> BOOLEAN]
    /\ asleep \in SUBSET Calls
    /\ notifying \in [Helpers -> Servers \cup {NoServer}]
    /\ accepted \in [Calls -> SUBSET Replies]
    /\ interruptCalled \in SUBSET Calls

InputRequestServerInit ==
    /\ m_request_id = [s \in Servers |-> NoId]
    /\ m_reply = [s \in Servers |-> InvalidReply]
    /\ m_interrupt = [s \in Servers |-> FALSE]
    /\ asleep = {}
    /\ notifying = [t \in Helpers |-> NoServer]
    /\ accepted = [c \in Calls |-> {}]
    /\ interruptCalled = {}

IsValid(reply) == reply /= InvalidReply

-----------------------------------------------------------------------------
(* Forms of the operations below with a plausible bug.  Spec uses none; the *)
(* properties are shown to fail when one takes the place of an operation.  *)

InitNewRequestKeepsInterrupt(c) ==
    /\ m_request_id' = [m_request_id EXCEPT ![ServerOf(c)] = IdOf(c)]
    /\ m_reply' = [m_reply EXCEPT ![ServerOf(c)] = InvalidReply]
    /\ UNCHANGED <<m_interrupt, asleep, notifying, historyVars>>

InitNewRequestKeepsReply(c) ==
    /\ m_request_id' = [m_request_id EXCEPT ![ServerOf(c)] = IdOf(c)]
    /\ m_interrupt' = [m_interrupt EXCEPT ![ServerOf(c)] = FALSE]
    /\ UNCHANGED <<m_reply, asleep, notifying, historyVars>>

OnlyReply(c) ==
    IsValid(m_reply[ServerOf(c)]) /\ IdOf(c) = m_request_id[ServerOf(c)]

TakesReplyToAnyId(s, id, reply) ==
    id /= NoId /\ IsValid(reply) /\ ~ IsValid(m_reply[s])

InterruptsAnyId(s, id) == m_request_id[s] /= NoId

NotifyNobody(t) ==
    /\ notifying[t] /= NoServer
    /\ notifying' = [notifying EXCEPT ![t] = NoServer]
    /\ UNCHANGED <<m_request_id, m_reply, m_interrupt, asleep, historyVars>>

-----------------------------------------------------------------------------
(* The calling job thread.                                                 *)

\* InitNewRequest of the call's server and id.
InitNewRequest(c) ==
    /\ m_request_id' = [m_request_id EXCEPT ![ServerOf(c)] = IdOf(c)]
    /\ m_interrupt' = [m_interrupt EXCEPT ![ServerOf(c)] = FALSE]
    /\ m_reply' = [m_reply EXCEPT ![ServerOf(c)] = InvalidReply]
    /\ UNCHANGED <<asleep, notifying, historyVars>>

\* The predicate of the wait in WaitForReply.
ReplyOrInterrupt(c) ==
    \/ IsValid(m_reply[ServerOf(c)]) /\ IdOf(c) = m_request_id[ServerOf(c)]
    \/ m_interrupt[ServerOf(c)]

\* m_cv.wait finds the predicate false: it unlocks and falls asleep at once.
FallAsleep(c) ==
    /\ IdOf(c) /= NoId
    /\ c \notin asleep
    /\ ~ ReplyOrInterrupt(c)
    /\ asleep' = asleep \cup {c}
    /\ UNCHANGED <<m_request_id, m_reply, m_interrupt, notifying, historyVars>>

\* The wait may also end with no notification; the predicate is then checked
\* again.
SpuriousWakeup(c) ==
    /\ c \in asleep
    /\ asleep' = asleep \ {c}
    /\ UNCHANGED <<m_request_id, m_reply, m_interrupt, notifying, historyVars>>

\* WaitForReply can return: the id is zero, or the predicate holds for a
\* thread that is awake.
WaitReturns(c) ==
    \/ IdOf(c) = NoId
    \/ c \notin asleep /\ ReplyOrInterrupt(c)

\* What WaitForReply returns, with {false, invalid} folded into InvalidReply:
\* the only caller turns it into that reply.  An interrupt wins over a reply.
WaitResult(c) ==
    IF IdOf(c) = NoId \/ m_interrupt[ServerOf(c)]
    THEN InvalidReply
    ELSE m_reply[ServerOf(c)]

-----------------------------------------------------------------------------
(* The helper threads.                                                     *)

\* A reply is refused when the id is zero or not the current one, or when the
\* reply is invalid or not the first.
TakesReply(s, id, reply) ==
    /\ id /= NoId
    /\ IsValid(reply)
    /\ id = m_request_id[s]
    /\ ~ IsValid(m_reply[s])

\* SetClientReply that stores the reply.  A refusal changes nothing here.
AcceptClientReply(t, s, id, reply) ==
    /\ notifying[t] = NoServer
    /\ TakesReply(s, id, reply)
    /\ m_reply' = [m_reply EXCEPT ![s] = reply]
    /\ notifying' = [notifying EXCEPT ![t] = s]
    /\ accepted' = [accepted EXCEPT ![<<s, id>>] = @ \cup {reply}]
    /\ UNCHANGED <<m_request_id, m_interrupt, asleep, interruptCalled>>

Interrupts(s, id) == m_request_id[s] = id

\* Interrupt.  For another id than the current one it returns early and leaves
\* only the trace in the history.
InterruptRequest(t, s, id) ==
    /\ notifying[t] = NoServer
    /\ interruptCalled' = interruptCalled \cup {<<s, id>>}
    /\ IF Interrupts(s, id)
       THEN /\ m_interrupt' = [m_interrupt EXCEPT ![s] = TRUE]
            /\ notifying' = [notifying EXCEPT ![t] = s]
       ELSE UNCHANGED <<m_interrupt, notifying>>
    /\ UNCHANGED <<m_request_id, m_reply, asleep, accepted>>

\* The notify_one after the critical section wakes one sleeper of that server,
\* or nobody.
NotifyOne(t) ==
    LET sleepers == {c \in asleep : ServerOf(c) = notifying[t]}
    IN  /\ notifying[t] /= NoServer
        /\ notifying' = [notifying EXCEPT ![t] = NoServer]
        /\ \/ \E c \in sleepers : asleep' = asleep \ {c}
           \/ sleepers = {} /\ UNCHANGED asleep
        /\ UNCHANGED <<m_request_id, m_reply, m_interrupt, historyVars>>

=============================================================================
