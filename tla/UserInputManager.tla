--------------------------- MODULE UserInputManager ---------------------------
(***************************************************************************)
(* The user input side of EPICSAnyValueManager                             *)
(* (epics/epics_anyvalue_manager.cpp): job threads that call GetUserInput, *)
(* RPC threads that deliver client replies and threads that interrupt a    *)
(* request, over the InputRequestServer of each input server and the       *)
(* request variable clients monitor.                                       *)
(*                                                                         *)
(* A call is a pair <<server, id>>: the ids of a server are never reused.  *)
(***************************************************************************)
EXTENDS InputRequestServer, Sequences

CONSTANTS
    NoCall,     \* m_user_input_mtx is free
    Clear       \* kInputRequestAnyValue: no request

ASSUME NoCallAssumption == NoCall \notin Calls
ASSUME ClearAssumption == Clear \notin Ids

VARIABLES
    inputServers,   \* servers in m_name_input_server_map
    requestServers, \* servers whose request variable is in m_name_server_map
    m_user_input_mtx,   \* the call that holds it
    pc,             \* where each call stands in GetUserInput
    result,         \* what each call returns
    updates,        \* per server, updates queued for the request variable
    requestPV       \* per server, the value clients can read

callVars == <<m_user_input_mtx, pc, result>>
handlerVars == <<inputServers, requestServers>>
pvVars == <<updates, requestPV>>
vars == <<irsVars, callVars, handlerVars, pvVars>>

\* The types of the variables of GetUserInput and of the request servers.
TypeOK ==
    /\ InputRequestServerTypeOK
    /\ inputServers \in SUBSET Servers
    /\ requestServers \in SUBSET Servers
    /\ m_user_input_mtx \in Calls \cup {NoCall}
    /\ pc \in [Calls -> {"idle", "find", "init", "publish", "wait", "clear",
                         "unlock", "done"}]
    /\ result \in [Calls -> Replies \cup {InvalidReply}]
    /\ updates \in [Servers -> Seq(Ids \cup {Clear})]
    /\ requestPV \in [Servers -> Ids \cup {Clear}]

Init ==
    /\ InputRequestServerInit
    /\ inputServers = {}
    /\ requestServers = {}
    /\ m_user_input_mtx = NoCall
    /\ pc = [c \in Calls |-> "idle"]
    /\ result = [c \in Calls |-> InvalidReply]
    /\ updates = [s \in Servers |-> <<>>]
    /\ requestPV = [s \in Servers |-> Clear]

-----------------------------------------------------------------------------
(* AddInputHandler: two critical sections of m_map_mtx.                    *)

AddInputServer(s) ==
    /\ s \notin inputServers
    /\ inputServers' = inputServers \cup {s}
    /\ UNCHANGED <<irsVars, callVars, requestServers, pvVars>>

AddRequestServer(s) ==
    /\ s \in inputServers \ requestServers
    /\ requestServers' = requestServers \cup {s}
    /\ UNCHANGED <<irsVars, callVars, inputServers, pvVars>>

-----------------------------------------------------------------------------
(* GetUserInput, one action per step another thread can observe.           *)

Goto(c, from, to) ==
    /\ pc[c] = from
    /\ pc' = [pc EXCEPT ![c] = to]

\* Forms with a plausible bug, used by no action of Spec.
PushConflating(s, value) ==
    /\ updates' = [updates EXCEPT ![s] = <<value>>]
    /\ UNCHANGED requestPV

ReturnFromWaitEarly(c) ==
    /\ IF IsValid(WaitResult(c))
       THEN Goto(c, "wait", "clear")
       ELSE Goto(c, "wait", "unlock")
    /\ WaitReturns(c)
    /\ result' = [result EXCEPT ![c] = WaitResult(c)]
    /\ UNCHANGED <<irsVars, m_user_input_mtx, handlerVars, pvVars>>

\* UpdateAnyValue of the request variable.
Push(s, value) ==
    /\ updates' = [updates EXCEPT ![s] = Append(@, value)]
    /\ UNCHANGED requestPV

LockUserInput(c) ==
    /\ m_user_input_mtx = NoCall
    /\ Goto(c, "idle", "find")
    /\ m_user_input_mtx' = c
    /\ UNCHANGED <<irsVars, result, handlerVars, pvVars>>

\* Both lookups.  Handlers are only ever added, input server first, so the
\* pair has the outcome of one lookup at the time of the failing or last one.
FindServers(c) ==
    /\ IF ServerOf(c) \in inputServers \cap requestServers
       THEN Goto(c, "find", "init")
       ELSE Goto(c, "find", "unlock")
    /\ UNCHANGED <<irsVars, m_user_input_mtx, result, handlerVars, pvVars>>

BeginRequest(c) ==
    /\ Goto(c, "init", "publish")
    /\ InitNewRequest(c)
    /\ UNCHANGED <<m_user_input_mtx, result, handlerVars, pvVars>>

PublishRequest(c) ==
    /\ Goto(c, "publish", "wait")
    /\ Push(ServerOf(c), IdOf(c))
    /\ UNCHANGED <<irsVars, m_user_input_mtx, result, handlerVars>>

BlockOnReply(c) ==
    /\ pc[c] = "wait"
    /\ FallAsleep(c)
    /\ UNCHANGED <<callVars, handlerVars, pvVars>>

WakeWithoutCause(c) ==
    /\ SpuriousWakeup(c)
    /\ UNCHANGED <<callVars, handlerVars, pvVars>>

ReturnFromWait(c) ==
    /\ Goto(c, "wait", "clear")
    /\ WaitReturns(c)
    /\ result' = [result EXCEPT ![c] = WaitResult(c)]
    /\ UNCHANGED <<irsVars, m_user_input_mtx, handlerVars, pvVars>>

ClearRequest(c) ==
    /\ Goto(c, "clear", "unlock")
    /\ Push(ServerOf(c), Clear)
    /\ UNCHANGED <<irsVars, m_user_input_mtx, result, handlerVars>>

UnlockUserInput(c) ==
    /\ Goto(c, "unlock", "done")
    /\ m_user_input_mtx' = NoCall
    /\ UNCHANGED <<irsVars, result, handlerVars, pvVars>>

-----------------------------------------------------------------------------
(* The other threads.                                                      *)

\* InputProtocolServer::SetClientReply on the RPC server of s.
SetClientReply(t, s, id, reply) ==
    /\ s \in inputServers
    /\ AcceptClientReply(t, s, id, reply)
    /\ UNCHANGED <<callVars, handlerVars, pvVars>>

\* EPICSAnyValueManager::Interrupt, which does not take m_user_input_mtx.  It
\* finds no server, or calls Interrupt of the one it found.
Interrupt(t, s, id) ==
    /\ s \in inputServers
    /\ <<s, id>> \in Calls
    /\ InterruptRequest(t, s, id)
    /\ UNCHANGED <<callVars, handlerVars, pvVars>>

Notify(t) ==
    /\ NotifyOne(t)
    /\ UNCHANGED <<callVars, handlerVars, pvVars>>

\* The update thread of the EPICSServer of the request variable of s.
UpdateRequestPV(s) ==
    /\ updates[s] /= <<>>
    /\ requestPV' = [requestPV EXCEPT ![s] = Head(updates[s])]
    /\ updates' = [updates EXCEPT ![s] = Tail(@)]
    /\ UNCHANGED <<irsVars, callVars, handlerVars>>

-----------------------------------------------------------------------------

\* The steps of a call once it holds the mutex.
CallStep(c) ==
    \/ FindServers(c)
    \/ BeginRequest(c)
    \/ PublishRequest(c)
    \/ BlockOnReply(c)
    \/ ReturnFromWait(c)
    \/ ClearRequest(c)
    \/ UnlockUserInput(c)

Next ==
    \/ \E s \in Servers : \/ AddInputServer(s)
                          \/ AddRequestServer(s)
                          \/ UpdateRequestPV(s)
    \/ \E c \in Calls : \/ LockUserInput(c)
                        \/ CallStep(c)
                        \/ WakeWithoutCause(c)
    \/ \E t \in Helpers, s \in Servers, id \in Ids :
          \/ \E reply \in Replies : SetClientReply(t, s, id, reply)
          \/ Interrupt(t, s, id)
    \/ \E t \in Helpers : Notify(t)

Spec == Init /\ [][Next]_vars

\* The threads that hold a lock or owe a notification keep running, and so does
\* the update thread.  Nobody has to call, reply, interrupt or wake up
\* spuriously.
Fairness ==
    /\ \A c \in Calls : WF_vars(CallStep(c))
    /\ \A t \in Helpers : WF_vars(Notify(t))
    /\ \A s \in Servers : WF_vars(UpdateRequestPV(s))

FairSpec == Spec /\ Fairness

-----------------------------------------------------------------------------
(* Safety.                                                                 *)

\* A request stays the current one of its server until its call stops waiting.
\* InputRequestServer does not ensure it (input_request_server.h, the note of
\* the class): holding m_user_input_mtx for the whole of GetUserInput does.
RequestNotOverwritten ==
    \A c \in Calls :
        pc[c] \in {"publish", "wait"} => m_request_id[ServerOf(c)] = IdOf(c)

\* GetUserInput returns a valid reply only if some client was told that this
\* very reply was accepted for this server and this id: no reply of an earlier
\* request, of another id or of another server gets through.
ReplyIsOwn ==
    \A c \in Calls : IsValid(result[c]) => result[c] \in accepted[c]

\* At most one reply to a request is ever accepted, also when it is sent twice,
\* by several clients, or after the call returned.
OneReplyPerCall ==
    \A c \in Calls : \A r1, r2 \in accepted[c] : r1 = r2

\* A call that waited fails only because some thread interrupted this call:
\* never through the interrupt of an earlier request or of another id.
FailureHasCause ==
    \A c \in Calls :
        pc[c] = "clear" /\ ~ IsValid(result[c]) /\ IdOf(c) /= NoId
            => c \in interruptCalled

\* A client that was told its reply is accepted can only be wrong if the call
\* was interrupted.
AcceptedReplyIsReturned ==
    \A c \in Calls :
        pc[c] = "done" /\ accepted[c] /= {} /\ c \notin interruptCalled
            => result[c] \in accepted[c]

\* No wakeup is lost although notify_one comes after the unlock and wakes one
\* thread only: when a sleeping call could go on, somebody still owes its
\* server a notification.
NoLostWakeup ==
    \A c \in asleep :
        ReplyOrInterrupt(c) => \E t \in Helpers : notifying[t] = ServerOf(c)

\* Once no call of a server waits or is about to clear its request, the last
\* value the request variable shows is Clear: clients are not left prompting
\* for a request nobody waits for.
NoStaleRequest ==
    \A s \in Servers :
        (\A c \in Calls : ServerOf(c) = s => pc[c] \notin {"wait", "clear"})
            => IF updates[s] = <<>> THEN requestPV[s] = Clear
               ELSE updates[s][Len(updates[s])] = Clear

\* Clients see Clear between two requests of a server: the value they take as
\* the order to drop the first one (EPICSIOClientImpl::HandleUserInput).
RequestsSeparatedByClear ==
    [][\A s \in Servers :
          requestPV'[s] /= requestPV[s] =>
              (requestPV[s] = Clear \/ requestPV'[s] = Clear)]_vars

-----------------------------------------------------------------------------
(* The inductive invariant the proofs of UserInputManagerProofs rest on.   *)

InGetUserInput == {"find", "init", "publish", "wait", "clear", "unlock"}
Returned == {"clear", "unlock", "done"}

\* A call that is past LockUserInput holds the mutex.
HoldsMutex ==
    \A c \in Calls : pc[c] \in InGetUserInput => m_user_input_mtx = c

\* Only a waiting call with an id sleeps.
SleeperWaits == \A c \in asleep : pc[c] = "wait" /\ IdOf(c) /= NoId

\* A call whose InitNewRequest is still to come is not the current request of
\* its server and has no reply.
NotBegunIsFresh ==
    \A c \in Calls :
        pc[c] \in {"idle", "find", "init"} =>
            /\ accepted[c] = {}
            /\ IdOf(c) /= NoId => m_request_id[ServerOf(c)] /= IdOf(c)

\* The current request of a server is that of a call.
CurrentIsCall ==
    \A s \in Servers :
        m_request_id[s] /= NoId => <<s, m_request_id[s]>> \in Calls

\* m_reply is the reply accepted for the current request, if there is one.
ReplyIsOfCurrent ==
    \A s \in Servers :
        IsValid(m_reply[s]) =>
            /\ m_request_id[s] /= NoId
            /\ m_reply[s] \in accepted[<<s, m_request_id[s]>>]

AcceptedIsStored ==
    \A c \in Calls :
        accepted[c] /= {} /\ m_request_id[ServerOf(c)] = IdOf(c)
            => IsValid(m_reply[ServerOf(c)])

\* m_interrupt was set for the current request.
InterruptIsOfCurrent ==
    \A c \in Calls :
        /\ m_interrupt[ServerOf(c)]
        /\ m_request_id[ServerOf(c)] = IdOf(c)
        /\ IdOf(c) /= NoId
        => c \in interruptCalled

\* The request of a call that returned and was not interrupted has a reply for
\* as long as it is the current one: no other reply is taken.
ReturnedIsAnswered ==
    \A c \in Calls :
        /\ pc[c] \in Returned
        /\ c \notin interruptCalled
        /\ m_request_id[ServerOf(c)] = IdOf(c)
        /\ IdOf(c) /= NoId
        => IsValid(m_reply[ServerOf(c)])

\* AcceptedReplyIsReturned from the return of WaitForReply on.
AcceptedIsReturnedAtOnce ==
    \A c \in Calls :
        pc[c] \in Returned /\ accepted[c] /= {} /\ c \notin interruptCalled
            => result[c] \in accepted[c]

\* A valid result is set by the return of WaitForReply only.
ResultAtReturn ==
    \A c \in Calls : pc[c] \notin Returned => result[c] = InvalidReply

\* All of it: the types, the mutual exclusion of GetUserInput, and what ties the
\* request, the reply and the interrupt of each InputRequestServer to one call.
IndInv ==
    /\ TypeOK
    /\ HoldsMutex
    /\ RequestNotOverwritten
    /\ SleeperWaits
    /\ NotBegunIsFresh
    /\ CurrentIsCall
    /\ ReplyIsOfCurrent
    /\ AcceptedIsStored
    /\ InterruptIsOfCurrent
    /\ ReturnedIsAnswered
    /\ ResultAtReturn
    /\ ReplyIsOwn
    /\ OneReplyPerCall
    /\ FailureHasCause
    /\ AcceptedIsReturnedAtOnce
    /\ NoLostWakeup

-----------------------------------------------------------------------------
(* Refinement.                                                             *)

\* A call is open from InitNewRequest to the return of WaitForReply.
Phase(c) ==
    CASE pc[c] \in {"idle", "find", "init"} -> "idle"
      [] pc[c] \in {"publish", "wait"} -> "open"
      [] OTHER -> "closed"

Contract == INSTANCE UserInputContract WITH
    NullCalls <- {c \in Calls : IdOf(c) = NoId},
    phase <- [c \in Calls |-> Phase(c)],
    interrupted <- interruptCalled

\* GetUserInput with its threads, locks and notifications implements the
\* contract.
ImplementsContract == Contract!Spec

-----------------------------------------------------------------------------
(* Liveness, under FairSpec.                                               *)

\* A call whose reply was accepted returns, whatever the other threads do.
AnsweredCallReturns ==
    \A c \in Calls : accepted[c] /= {} ~> pc[c] = "done"

\* A call interrupted after InitNewRequest returns.
InterruptedCallReturns ==
    \A c \in Calls :
        pc[c] \in {"publish", "wait"} /\ m_interrupt[ServerOf(c)]
            ~> pc[c] = "done"

\* Every request waited for is shown to the clients.
RequestIsPublished ==
    \A c \in Calls : pc[c] = "wait" ~> requestPV[ServerOf(c)] = IdOf(c)

\* i_anyvalue_manager.h says that implementations take care of an interrupt
\* that comes before the call it is for: the call would return.
EarlyInterruptIsHonoured ==
    \A c \in Calls :
        pc[c] = "wait" /\ c \in interruptCalled ~> pc[c] = "done"

=============================================================================
