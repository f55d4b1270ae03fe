--------------------------- MODULE UserInputContract ---------------------------
(***************************************************************************)
(* What GetUserInput promises (i_anyvalue_manager.h, input_request_server.h*)
(* and the callers in base/server_job_info_io.cpp), without threads, locks *)
(* or variables of the network: a manager serves one call at a time, a     *)
(* call gets at most one reply, it returns that reply, and only a call     *)
(* that was interrupted, never found its handler or has no id returns the  *)
(* invalid reply.                                                          *)
(***************************************************************************)
EXTENDS Naturals

CONSTANTS
    Calls,
    NullCalls,      \* calls with the id zero, which nobody can answer
    Replies,
    InvalidReply

VARIABLES phase, accepted, interrupted, result

vars == <<phase, accepted, interrupted, result>>

Init ==
    /\ phase = [c \in Calls |-> "idle"]
    /\ accepted = [c \in Calls |-> {}]
    /\ interrupted = {}
    /\ result = [c \in Calls |-> InvalidReply]

Open(c) ==
    /\ phase[c] = "idle"
    /\ \A d \in Calls : phase[d] /= "open"
    /\ phase' = [phase EXCEPT ![c] = "open"]
    /\ UNCHANGED <<accepted, interrupted, result>>

\* There is no handler for the server of the call.
Reject(c) ==
    /\ phase[c] = "idle"
    /\ phase' = [phase EXCEPT ![c] = "closed"]
    /\ UNCHANGED <<accepted, interrupted, result>>

\* A reply is accepted while the call is open; one that comes after the call
\* returned is accepted only if an interrupt ended the call.
Accept(c, reply) ==
    /\ \/ phase[c] = "open"
       \/ phase[c] = "closed" /\ c \in interrupted
    /\ accepted[c] = {}
    /\ accepted' = [accepted EXCEPT ![c] = {reply}]
    /\ UNCHANGED <<phase, interrupted, result>>

Interrupt(c) ==
    /\ interrupted' = interrupted \cup {c}
    /\ UNCHANGED <<phase, accepted, result>>

Close(c) ==
    /\ phase[c] = "open"
    /\ phase' = [phase EXCEPT ![c] = "closed"]
    /\ \/ \E reply \in accepted[c] : result' = [result EXCEPT ![c] = reply]
       \/ /\ c \in interrupted \cup NullCalls
          /\ result' = [result EXCEPT ![c] = InvalidReply]
    /\ UNCHANGED <<accepted, interrupted>>

Next ==
    \E c \in Calls :
       \/ Open(c)
       \/ Reject(c)
       \/ \E reply \in Replies : Accept(c, reply)
       \/ Interrupt(c)
       \/ Close(c)

Spec == Init /\ [][Next]_vars

=============================================================================
