--------------------------- MODULE JobControlContract ---------------------------
(***************************************************************************)
(* What the users of IJobManager and IJob may rely on (i_job_manager.h,    *)
(* client_job.h): a call that returns was carried out exactly once, on the *)
(* job it names; one that is refused names something that does not exist   *)
(* and is never carried out; one that fails for another reason, like a     *)
(* time-out, may still be carried out, once.                               *)
(***************************************************************************)
EXTENDS Naturals, Sequences

CONSTANTS
    Calls,          \* identities of calls
    CallSet,        \* what can be called
    NoCall,         \* a call nobody made
    NInstr,         \* per job, its number of instructions
    CommandLimit    \* the first command that is not accepted

VARIABLES
    asked,          \* per call, what was called
    outcome,        \* per call, how it ended
    executed        \* per job, what it was told to do by which call

vars == <<asked, outcome, executed>>

Controls(call) == call.function \in {"EditBreakpoint", "SendJobCommand"}

\* Why a call must be refused.
Faults(call) ==
    IF "job_idx" \notin DOMAIN call THEN {}
    ELSE IF call.job_idx >= Len(NInstr) THEN {"UnknownJob"}
    ELSE IF /\ call.function = "EditBreakpoint"
            /\ call.instr_idx >= NInstr[call.job_idx + 1]
         THEN {"UnknownInstruction"}
    ELSE IF call.function = "SendJobCommand" /\ call.command >= CommandLimit
         THEN {"UnknownJobCommand"}
    ELSE {}

OperationOf(call) ==
    IF call.function = "SendJobCommand" THEN <<"Command", call.command>>
    ELSE <<IF call.breakpoint_active THEN "SetBreakpoint" ELSE "RemoveBreakpoint",
           call.instr_idx>>

Executed(id) ==
    \E i \in DOMAIN executed : \E k \in DOMAIN executed[i] : executed[i][k].id = id

Init ==
    /\ asked = [id \in Calls |-> NoCall]
    /\ outcome = [id \in Calls |-> "none"]
    /\ executed = [i \in DOMAIN NInstr |-> <<>>]

Ask(id, call) ==
    /\ asked[id] = NoCall
    /\ asked' = [asked EXCEPT ![id] = call]
    /\ outcome' = [outcome EXCEPT ![id] = "waiting"]
    /\ UNCHANGED executed

Execute(id) ==
    /\ outcome[id] \in {"waiting", "failed"}
    /\ Controls(asked[id])
    /\ Faults(asked[id]) = {}
    /\ ~ Executed(id)
    /\ executed' = [executed EXCEPT ![asked[id].job_idx + 1] =
                       Append(@, [id |-> id, op |-> OperationOf(asked[id])])]
    /\ UNCHANGED <<asked, outcome>>

End(id, how) ==
    /\ outcome[id] = "waiting"
    /\ outcome' = [outcome EXCEPT ![id] = how]
    /\ UNCHANGED <<asked, executed>>

Return(id) ==
    /\ End(id, "returned")
    /\ Faults(asked[id]) = {}
    /\ Controls(asked[id]) => Executed(id)

Refuse(id, fault) ==
    /\ End(id, fault)
    /\ fault \in Faults(asked[id])

Fail(id) == End(id, "failed")

Next ==
    \E id \in Calls :
        \/ \E call \in CallSet : Ask(id, call)
        \/ Execute(id)
        \/ Return(id)
        \/ \E fault \in {"UnknownJob", "UnknownInstruction", "UnknownJobCommand"} :
              Refuse(id, fault)
        \/ Fail(id)

Spec == Init /\ [][Next]_vars

=============================================================================
