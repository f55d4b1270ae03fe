------------------------------- MODULE JobControl -------------------------------
(***************************************************************************)
(* Clients of the AutomationServer: the calls of AutomationProtocolClient, *)
(* which an AutomationClientStack forwards to, over the two RPC services,  *)
(* and ClientJob on top of them (base/client_job.cpp), from its constructor *)
(* to the methods of IJob.  A call that is not answered in time fails at   *)
(* the client, while the server goes on with it.                           *)
(***************************************************************************)
EXTENDS AutomationServer

CONSTANTS
    Clients,        \* users, each with one thread
    NoCall,         \* no call
    JobIndices,     \* the indices users name
    InstrIndices,   \* the instruction indices users name
    Commands,       \* the commands users give
    MaxFailures,    \* bound on the calls without an answer
    MaxDirectCalls  \* bound: the calls before which users call a server directly

\* IJobManager takes them as uint32.
ASSUME ArgumentsAssumption ==
    JobIndices \cup InstrIndices \cup Commands \subseteq 0..MaxUInt32

VARIABLES
    asked,          \* per call, what was called
    outcome,        \* per call, how it ended
    current,        \* per client, the call its thread waits for
    stage,          \* per client, where it stands
    m_job_idx,      \* per client, the members of its ClientJob and the local
    job_prefix,     \* job_prefix of its constructor
    m_job_info

clientVars == <<asked, outcome, current, stage, m_job_idx, job_prefix, m_job_info>>
vars == <<serverVars, handlerVars, clientVars>>

-----------------------------------------------------------------------------
(* AutomationProtocolClient: the calls and the inputs made for them.       *)

GetServerPrefixCall == [function |-> kGetServerPrefixFunctionName]
GetNumberOfJobsCall == [function |-> kGetNumberOfJobsFunctionName]
GetJobInfo(job_idx) ==
    [function |-> kGetJobInfoFunctionName, job_idx |-> job_idx]
EditBreakpoint(job_idx, instr_idx, breakpoint_active) ==
    [function |-> kEditBreakpointCommandFunctionName, job_idx |-> job_idx,
     instr_idx |-> instr_idx, breakpoint_active |-> breakpoint_active]
SendJobCommand(job_idx, command) ==
    [function |-> kSendJobCommandFunctionName, job_idx |-> job_idx,
     command |-> command]

\* External (sup-protocol): the question which protocol a server speaks.
GetApplicationProtocolInfo(server_name) ==
    [function |-> kApplicationProtocolRequest, server_name |-> server_name]

Input(call) ==
    CASE call.function \in {kGetServerPrefixFunctionName,
                            kGetNumberOfJobsFunctionName,
                            kApplicationProtocolRequest} ->
            [function |-> call.function]
      [] call.function = kGetJobInfoFunctionName ->
            [function |-> call.function, job_index |-> UInt64(call.job_idx)]
      [] call.function = kEditBreakpointCommandFunctionName ->
            [function |-> call.function, job_index |-> UInt64(call.job_idx),
             instruction_index |-> UInt64(call.instr_idx),
             breakpoint_active |-> Bool(call.breakpoint_active)]
      [] call.function = kSendJobCommandFunctionName ->
            [function |-> call.function, job_index |-> UInt64(call.job_idx),
             command |-> UInt32(call.command)]

\* The two servers that a client stack for the server name talks to.
AutomationClientStack(info_protocol, control_protocol) ==
    [m_info_protocol |-> info_protocol, m_control_protocol |-> control_protocol]
CreateEPICSJobManager(server_name) ==
    AutomationClientStack(server_name, GetControlServerName(server_name))

\* The name of the server that gets a call, and which server that is.
CalledServer(call) ==
    LET manager == CreateEPICSJobManager(m_server_prefix)
    IN  IF call.function = kApplicationProtocolRequest THEN call.server_name
        ELSE IF call.function \in InfoFunctions THEN manager.m_info_protocol
        ELSE manager.m_control_protocol
Service(call) ==
    IF CalledServer(call) = ServiceName.info THEN "info" ELSE "control"

-----------------------------------------------------------------------------
(* Calls.                                                                  *)

NextCall == CHOOSE id \in Calls : asked[id] = NoCall

\* The thread of the client makes a call and waits.
Call(c, call) ==
    /\ current[c] = NoCall
    /\ \E id \in Calls : asked[id] = NoCall
    /\ asked' = [asked EXCEPT ![NextCall] = call]
    /\ outcome' = [outcome EXCEPT ![NextCall] = "waiting"]
    /\ current' = [current EXCEPT ![c] = NextCall]
    /\ input' = [input EXCEPT ![NextCall] = Input(call)]
    /\ pc' = [pc EXCEPT ![NextCall] = Service(call)]
    /\ UNCHANGED <<serverVars, ref, n_instr, reply, executed>>

\* The call ends, for the thread that waits for it.
End(c, how) ==
    /\ outcome' = [outcome EXCEPT ![current[c]] = how]
    /\ current' = [current EXCEPT ![c] = NoCall]
    /\ UNCHANGED <<serverVars, handlerVars, asked>>

\* The reply: the function returns with its output, or throws with the result.
Returned(c) ==
    /\ current[c] /= NoCall
    /\ pc[current[c]] = "replied"
    /\ reply[current[c]].result = Success
    /\ End(c, "returned")

Threw(c) ==
    /\ current[c] /= NoCall
    /\ \/ /\ pc[current[c]] = "replied"
          /\ reply[current[c]].result /= Success
          /\ End(c, AutomationServerResultToString(reply[current[c]].result))
       \/ /\ Cardinality({id \in Calls : outcome[id] = "failed"}) < MaxFailures
          /\ End(c, "failed")   \* a time-out, or no connection

Output(c) == reply[current[c]].output

-----------------------------------------------------------------------------
(* ClientJob.                                                              *)

\* CreateClientJob: the constructor asks the job manager three times ...
CreateClientJob(c, job_idx) ==
    /\ stage[c] \in {"none", "failed"}
    /\ current[c] = NoCall
    /\ stage' = [stage EXCEPT ![c] = "n_jobs"]
    /\ m_job_idx' = [m_job_idx EXCEPT ![c] = job_idx]
    /\ UNCHANGED <<serverVars, handlerVars, asked, outcome, current, job_prefix,
                   m_job_info>>

CreationCall(c) ==
    CASE stage[c] = "n_jobs" -> GetNumberOfJobsCall
      [] stage[c] = "prefix" -> GetServerPrefixCall
      [] stage[c] = "info" -> GetJobInfo(m_job_idx[c])

AskJobManager(c) ==
    /\ stage[c] \in {"n_jobs", "prefix", "info"}
    /\ Call(c, CreationCall(c))
    /\ UNCHANGED <<stage, m_job_idx, job_prefix, m_job_info>>

\* ... checks the index, makes the prefix, keeps the info (and then adds the
\* values it names: JobMirror.tla).
UseAnswer(c) ==
    /\ Returned(c)
    /\ \/ /\ stage[c] = "n_jobs"
          /\ stage' = [stage EXCEPT ![c] =
                IF m_job_idx[c] >= Output(c).number_of_jobs.value
                THEN "failed" ELSE "prefix"]
          /\ UNCHANGED <<job_prefix, m_job_info>>
       \/ /\ stage[c] = "prefix"
          /\ stage' = [stage EXCEPT ![c] = "info"]
          /\ job_prefix' = [job_prefix EXCEPT ![c] =
                CreateJobPrefix(Output(c).server_prefix.value, m_job_idx[c])]
          /\ UNCHANGED m_job_info
       \/ /\ stage[c] = "info"
          /\ stage' = [stage EXCEPT ![c] = "created"]
          /\ m_job_info' = [m_job_info EXCEPT ![c] = Output(c).job_info.value]
          /\ UNCHANGED job_prefix
    /\ UNCHANGED m_job_idx

\* An exception ends the constructor: CreateClientJob returns nothing.
FailToCreate(c) ==
    /\ stage[c] \in {"n_jobs", "prefix", "info"}
    /\ Threw(c)
    /\ stage' = [stage EXCEPT ![c] = "failed"]
    /\ UNCHANGED <<m_job_idx, job_prefix, m_job_info>>

\* The methods of IJob.
SetBreakpoint(job_idx, instr_idx) == EditBreakpoint(job_idx, instr_idx, TRUE)
RemoveBreakpoint(job_idx, instr_idx) == EditBreakpoint(job_idx, instr_idx, FALSE)
Start(job_idx) == SendJobCommand(job_idx, kStart)
Step(job_idx) == SendJobCommand(job_idx, kStep)
Pause(job_idx) == SendJobCommand(job_idx, kPause)
Reset(job_idx) == SendJobCommand(job_idx, kReset)
Halt(job_idx) == SendJobCommand(job_idx, kHalt)

MethodCalls(job_idx) ==
    {call \in {Start(job_idx), Step(job_idx), Pause(job_idx), Reset(job_idx),
               Halt(job_idx)} : call.command \in Commands}
    \cup {SetBreakpoint(job_idx, i) : i \in InstrIndices}
    \cup {RemoveBreakpoint(job_idx, i) : i \in InstrIndices}

GetJobIndex(c) == m_job_idx[c]
ClientJobInfo(c) == m_job_info[c]       \* GetInfo of a ClientJob

UseClientJob(c) ==
    /\ stage[c] = "created"
    /\ \E call \in MethodCalls(GetJobIndex(c)) : Call(c, call)
    /\ UNCHANGED <<stage, m_job_idx, job_prefix, m_job_info>>

Direct(c) ==
    /\ stage[c] = "none"
    /\ Cardinality({id \in Calls : asked[id] /= NoCall}) < MaxDirectCalls

\* A user may also call the job manager, an AutomationClientStack, itself.
CallsOnJob(job_idx) ==
    {SendJobCommand(job_idx, k) : k \in Commands}
    \cup {EditBreakpoint(job_idx, i, TRUE) : i \in InstrIndices}
    \cup {GetJobInfo(job_idx)}
ManagerCalls == UNION {CallsOnJob(i) : i \in JobIndices}

UseJobManager(c) ==
    /\ Direct(c)
    /\ \E call \in ManagerCalls : Call(c, call)
    /\ UNCHANGED <<stage, m_job_idx, job_prefix, m_job_info>>

\* Whoever knows the servers' names may ask which protocols they speak.
ProtocolCalls ==
    {GetApplicationProtocolInfo(ServiceName.info),
     GetApplicationProtocolInfo(ServiceName.control)}

AskForProtocol(c) ==
    /\ Direct(c)
    /\ \E call \in ProtocolCalls : Call(c, call)
    /\ UNCHANGED <<stage, m_job_idx, job_prefix, m_job_info>>

\* The call of a method ends; an exception goes to its caller.
EndCall(c) ==
    /\ stage[c] \in {"none", "created"}
    /\ Returned(c) \/ Threw(c)
    /\ UNCHANGED <<stage, m_job_idx, job_prefix, m_job_info>>

-----------------------------------------------------------------------------

Init ==
    /\ ServerInit
    /\ asked = [id \in Calls |-> NoCall]
    /\ outcome = [id \in Calls |-> "none"]
    /\ current = [c \in Clients |-> NoCall]
    /\ stage = [c \in Clients |-> "none"]
    /\ m_job_idx = [c \in Clients |-> 0]
    /\ job_prefix = [c \in Clients |-> <<>>]
    /\ m_job_info = [c \in Clients |-> JobInfo([n_vars |-> 0, n_instr |-> 0])]

Server ==
    /\ Main \/ \E id \in Calls : Handle(id)
    /\ UNCHANGED clientVars

Client(c) ==
    \/ \E job_idx \in JobIndices : CreateClientJob(c, job_idx)
    \/ AskJobManager(c)
    \/ UseAnswer(c)
    \/ FailToCreate(c)
    \/ UseClientJob(c)
    \/ UseJobManager(c)
    \/ AskForProtocol(c)
    \/ EndCall(c)

Next == Server \/ \E c \in Clients : Client(c)

Spec == Init /\ [][Next]_vars

-----------------------------------------------------------------------------

Outcomes ==
    {Success, ServerProtocolDecodingError, UnknownJob, UnknownInstruction,
     UnknownJobCommand, NotSupported}
OutcomeTexts == {AutomationServerResultToString(result) : result \in Outcomes}

\* The types, as far as the other invariants need them.
TypeOK ==
    /\ phase \in {"adding", "terminated", "info", "serving"}
    /\ m_jobs \in Seq(Procedures)
    /\ pc \in [Calls -> {"none", "info", "control", "check_job", "get_info",
                         "use_info", "check_call", "get_job", "use_job",
                         "replied", "threw"}]
    /\ DOMAIN input = Calls
    /\ ref \in [Calls -> Nat]
    /\ DOMAIN reply = Calls
    /\ \A id \in Calls : pc[id] = "replied" => reply[id].result \in Outcomes
    /\ outcome \in [Calls -> {"none", "waiting", "returned", "failed"} \cup OutcomeTexts]
    /\ stage \in [Clients -> {"none", "n_jobs", "prefix", "info", "created",
                              "failed"}]

\* No handler runs before all jobs are there: m_jobs does not grow under it.
ServedWhenComplete ==
    /\ phase \in {"info", "serving"} => Len(m_jobs) = Len(Procs)
    /\ \A id \in Calls :
          pc[id] \notin {"none", "info", "control"} => phase \in {"info", "serving"}

JobExists(id) == JobIdx(id) \in 0..(Len(m_jobs) - 1)

\* The references that GetJob returned are used without the lock; none of them
\* dangles, for no job was added since.
JobReferenceIsValid ==
    \A id \in Calls :
        pc[id] \in {"use_info", "use_job"} =>
            ref[id] = Len(m_jobs) /\ JobExists(id)

\* The index that a handler checked in one call of the job manager is still
\* valid in the next ones, each of which takes the lock anew: no handler meets
\* the exception of GetJob.
CheckedIndexIsValid ==
    \A id \in Calls :
        /\ pc[id] \in {"get_info", "check_call", "get_job"} => JobExists(id)
        /\ pc[id] /= "threw"

\* What the invariants of the server need to be inductive.
ServerInv ==
    /\ TypeOK
    /\ ServedWhenComplete
    /\ JobReferenceIsValid
    /\ CheckedIndexIsValid

-----------------------------------------------------------------------------

\* The jobs are those of main, in its order, and their values have the prefix of
\* their index.
JobsAreProcs ==
    /\ \A i \in 1..Len(m_jobs) : m_jobs[i] = Procs[i]
    /\ m_job_info_ios =
          [i \in 1..Len(m_job_info_ios) |-> NewJobInfoIO(i - 1, Procs[i])]
    /\ Len(m_job_info_ios) \in Len(m_jobs)..Len(Procs)
    /\ phase = "adding" => Len(m_job_info_ios) = Len(m_jobs)

\* A successful reply says what main set up.
ReplyIsRight(id) ==
    /\ pc[id] \in {"check_job", "get_info", "use_info"} =>
          Function(id) \in ControlFunctions \cup {kGetJobInfoFunctionName}
    /\ pc[id] \in {"check_call", "get_job", "use_job"} =>
          Function(id) \in ControlFunctions
    /\ pc[id] = "replied" /\ reply[id].result = Success =>
          LET output == reply[id].output
          IN  /\ Function(id) = kGetServerPrefixFunctionName =>
                    output.server_prefix.value = m_server_prefix
              /\ Function(id) = kGetNumberOfJobsFunctionName =>
                    output.number_of_jobs.value = Len(Procs)
              /\ Function(id) = kGetJobInfoFunctionName =>
                    output.job_info.value = JobInfo(Procs[JobIdx(id) + 1])

\* The call a client waits for is its own.
WaitsForOwnCall(c) ==
    current[c] /= NoCall =>
        /\ current[c] \in Calls
        /\ asked[current[c]] /= NoCall
        /\ stage[c] \in {"n_jobs", "prefix", "info"} =>
              input[current[c]] = Input(CreationCall(c))

\* What the constructor of a ClientJob has found out.
KnownSoFar(c) ==
    /\ stage[c] /= "none" => m_job_idx[c] \in JobIndices
    /\ stage[c] \in {"prefix", "info", "created"} =>
          phase \in {"info", "serving"} /\ m_job_idx[c] < Len(Procs)
    /\ stage[c] \in {"info", "created"} =>
          job_prefix[c] = CreateJobPrefix(m_server_prefix, m_job_idx[c])
    /\ stage[c] = "created" =>
          m_job_info[c] = JobInfo(Procs[m_job_idx[c] + 1])

ClientTypeOK ==
    /\ DOMAIN asked = Calls
    /\ DOMAIN current = Clients
    /\ DOMAIN m_job_idx = Clients
    /\ DOMAIN job_prefix = Clients
    /\ DOMAIN m_job_info = Clients

\* What MirrorMatchesJob needs to be inductive.
MirrorInv ==
    /\ ClientTypeOK
    /\ JobsAreProcs
    /\ \A id \in Calls : ReplyIsRight(id)
    /\ \A c \in Clients : WaitsForOwnCall(c) /\ KnownSoFar(c)

\* A client job mirrors the values of the job it controls: the prefix and the
\* numbers it took from three calls are those the server registered the values
\* of the job with that index under.
MirrorMatchesJob ==
    \A c \in Clients :
        stage[c] = "created" =>
            LET i == GetJobIndex(c) + 1
            IN  /\ i \in DOMAIN m_jobs
                /\ job_prefix[c] = m_job_info_ios[i].job_prefix
                /\ ClientJobInfo(c).n_vars = m_job_info_ios[i].n_vars
                /\ ClientJobInfo(c) = JobInfo(m_jobs[i])

-----------------------------------------------------------------------------

AllCalls ==
    {GetServerPrefixCall, GetNumberOfJobsCall} \cup ManagerCalls
        \cup ProtocolCalls
        \cup UNION {MethodCalls(i) : i \in JobIndices}

ASSUME NoCallAssumption == NoCall \notin AllCalls /\ NoCall \notin Calls

\* The users' view of the calls: JobControlContract.
Contract == INSTANCE JobControlContract WITH
    CallSet <- AllCalls,
    NInstr <- [i \in DOMAIN Procs |-> Procs[i].n_instr],
    CommandLimit <- kTerminate

\* Calls over RPC do what the users of a job manager may rely on: none is
\* carried out twice, on another job or after it was refused, and none returns
\* before it was carried out; time-outs and concurrent handlers included.
ImplementsContract == Contract!Spec

-----------------------------------------------------------------------------
(* What the refinement of the contract rests on.                           *)

\* The input of a handler is that of the call that was asked.
InputIsAsked(id) ==
    \/ /\ asked[id] = NoCall
       /\ pc[id] = "none" /\ outcome[id] = "none"
    \/ /\ asked[id] \in AllCalls
       /\ pc[id] /= "none"
       /\ input[id] = Input(asked[id])

\* A call is at the server that has its function.
IsAtItsServer(id) ==
    /\ pc[id] = "info" => asked[id].function \notin ControlFunctions
    /\ pc[id] = "control" => asked[id].function \notin InfoFunctions

\* A handler that goes on has found no fault so far, and knows how many
\* instructions the job has.
FaultsAreFound(id) ==
    /\ pc[id] = "check_call" /\ Function(id) /= kSendJobCommandFunctionName =>
          n_instr[id] = Procs[JobIdx(id) + 1].n_instr
    /\ pc[id] \in {"get_job", "use_job"} => Contract!Faults(asked[id]) = {}

\* A call is carried out by the step that replies to it, and refused for a fault
\* of its own.
ReplyIsDue(id) ==
    /\ Contract!Executed(id) => pc[id] = "replied"
    /\ pc[id] = "replied" =>
          IF reply[id].result = Success
          THEN /\ Contract!Faults(asked[id]) = {}
               /\ Contract!Controls(asked[id]) => Contract!Executed(id)
          ELSE AutomationServerResultToString(reply[id].result)
                  \in Contract!Faults(asked[id])

\* Nobody is told of the end of a call before the reply, except that it failed.
EndIsTold(id) ==
    /\ asked[id] /= NoCall /\ pc[id] /= "replied" =>
          outcome[id] \in {"waiting", "failed"}
    /\ \A c \in Clients : current[c] = id => outcome[id] = "waiting"

JobMethods == {"Command", "SetBreakpoint", "RemoveBreakpoint"}

\* What ImplementsContract needs to be inductive.
ContractInv ==
    /\ DOMAIN n_instr = Calls
    /\ executed \in [DOMAIN Procs ->
                       Seq([id : Calls, op : JobMethods \X Nat])]
    /\ \A c, d \in Clients : current[c] = current[d] => c = d \/ current[c] = NoCall
    /\ \A id \in Calls :
          /\ InputIsAsked(id)
          /\ IsAtItsServer(id)
          /\ FaultsAreFound(id)
          /\ ReplyIsDue(id)
          /\ EndIsTold(id)

\* The inductive invariant: handlers use no job that is not there, what clients
\* know of the jobs is right, and every call is on its way to the right end.
IndInv == ServerInv /\ MirrorInv /\ ContractInv

=============================================================================
