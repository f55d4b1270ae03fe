---------------------------- MODULE AutomationServer ----------------------------
(***************************************************************************)
(* AutomationServer (base/automation_server.cpp) and the handlers of the   *)
(* RPC servers that give clients access to it: InfoProtocolServer and      *)
(* ControlProtocolServer.  The RPC servers run the handlers of several     *)
(* calls at the same time; a step ends where m_mtx is released, so that the *)
(* references GetJob returns are used without the lock.                    *)
(***************************************************************************)
EXTENDS OacTreeProtocol

CONSTANTS
    Procs,          \* the procedures of main, [n_vars, n_instr] each
    m_server_prefix,\* a name
    Calls,          \* identities of the RPC calls
    NoReply         \* a call without a reply

\* What the clients see of a procedure and the job made of it.
Procedures == [n_vars : Nat, n_instr : Nat]

ASSUME ProcsAssumption == Procs \in Seq(Procedures)
ASSUME ServerPrefixAssumption == m_server_prefix \in Seq(STRING)

VARIABLES
    phase,          \* where main stands
    m_job_info_ios, \* the ServerJobInfoIO of the jobs
    m_jobs,         \* the jobs
    pc,             \* per call, where it stands
    input,          \* per call, the input of the RPC
    ref,            \* per call, the length of m_jobs when GetJob returned
    n_instr,        \* per call of EditBreakpoint, the number of instructions
    reply,          \* per call, the reply of the server
    executed        \* history: per job, what it was told to do by which call

serverVars == <<phase, m_job_info_ios, m_jobs>>
handlerVars == <<pc, input, ref, n_instr, reply, executed>>

-----------------------------------------------------------------------------
(* The functions of the protocols.                                         *)

kGetServerPrefixFunctionName == "GetServerPrefix"
kGetNumberOfJobsFunctionName == "GetNumberOfJobs"
kGetJobInfoFunctionName == "GetJobInfo"
kEditBreakpointCommandFunctionName == "EditBreakpoint"
kSendJobCommandFunctionName == "SendJobCommand"

InfoFunctions == {kGetServerPrefixFunctionName, kGetNumberOfJobsFunctionName,
                  kGetJobInfoFunctionName}
ControlFunctions == {kEditBreakpointCommandFunctionName,
                     kSendJobCommandFunctionName}

\* Fields of their inputs.
kInstructionIndexFieldName == "instruction_index"
kBreakpointActiveFieldName == "breakpoint_active"
kJobCommandFieldName == "command"

\* External (sup-protocol): what a client sends in place of a function to ask for
\* the application protocol, how it is recognised and what is answered.
kApplicationProtocolRequest == "ApplicationProtocolRequest"
IsApplicationProtocolRequestPayload(av) ==
    av["function"] = kApplicationProtocolRequest
HandleApplicationProtocolInfo(type, version) ==
    [application_type |-> String(type), application_version |-> String(version)]

kAutomationInfoServerProtocolServerType == "AutomationInfoServerProtocol"
kAutomationInfoServerProtocolServerVersion == "1.0"
kAutomationControlServerProtocolServerType == "AutomationControlServerProtocol"
kAutomationControlServerProtocolServerVersion == "1.0"

\* External (oac-tree): the commands of a job.
kStart == 0
kStep == 1
kPause == 2
kReset == 3
kHalt == 4
kTerminate == 5

\* External (oac-tree): the JobInfo of a job and its AnyValue.
JobInfo(job) == [n_vars |-> job.n_vars, n_instr |-> job.n_instr]
JobInfoAnyValue(info) == [type |-> "JobInfo", value |-> info]

-----------------------------------------------------------------------------
(* main and AddJob.                                                        *)

\* EPICSAnyValueManagerRegistry: main makes one manager per procedure; the values
\* of a job go to the manager of its index.
CreateEPICSAnyValueManagerRegistry(n_managers) ==
    [m_anyvalue_managers |-> [i \in 1..n_managers |-> i]]
GetAnyValueManager(idx) ==
    LET registry == CreateEPICSAnyValueManagerRegistry(Len(Procs))
    IN  registry.m_anyvalue_managers[(idx % Len(Procs)) + 1]

\* Forms with a plausible bug, used by no action of the specification.
NewJobInfoIOAfter(idx, proc) ==     \* the index is read after the push
    [job_prefix |-> CreateJobPrefix(m_server_prefix, idx + 1),
     n_vars |-> proc.n_vars,
     manager |-> GetAnyValueManager(idx + 1)]

NewJobInfoIO(idx, proc) ==
    [job_prefix |-> CreateJobPrefix(m_server_prefix, idx),
     n_vars |-> proc.n_vars,
     manager |-> GetAnyValueManager(idx)]

\* The constructor of LocalJob may throw when it sets up the procedure: this
\* ends main, and with it the process.
AddJob ==
    /\ phase = "adding"
    /\ Len(m_jobs) < Len(Procs)
    /\ LET idx == Len(m_jobs)
           proc == Procs[idx + 1]
       IN  /\ m_job_info_ios' = Append(m_job_info_ios, NewJobInfoIO(idx, proc))
           /\ \/ m_jobs' = Append(m_jobs, proc) /\ UNCHANGED phase
              \/ phase' = "terminated" /\ UNCHANGED m_jobs
    /\ UNCHANGED handlerVars

\* Forms with a plausible bug, used by no action of the specification.
StartInfoServerEarly ==
    /\ phase = "adding"
    /\ phase' = "info"
    /\ UNCHANGED <<m_job_info_ios, m_jobs, handlerVars>>

StartInfoServer ==
    /\ phase = "adding"
    /\ Len(m_jobs) = Len(Procs)
    /\ phase' = "info"
    /\ UNCHANGED <<m_job_info_ios, m_jobs, handlerVars>>

\* The names of the two RPC servers.
ServiceName ==
    [info |-> m_server_prefix, control |-> GetControlServerName(m_server_prefix)]

StartControlServer ==
    /\ phase = "info"
    /\ phase' = "serving"
    /\ UNCHANGED <<m_job_info_ios, m_jobs, handlerVars>>

-----------------------------------------------------------------------------
(* IJobManager.                                                            *)

GetServerPrefix == m_server_prefix
GetNumberOfJobs == Len(m_jobs)

JobIdx(id) == input[id]["job_index"].value

\* GetJob: a reference into m_jobs for the next step, or an exception that no
\* handler expects.
GetJob(id, next) ==
    /\ ref' = [ref EXCEPT ![id] = Len(m_jobs)]
    /\ pc' = [pc EXCEPT ![id] = IF JobIdx(id) >= Len(m_jobs) THEN "threw" ELSE next]
    /\ UNCHANGED <<serverVars, input, n_instr, reply, executed>>

Job(id) == m_jobs[JobIdx(id) + 1]

-----------------------------------------------------------------------------
(* The handlers.                                                           *)

Reply(id, result, output) ==
    /\ reply' = [reply EXCEPT ![id] = [result |-> result, output |-> output]]
    /\ pc' = [pc EXCEPT ![id] = "replied"]

Goto(id, next) ==
    /\ pc' = [pc EXCEPT ![id] = next]
    /\ UNCHANGED reply

Function(id) == input[id]["function"]

\* External (sup-dto): assigns the value when the output is empty.  What a
\* conversion to another output does is left out: no call asks for it.
TryAssignIfEmptyOrConvert(output, value) ==
    IF IsEmptyValue(output) THEN {value} ELSE {}

\* External (sup-protocol): what the RPC server gives a handler to write to.
OutputOfCall == EmptyValue

\* How the handlers of InfoProtocolServer end.
ReplyWith(id, temp_out) ==
    LET outputs == TryAssignIfEmptyOrConvert(OutputOfCall, temp_out)
    IN  \/ /\ outputs = {}
           /\ Reply(id, ServerProtocolEncodingError, OutputOfCall)
        \/ \E output \in outputs : Reply(id, Success, output)

\* Invoke of InfoProtocolServer and of ControlProtocolServer: the function maps.
InvokeInfo(id) ==
    CASE Function(id) = kGetServerPrefixFunctionName ->
            ReplyWith(id, [server_prefix |-> String(GetServerPrefix)])
      [] Function(id) = kGetNumberOfJobsFunctionName ->
            ReplyWith(id, [number_of_jobs |-> UInt64(GetNumberOfJobs)])
      [] Function(id) = kGetJobInfoFunctionName -> Goto(id, "check_job")
      [] OTHER -> Reply(id, NotSupported, EmptyValue)

InvokeControl(id) ==
    IF Function(id) \in ControlFunctions THEN Goto(id, "check_job")
    ELSE Reply(id, NotSupported, EmptyValue)

\* Service of the two: nothing but the request for the protocol.
ServiceInfo(id) ==
    IF IsApplicationProtocolRequestPayload(input[id])
    THEN Reply(id, Success, HandleApplicationProtocolInfo(
                                kAutomationInfoServerProtocolServerType,
                                kAutomationInfoServerProtocolServerVersion))
    ELSE Reply(id, NotSupported, EmptyValue)

ServiceControl(id) ==
    IF IsApplicationProtocolRequestPayload(input[id])
    THEN Reply(id, Success, HandleApplicationProtocolInfo(
                                kAutomationControlServerProtocolServerType,
                                kAutomationControlServerProtocolServerVersion))
    ELSE Reply(id, NotSupported, EmptyValue)

\* External (sup-protocol): a payload of the service goes to Service, another one
\* to Invoke.
IsServiceRequest(id) == IsApplicationProtocolRequestPayload(input[id])

\* The call reaches the server it was sent to once that is there.
Invoke(id) ==
    /\ \/ /\ pc[id] = "info" /\ phase \in {"info", "serving"}
          /\ IF IsServiceRequest(id) THEN ServiceInfo(id) ELSE InvokeInfo(id)
       \/ /\ pc[id] = "control" /\ phase = "serving"
          /\ IF IsServiceRequest(id) THEN ServiceControl(id) ELSE InvokeControl(id)
    /\ UNCHANGED <<serverVars, input, ref, n_instr, executed>>

CheckJob(id) ==
    /\ pc[id] = "check_job"
    /\ LET result == ExtractJobIndex(input[id], GetNumberOfJobs)
       IN  IF result /= Success THEN Reply(id, result, EmptyValue)
           ELSE Goto(id, IF Function(id) = kSendJobCommandFunctionName
                         THEN "check_call" ELSE "get_info")
    /\ UNCHANGED <<serverVars, input, ref, n_instr, executed>>

\* GetJobInfo of the job manager: GetJob, and GetInfo of the job.
GetInfo(id) ==
    /\ pc[id] = "get_info"
    /\ GetJob(id, "use_info")

UseInfo(id) ==
    /\ pc[id] = "use_info"
    /\ IF Function(id) = kGetJobInfoFunctionName
       THEN /\ ReplyWith(id, [job_info |-> JobInfoAnyValue(JobInfo(Job(id)))])
            /\ UNCHANGED n_instr
       ELSE /\ n_instr' = [n_instr EXCEPT ![id] = JobInfo(Job(id)).n_instr]
            /\ Goto(id, "check_call")
    /\ UNCHANGED <<serverVars, input, ref, executed>>

ExtractJobCommand(av) ==
    IF ~ HasField(av, kJobCommandFieldName) \/ ~ ConvertsToUInt32(av[kJobCommandFieldName])
    THEN ServerProtocolDecodingError
    ELSE IF av[kJobCommandFieldName].value >= kTerminate THEN UnknownJobCommand
    ELSE Success

CheckBreakpoint(av, n) ==
    LET result == ExtractInstructionIndex(av, n)
    IN  IF result /= Success THEN result
        ELSE IF ~ ValidateMemberType(av, kBreakpointActiveFieldName, "bool")
        THEN ServerProtocolDecodingError
        ELSE Success

CheckCall(id) ==
    /\ pc[id] = "check_call"
    /\ LET result == IF Function(id) = kSendJobCommandFunctionName
                     THEN ExtractJobCommand(input[id])
                     ELSE CheckBreakpoint(input[id], n_instr[id])
       IN  IF result /= Success THEN Reply(id, result, EmptyValue)
           ELSE Goto(id, "get_job")
    /\ UNCHANGED <<serverVars, input, ref, n_instr, executed>>

\* EditBreakpoint and SendJobCommand of the job manager.
GetJobToControl(id) ==
    /\ pc[id] = "get_job"
    /\ GetJob(id, "use_job")

\* What the input tells the job: a method of LocalJob and its argument.
Operation(av) ==
    IF av["function"] = kSendJobCommandFunctionName
    THEN <<"Command", av[kJobCommandFieldName].value>>
    ELSE <<IF av[kBreakpointActiveFieldName].value THEN "SetBreakpoint"
           ELSE "RemoveBreakpoint",
           av[kInstructionIndexFieldName].value>>

UseJob(id) ==
    /\ pc[id] = "use_job"
    /\ executed' = [executed EXCEPT ![JobIdx(id) + 1] =
                       Append(@, [id |-> id, op |-> Operation(input[id])])]
    /\ Reply(id, Success, EmptyValue)
    /\ UNCHANGED <<serverVars, input, ref, n_instr>>

-----------------------------------------------------------------------------

ServerInit ==
    /\ phase = "adding"
    /\ m_job_info_ios = <<>>
    /\ m_jobs = <<>>
    /\ pc = [id \in Calls |-> "none"]
    /\ input = [id \in Calls |-> EmptyValue]
    /\ ref = [id \in Calls |-> 0]
    /\ n_instr = [id \in Calls |-> 0]
    /\ reply = [id \in Calls |-> NoReply]
    /\ executed = [i \in DOMAIN Procs |-> <<>>]

Handle(id) ==
    \/ Invoke(id)
    \/ CheckJob(id)
    \/ GetInfo(id)
    \/ UseInfo(id)
    \/ CheckCall(id)
    \/ GetJobToControl(id)
    \/ UseJob(id)

Main == AddJob \/ StartInfoServer \/ StartControlServer

=============================================================================
