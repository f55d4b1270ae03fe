---------------------------- MODULE JobControlProofs ----------------------------
(***************************************************************************)
(* Proofs about JobControl, for any procedures, calls, users and indices.  *)
(***************************************************************************)
EXTENDS JobControl, SequenceTheorems, TLAPS

\* What ExtractJobIndex accepts is the index of a job.
LEMMA ExtractedIndexIsValid ==
    ASSUME NEW in, NEW n \in Nat, ExtractJobIndex(in, n) = Success
    PROVE  in["job_index"].value \in 0..(n - 1)
  BY MaxUInt32Assumption
  DEF ExtractJobIndex, ExtractIndex, ConvertsToUInt32, Success,
      ServerProtocolDecodingError, UnknownJob, NotSupported,
      SPECIFIC_APPLICATION_ERROR_START

\* The handlers get an empty output: they can always write to it.
LEMMA OutputIsEmpty ==
    ASSUME NEW id, NEW value
    PROVE  ReplyWith(id, value) <=> Reply(id, Success, value)
  <1>1. TryAssignIfEmptyOrConvert(OutputOfCall, value) = {value}
    BY DEF TryAssignIfEmptyOrConvert, OutputOfCall, IsEmptyValue, EmptyValue, Scalar
  <1> QED BY <1>1 DEF ReplyWith

\* The results of the checks are results of calls.
LEMMA CheckResults ==
    /\ \A in, n : ExtractJobIndex(in, n) \in Outcomes
    /\ \A in : ExtractJobCommand(in) \in Outcomes
    /\ \A in, n : CheckBreakpoint(in, n) \in Outcomes
  BY DEF ExtractJobIndex, ExtractInstructionIndex, ExtractIndex, Outcomes,
         ExtractJobCommand, CheckBreakpoint

-----------------------------------------------------------------------------
(* The invariant holds initially.                                          *)

\* Nothing was asked and no job was added.
LEMMA ServerInvInit == Init => ServerInv
  BY ProcsAssumption
  DEF Init, ServerInit, ServerInv, TypeOK, ServedWhenComplete, JobReferenceIsValid,
      CheckedIndexIsValid

-----------------------------------------------------------------------------
(* main: jobs are added while no handler runs.                             *)

\* While main adds jobs every call waits for a server.
LEMMA NoHandlerWhileAdding ==
    ASSUME ServerInv, phase = "adding", NEW id \in Calls
    PROVE  pc[id] \in {"none", "info", "control"}
  BY DEF ServerInv, ServedWhenComplete

\* AddJob appends a job.
LEMMA JobsGrow ==
    ASSUME ServerInv, AddJob
    PROVE  m_jobs' \in Seq(Procedures)
  <1>1. Len(m_jobs) \in Nat /\ m_jobs \in Seq(Procedures)
    BY DEF ServerInv, TypeOK
  <1>2. Len(m_jobs) < Len(Procs)
    BY DEF AddJob
  <1>3. Procs[Len(m_jobs) + 1] \in Procedures
    BY <1>1, <1>2, ProcsAssumption, ElementOfSeq
  <1>4. \A job \in Procedures : Append(m_jobs, job) \in Seq(Procedures)
    BY <1>1, AppendProperties
  <1>5. m_jobs' \in {Append(m_jobs, Procs[Len(m_jobs) + 1]), m_jobs}
    BY DEF AddJob
  <1> QED BY <1>1, <1>3, <1>4, <1>5

\* The steps of main keep the invariant.
LEMMA MainStep ==
    ASSUME ServerInv, Main, UNCHANGED clientVars
    PROVE  ServerInv'
  <1> USE DEF ServerInv, TypeOK, ServedWhenComplete, JobReferenceIsValid,
              CheckedIndexIsValid, handlerVars, clientVars
  <1>1. CASE AddJob
    <2>1. m_jobs' \in Seq(Procedures)
      BY <1>1, JobsGrow
    <2>2. \A id \in Calls : pc[id] \in {"none", "info", "control"}
      BY <1>1, NoHandlerWhileAdding DEF AddJob
    <2>3. phase' \in {"adding", "terminated"} /\ UNCHANGED handlerVars
      BY <1>1 DEF AddJob
    <2> QED BY <2>1, <2>2, <2>3
  <1>2. CASE StartInfoServer
    BY <1>2 DEF StartInfoServer, JobExists, JobIdx
  <1>3. CASE StartControlServer
    BY <1>3 DEF StartControlServer, JobExists, JobIdx
  <1> QED BY <1>1, <1>2, <1>3 DEF Main

-----------------------------------------------------------------------------
(* The handlers.                                                           *)

\* The part of the invariant about one call, in the state that a step of its
\* handler leads to.
CallInv(id) ==
    /\ pc[id] \notin {"none", "info", "control"} => phase \in {"info", "serving"}
    /\ pc[id] \in {"use_info", "use_job"} => ref[id] = Len(m_jobs) /\ JobExists(id)
    /\ pc[id] \in {"get_info", "check_call", "get_job"} => JobExists(id)
    /\ pc[id] /= "threw"
    /\ pc[id] = "replied" => reply[id].result \in Outcomes

\* A step of the handler of one call changes no other call, no job and no input.
HandlerOf(id) ==
    /\ pc' \in [Calls -> {"none", "info", "control", "check_job", "get_info",
                          "use_info", "check_call", "get_job", "use_job",
                          "replied", "threw"}]
    /\ ref' \in [Calls -> Nat]
    /\ DOMAIN reply' = Calls
    /\ \A other \in Calls \ {id} :
          /\ pc'[other] = pc[other]
          /\ ref'[other] = ref[other]
          /\ reply'[other] = reply[other]
    /\ UNCHANGED <<serverVars, input>>

\* It keeps the invariant, if it does so for the call.
LEMMA HandlerStep ==
    ASSUME ServerInv, NEW id \in Calls, HandlerOf(id), CallInv(id)',
           UNCHANGED clientVars
    PROVE  ServerInv'
  <1> USE DEF HandlerOf, ServerInv, serverVars, clientVars
  <1>1. TypeOK'
    BY DEF TypeOK, CallInv
  <1>2. ServedWhenComplete'
    BY DEF ServedWhenComplete, CallInv
  <1>3. \A other \in Calls \ {id} : JobExists(other)' = JobExists(other)
    BY DEF JobExists, JobIdx
  <1>4. JobReferenceIsValid'
    BY <1>3 DEF JobReferenceIsValid, CallInv
  <1>5. CheckedIndexIsValid'
    BY <1>3 DEF CheckedIndexIsValid, CallInv
  <1> QED BY <1>1, <1>2, <1>4, <1>5

-----------------------------------------------------------------------------

Running == {"check_job", "get_info", "use_info", "check_call", "get_job", "use_job"}

\* A handler that runs replies with a result ...
LEMMA ReplyStep ==
    ASSUME ServerInv, NEW id \in Calls, pc[id] \in Running,
           NEW result \in Outcomes, NEW output, Reply(id, result, output),
           UNCHANGED <<serverVars, input, ref>>
    PROVE  HandlerOf(id) /\ CallInv(id)'
  BY DEF HandlerOf, CallInv, ServerInv, TypeOK, ServedWhenComplete, Reply, Running,
         serverVars

\* ... or goes on with the job that it checked.
LEMMA GotoStep ==
    ASSUME ServerInv, NEW id \in Calls, pc[id] \in Running,
           NEW next \in {"get_info", "check_call", "get_job"}, JobExists(id),
           Goto(id, next), UNCHANGED <<serverVars, input, ref>>
    PROVE  HandlerOf(id) /\ CallInv(id)'
  BY DEF HandlerOf, CallInv, ServerInv, TypeOK, ServedWhenComplete, Goto, Running,
         JobExists, JobIdx, serverVars

\* GetJob finds the job that was checked: it throws no exception.
LEMMA GetJobStep ==
    ASSUME ServerInv, NEW id \in Calls, pc[id] \in Running, JobExists(id),
           NEW next \in {"use_info", "use_job"}, GetJob(id, next)
    PROVE  HandlerOf(id) /\ CallInv(id)'
  <1>1. Len(m_jobs) \in Nat /\ ~ (JobIdx(id) >= Len(m_jobs))
    BY DEF ServerInv, TypeOK, JobExists
  <1>2. /\ pc' = [pc EXCEPT ![id] = next]
        /\ ref' = [ref EXCEPT ![id] = Len(m_jobs)]
        /\ UNCHANGED <<phase, m_jobs, m_job_info_ios, input, reply>>
    BY <1>1 DEF GetJob, serverVars
  <1>3. JobExists(id)' = JobExists(id)
    BY <1>2 DEF JobExists, JobIdx
  <1>4. HandlerOf(id)
    BY <1>1, <1>2 DEF HandlerOf, ServerInv, TypeOK, serverVars
  <1>5. pc'[id] = next /\ ref'[id] = Len(m_jobs)
    BY <1>2 DEF ServerInv, TypeOK
  <1>6. phase' \in {"info", "serving"}
    BY <1>2 DEF ServerInv, ServedWhenComplete, Running
  <1> QED BY <1>2, <1>3, <1>4, <1>5, <1>6 DEF CallInv

\* The steps of a handler keep the part of the invariant about its call.
LEMMA HandleStep ==
    ASSUME ServerInv, NEW id \in Calls, Handle(id)
    PROVE  HandlerOf(id) /\ CallInv(id)'
  <1>1. CASE Invoke(id)
    <2>0. /\ phase \in {"info", "serving"}
          /\ UNCHANGED <<serverVars, input, ref>>
          /\ \/ \E result \in {Success, NotSupported} : \E output : Reply(id, result, output)
             \/ Goto(id, "check_job")
      BY <1>1, OutputIsEmpty
      DEF Invoke, InvokeInfo, InvokeControl, ServiceInfo, ServiceControl
    <2>1. /\ pc'[id] \in {"check_job", "replied"}
          /\ pc'[id] = "replied" => reply'[id].result \in {Success, NotSupported}
      BY <2>0 DEF ServerInv, TypeOK, Reply, Goto
    <2>2. HandlerOf(id)
      BY <2>0 DEF ServerInv, TypeOK, HandlerOf, Reply, Goto, serverVars
    <2> QED BY <2>0, <2>1, <2>2 DEF Outcomes, CallInv, HandlerOf, serverVars
  <1>2. CASE CheckJob(id)
    <2> DEFINE result == ExtractJobIndex(input[id], GetNumberOfJobs)
    <2>1. pc[id] \in Running /\ UNCHANGED <<serverVars, input, ref>>
      BY <1>2 DEF CheckJob, Running
    <2>2. CASE result = Success
      <3>1. JobExists(id)
        BY <2>2, ExtractedIndexIsValid
        DEF ServerInv, TypeOK, JobExists, JobIdx, GetNumberOfJobs
      <3>2. PICK next \in {"get_info", "check_call"} : Goto(id, next)
        BY <1>2, <2>2 DEF CheckJob
      <3> QED BY <2>1, <3>1, <3>2, GotoStep
    <2>3. CASE result /= Success
      <3>1. Reply(id, result, EmptyValue) /\ result \in Outcomes
        BY <1>2, <2>3, CheckResults DEF CheckJob
      <3> QED BY <2>1, <3>1, ReplyStep
    <2> QED BY <2>2, <2>3
  <1>3. CASE GetInfo(id)
    BY <1>3, GetJobStep DEF GetInfo, Running, ServerInv, CheckedIndexIsValid
  <1>4. CASE UseInfo(id)
    <2>1. /\ pc[id] \in Running /\ JobExists(id)
          /\ UNCHANGED <<serverVars, input, ref>>
      BY <1>4 DEF UseInfo, ServerInv, JobReferenceIsValid, Running
    <2>2. \/ \E output : Reply(id, Success, output)
          \/ Goto(id, "check_call")
      BY <1>4, OutputIsEmpty DEF UseInfo
    <2>3. CASE \E output : Reply(id, Success, output)
      BY <2>1, <2>3, ReplyStep DEF Outcomes
    <2> QED BY <2>1, <2>2, <2>3, GotoStep
  <1>5. CASE CheckCall(id)
    <2> DEFINE result == IF Function(id) = kSendJobCommandFunctionName
                         THEN ExtractJobCommand(input[id])
                         ELSE CheckBreakpoint(input[id], n_instr[id])
    <2>1. /\ pc[id] \in Running /\ JobExists(id)
          /\ UNCHANGED <<serverVars, input, ref>>
      BY <1>5 DEF CheckCall, ServerInv, CheckedIndexIsValid, Running
    <2>2. result \in Outcomes
      BY CheckResults
    <2>3. Reply(id, result, EmptyValue) \/ Goto(id, "get_job")
      BY <1>5 DEF CheckCall
    <2> HIDE DEF result
    <2> QED BY <2>1, <2>2, <2>3, ReplyStep, GotoStep
  <1>6. CASE GetJobToControl(id)
    BY <1>6, GetJobStep
    DEF GetJobToControl, Running, ServerInv, CheckedIndexIsValid
  <1>7. CASE UseJob(id)
    BY <1>7, ReplyStep DEF UseJob, Running, Outcomes
  <1> QED
    BY <1>1, <1>2, <1>3, <1>4, <1>5, <1>6, <1>7 DEF Handle

-----------------------------------------------------------------------------
(* The clients.                                                            *)

Stages == {"none", "n_jobs", "prefix", "info", "created", "failed"}

\* The end of a call touches only its outcome.
LEMMA EndStep ==
    ASSUME ServerInv, NEW c \in Clients,
           NEW how \in {"returned", "failed"} \cup OutcomeTexts, End(c, how),
           stage' \in [Clients -> Stages]
    PROVE  ServerInv'
  <1> USE DEF ServerInv, End, serverVars, handlerVars
  <1>1. TypeOK'
    BY DEF TypeOK, Stages
  <1>2. ServedWhenComplete'
    BY DEF ServedWhenComplete
  <1>3. \A id : JobExists(id)' = JobExists(id)
    BY DEF JobExists, JobIdx
  <1> QED BY <1>1, <1>2, <1>3 DEF JobReferenceIsValid, CheckedIndexIsValid

\* A call returns, throws the result of its reply, or fails.
LEMMA EndOfCallStep ==
    ASSUME ServerInv, NEW c \in Clients, Returned(c) \/ Threw(c),
           stage' \in [Clients -> Stages]
    PROVE  ServerInv'
  <1>1. CASE Returned(c)
    BY <1>1, EndStep DEF Returned
  <1>2. CASE Threw(c)
    <2>1. CASE End(c, "failed")
      BY <2>1, EndStep
    <2>2. CASE /\ pc[current[c]] = "replied"
               /\ End(c, AutomationServerResultToString(reply[current[c]].result))
      <3>1. CASE current[c] \in Calls
        <4>1. reply[current[c]].result \in Outcomes
          BY <2>2, <3>1 DEF ServerInv, TypeOK
        <4>2. AutomationServerResultToString(reply[current[c]].result) \in OutcomeTexts
          BY <4>1 DEF OutcomeTexts
        <4> QED BY <2>2, <4>2, EndStep
      <3>2. CASE current[c] \notin Calls
        <4>1. End(c, "failed")
          BY <2>2, <3>2 DEF End, ServerInv, TypeOK
        <4> QED BY <4>1, EndStep
      <3> QED BY <3>1, <3>2
    <2> QED BY <1>2, <2>1, <2>2 DEF Threw
  <1> QED BY <1>1, <1>2

\* A new call waits for its server.
LEMMA CallStep ==
    ASSUME ServerInv, NEW c \in Clients, NEW call, Call(c, call), UNCHANGED stage
    PROVE  ServerInv'
  <1> USE DEF ServerInv, Call, serverVars
  <1>0. Service(call) \in {"info", "control"}
    BY DEF Service
  <1>1. /\ pc' \in [Calls -> {"none", "info", "control", "check_job", "get_info",
                              "use_info", "check_call", "get_job", "use_job",
                              "replied", "threw"}]
        /\ \A id \in Calls : \/ pc'[id] = pc[id] /\ input'[id] = input[id]
                             \/ pc'[id] \in {"info", "control"}
    BY <1>0 DEF TypeOK
  <1>2. TypeOK'
    BY <1>1 DEF TypeOK
  <1>3. ServedWhenComplete'
    BY <1>1 DEF ServedWhenComplete
  <1>4. \A id \in Calls :
           JobExists(id)' = JobExists(id) \/ pc'[id] \in {"info", "control"}
    BY <1>1 DEF JobExists, JobIdx
  <1> QED BY <1>1, <1>2, <1>3, <1>4 DEF JobReferenceIsValid, CheckedIndexIsValid

\* The steps of the clients keep the invariant.
LEMMA ClientStep ==
    ASSUME ServerInv, NEW c \in Clients, Client(c)
    PROVE  ServerInv'
  <1>1. stage \in [Clients -> Stages]
    BY DEF ServerInv, TypeOK, Stages
  <1>2. ASSUME NEW job_idx \in JobIndices, CreateClientJob(c, job_idx)
        PROVE  ServerInv'
    <2>1. stage' \in [Clients -> Stages] /\ UNCHANGED <<serverVars, handlerVars, outcome>>
      BY <1>1, <1>2 DEF CreateClientJob, Stages
    <2> QED
      BY <2>1 DEF ServerInv, TypeOK, ServedWhenComplete, JobReferenceIsValid,
                  CheckedIndexIsValid, JobExists, JobIdx, serverVars, handlerVars,
                  Stages
  <1>3. CASE AskJobManager(c)
    BY <1>3, CallStep DEF AskJobManager
  <1>4. CASE UseAnswer(c)
    <2>1. stage' \in [Clients -> Stages]
      BY <1>1, <1>4 DEF UseAnswer, Stages
    <2> QED BY <1>4, <2>1, EndOfCallStep DEF UseAnswer
  <1>5. CASE FailToCreate(c)
    <2>1. stage' \in [Clients -> Stages]
      BY <1>1, <1>5 DEF FailToCreate, Stages
    <2> QED BY <1>5, <2>1, EndOfCallStep DEF FailToCreate
  <1>6. CASE UseClientJob(c)
    BY <1>6, CallStep DEF UseClientJob
  <1>7. CASE UseJobManager(c)
    BY <1>7, CallStep DEF UseJobManager
  <1>8. CASE AskForProtocol(c)
    BY <1>8, CallStep DEF AskForProtocol
  <1>9. CASE EndCall(c)
    BY <1>1, <1>9, EndOfCallStep DEF EndCall
  <1> QED
    BY <1>2, <1>3, <1>4, <1>5, <1>6, <1>7, <1>8, <1>9 DEF Client

-----------------------------------------------------------------------------

\* Every step keeps the invariant of the server.
LEMMA ServerInvStep == ServerInv /\ [Next]_vars => ServerInv'
  <1> SUFFICES ASSUME ServerInv, [Next]_vars PROVE ServerInv'
    OBVIOUS
  <1>1. CASE UNCHANGED vars
    BY <1>1 DEF ServerInv, TypeOK, ServedWhenComplete, JobReferenceIsValid,
                CheckedIndexIsValid, JobExists, JobIdx, vars, serverVars,
                handlerVars, clientVars
  <1>2. CASE Main /\ UNCHANGED clientVars
    BY <1>2, MainStep
  <1>3. ASSUME NEW id \in Calls, Handle(id), UNCHANGED clientVars
        PROVE  ServerInv'
    BY <1>3, HandleStep, HandlerStep
  <1>4. ASSUME NEW c \in Clients, Client(c)
        PROVE  ServerInv'
    BY <1>4, ClientStep
  <1> QED BY <1>1, <1>2, <1>3, <1>4 DEF Next, Server

-----------------------------------------------------------------------------
(* What clients know: the initial state and main.                          *)

\* Nobody knows anything, and there is no job.
LEMMA MirrorInit == Init => MirrorInv
  <1> SUFFICES ASSUME Init PROVE MirrorInv
    OBVIOUS
  <1>1. Len(Procs) \in Nat
    BY ProcsAssumption
  <1>2. JobsAreProcs
    BY <1>1 DEF Init, ServerInit, JobsAreProcs
  <1> QED
    BY <1>2 DEF Init, ServerInit, MirrorInv, ClientTypeOK, ReplyIsRight,
                WaitsForOwnCall, KnownSoFar

\* Appending the value of the next index to a list of values by index.
LEMMA AppendNext ==
    ASSUME NEW f, NEW n \in Nat, NEW s, s = [i \in 1..n |-> f[i]]
    PROVE  /\ Append(s, f[n + 1]) = [i \in 1..(n + 1) |-> f[i]]
           /\ Len(Append(s, f[n + 1])) = n + 1
           /\ Len(s) = n
  <1> DEFINE T == {f[i] : i \in 1..(n + 1)}
  <1>1. s \in Seq(T) /\ Len(s) = n
    OBVIOUS
  <1>2. f[n + 1] \in T
    OBVIOUS
  <1> HIDE DEF T
  <1>3. /\ Append(s, f[n + 1]) \in Seq(T)
        /\ Len(Append(s, f[n + 1])) = n + 1
        /\ \A i \in 1..n : Append(s, f[n + 1])[i] = s[i]
        /\ Append(s, f[n + 1])[n + 1] = f[n + 1]
    BY <1>1, <1>2, AppendProperties
  <1>4. /\ DOMAIN Append(s, f[n + 1]) = 1..(n + 1)
        /\ Append(s, f[n + 1]) =
              [i \in DOMAIN Append(s, f[n + 1]) |-> Append(s, f[n + 1])[i]]
    BY <1>3
  <1> QED BY <1>1, <1>3, <1>4

\* AddJob keeps the jobs and their values in the order of main.
LEMMA AddJobMirror ==
    ASSUME ServerInv, JobsAreProcs, AddJob
    PROVE  JobsAreProcs'
  <1> DEFINE n == Len(m_jobs)
             info_io == [i \in Nat |-> NewJobInfoIO(i - 1, Procs[i])]
  <1>1. /\ n \in Nat /\ n < Len(Procs) /\ Len(Procs) \in Nat
        /\ phase = "adding" /\ Len(m_job_info_ios) = n
        /\ m_jobs \in Seq(Procedures)
        /\ Procs[n + 1] \in Procedures
    BY ProcsAssumption, ElementOfSeq DEF AddJob, ServerInv, TypeOK, JobsAreProcs
  <1>2. m_job_info_ios = [i \in 1..n |-> info_io[i]]
    BY <1>1 DEF JobsAreProcs
  <1>3. m_job_info_ios' = Append(m_job_info_ios, info_io[n + 1])
    BY <1>1 DEF AddJob
  <1>4. /\ m_job_info_ios' = [i \in 1..(n + 1) |-> info_io[i]]
        /\ Len(m_job_info_ios') = n + 1
    <2> HIDE DEF info_io
    <2> QED BY <1>1, <1>2, <1>3, AppendNext
  <1>5. m_job_info_ios' =
           [i \in 1..Len(m_job_info_ios') |-> NewJobInfoIO(i - 1, Procs[i])]
    BY <1>1, <1>4
  <1>6. /\ \A i \in 1..Len(m_jobs') : m_jobs'[i] = Procs[i]
        /\ \/ Len(m_jobs') = n + 1 /\ phase' = "adding"
           \/ Len(m_jobs') = n /\ phase' = "terminated"
    <2>1. CASE m_jobs' = Append(m_jobs, Procs[n + 1]) /\ UNCHANGED phase
      BY <1>1, <2>1, AppendProperties DEF JobsAreProcs
    <2>2. CASE phase' = "terminated" /\ UNCHANGED m_jobs
      BY <1>1, <2>2 DEF JobsAreProcs
    <2> QED BY <2>1, <2>2 DEF AddJob
  <1> QED
    BY <1>1, <1>4, <1>5, <1>6 DEF JobsAreProcs

\* The steps of main keep what clients know right.
LEMMA MainMirror ==
    ASSUME ServerInv, MirrorInv, Main, UNCHANGED clientVars
    PROVE  MirrorInv'
  <1>1. JobsAreProcs'
    <2>1. CASE AddJob
      BY <2>1, AddJobMirror DEF MirrorInv
    <2>2. CASE StartInfoServer \/ StartControlServer
      BY <2>2 DEF StartInfoServer, StartControlServer, MirrorInv, JobsAreProcs
    <2> QED BY <2>1, <2>2 DEF Main
  <1>2. UNCHANGED <<handlerVars, clientVars>>
    BY DEF Main, AddJob, StartInfoServer, StartControlServer
  <1>3. \A id \in Calls : ReplyIsRight(id)'
    BY <1>2 DEF MirrorInv, ReplyIsRight, Function, JobIdx, handlerVars
  <1>4. phase \in {"info", "serving"} => phase' \in {"info", "serving"}
    BY DEF Main, AddJob, StartInfoServer, StartControlServer
  <1>5. \A c \in Clients : KnownSoFar(c)'
    BY <1>2, <1>4 DEF MirrorInv, KnownSoFar, clientVars
  <1>6. \A c \in Clients : WaitsForOwnCall(c)'
    BY <1>2 DEF MirrorInv, WaitsForOwnCall, CreationCall, clientVars, handlerVars
  <1>7. ClientTypeOK'
    BY <1>2 DEF MirrorInv, ClientTypeOK, clientVars
  <1> QED BY <1>1, <1>3, <1>5, <1>6, <1>7 DEF MirrorInv

-----------------------------------------------------------------------------
(* What clients know: the handlers.                                        *)

\* The function names differ.
LEMMA FunctionNames ==
    /\ kGetServerPrefixFunctionName /= kGetNumberOfJobsFunctionName
    /\ kGetServerPrefixFunctionName /= kGetJobInfoFunctionName
    /\ kGetNumberOfJobsFunctionName /= kGetJobInfoFunctionName
    /\ ControlFunctions \cap InfoFunctions = {}
    /\ kSendJobCommandFunctionName \notin InfoFunctions
    /\ kApplicationProtocolRequest \notin InfoFunctions \cup ControlFunctions
  BY DEF kApplicationProtocolRequest, kGetServerPrefixFunctionName, kGetNumberOfJobsFunctionName,
         kGetJobInfoFunctionName, kEditBreakpointCommandFunctionName,
         kSendJobCommandFunctionName, ControlFunctions, InfoFunctions

\* What a step of its handler leaves alone.
HandlerFrame(id) ==
    /\ \A other \in Calls \ {id} :
          pc'[other] = pc[other] /\ reply'[other] = reply[other]
    /\ UNCHANGED <<serverVars, input, clientVars>>

\* Such a step keeps what clients know right, if the reply is right.
LEMMA HandlerFrameMirror ==
    ASSUME ServerInv, MirrorInv, NEW id \in Calls, HandlerFrame(id),
           ReplyIsRight(id)'
    PROVE  MirrorInv'
  <1> USE DEF HandlerFrame, serverVars, clientVars, MirrorInv
  <1>1. JobsAreProcs'
    BY DEF JobsAreProcs
  <1>2. \A other \in Calls : ReplyIsRight(other)'
    BY DEF ReplyIsRight, Function, JobIdx
  <1>3. \A c \in Clients : WaitsForOwnCall(c)' /\ KnownSoFar(c)'
    BY DEF WaitsForOwnCall, CreationCall, KnownSoFar
  <1>4. ClientTypeOK'
    BY DEF ClientTypeOK
  <1> QED BY <1>1, <1>2, <1>3, <1>4

\* While a handler runs all jobs are there, those of main.
LEMMA HandlerSeesAllJobs ==
    ASSUME ServerInv, MirrorInv, phase \in {"info", "serving"}
    PROVE  /\ GetNumberOfJobs = Len(Procs)
           /\ \A id \in Calls : JobExists(id) => Job(id) = Procs[JobIdx(id) + 1]
  <1>1. Len(m_jobs) = Len(Procs) /\ Len(m_jobs) \in Nat
    BY DEF ServerInv, TypeOK, ServedWhenComplete
  <1>2. ASSUME NEW n \in 0..(Len(m_jobs) - 1)
        PROVE  m_jobs[n + 1] = Procs[n + 1]
    BY <1>1 DEF MirrorInv, JobsAreProcs
  <1> QED BY <1>1, <1>2 DEF JobExists, Job, GetNumberOfJobs

\* The reply of the first step of a handler is right.
LEMMA InvokeMirror ==
    ASSUME ServerInv, MirrorInv, NEW id \in Calls, Invoke(id)
    PROVE  ReplyIsRight(id)'
  <1> DEFINE name == Function(id)
             Prefix == Reply(id, Success, [server_prefix |-> String(m_server_prefix)])
             Number == Reply(id, Success, [number_of_jobs |-> UInt64(GetNumberOfJobs)])
             Protocol == \E output : Reply(id, Success, output)
  <1>0. /\ name' = name /\ JobIdx(id)' = JobIdx(id)
        /\ id \in DOMAIN pc /\ id \in DOMAIN reply
        /\ GetNumberOfJobs = Len(Procs)
    BY HandlerSeesAllJobs DEF Invoke, Function, JobIdx, ServerInv, TypeOK
  <1>1. \/ name = kGetServerPrefixFunctionName /\ Prefix
        \/ name = kGetNumberOfJobsFunctionName /\ Number
        \/ /\ name \in ControlFunctions \cup {kGetJobInfoFunctionName}
           /\ Goto(id, "check_job")
        \/ Reply(id, NotSupported, EmptyValue)
        \/ name = kApplicationProtocolRequest /\ Protocol
    BY OutputIsEmpty
    DEF Invoke, InvokeInfo, InvokeControl, ServiceInfo, ServiceControl,
        IsServiceRequest, IsApplicationProtocolRequestPayload, Function,
        GetServerPrefix
  <1> HIDE DEF name
  <1>2. CASE name = kGetServerPrefixFunctionName /\ Prefix
    BY <1>0, <1>2, FunctionNames
    DEF Reply, ReplyIsRight, String, Scalar, name
  <1>3. CASE name = kGetNumberOfJobsFunctionName /\ Number
    BY <1>0, <1>3, FunctionNames
    DEF Reply, ReplyIsRight, UInt64, Scalar, name
  <1>4. CASE /\ name \in ControlFunctions \cup {kGetJobInfoFunctionName}
             /\ Goto(id, "check_job")
    BY <1>0, <1>4, FunctionNames DEF Goto, ReplyIsRight, name, InfoFunctions
  <1>5. CASE Reply(id, NotSupported, EmptyValue)
    BY <1>0, <1>5 DEF Reply, ReplyIsRight, NotSupported, Success,
                       SPECIFIC_APPLICATION_ERROR_START
  <1>6. CASE name = kApplicationProtocolRequest /\ Protocol
    BY <1>0, <1>6, FunctionNames DEF Reply, ReplyIsRight, name, InfoFunctions
  <1> QED BY <1>1, <1>2, <1>3, <1>4, <1>5, <1>6

\* So are the replies of the other steps.
LEMMA ReplyMirror ==
    ASSUME ServerInv, MirrorInv, NEW id \in Calls, Handle(id), ~ Invoke(id)
    PROVE  ReplyIsRight(id)'
  <1>0. /\ Function(id)' = Function(id) /\ JobIdx(id)' = JobIdx(id)
        /\ id \in DOMAIN pc /\ id \in DOMAIN reply
        /\ ReplyIsRight(id)
    BY DEF Handle, CheckJob, GetInfo, UseInfo, CheckCall, GetJobToControl, UseJob,
           GetJob, Function, JobIdx, ServerInv, TypeOK, MirrorInv
  <1>a. ASSUME NEW result \in Outcomes \ {Success}, Reply(id, result, EmptyValue)
        PROVE  ReplyIsRight(id)'
    BY <1>0, <1>a DEF Reply, ReplyIsRight
  <1>1. CASE CheckJob(id)
    <2> DEFINE result == ExtractJobIndex(input[id], GetNumberOfJobs)
    <2>1. \/ Reply(id, result, EmptyValue) /\ result /= Success
          \/ /\ Function(id) = kSendJobCommandFunctionName
             /\ Goto(id, "check_call")
          \/ Goto(id, "get_info")
      BY <1>1 DEF CheckJob
    <2>2. result \in Outcomes
      BY CheckResults
    <2> HIDE DEF result
    <2>3. CASE Goto(id, "get_info")
      BY <1>0, <1>1, <2>3 DEF Goto, ReplyIsRight, CheckJob
    <2>4. CASE /\ Function(id) = kSendJobCommandFunctionName
               /\ Goto(id, "check_call")
      BY <1>0, <2>4 DEF Goto, ReplyIsRight, ControlFunctions
    <2> QED BY <1>a, <2>1, <2>2, <2>3, <2>4
  <1>2. CASE GetInfo(id)
    <2>1. pc'[id] \in {"use_info", "threw"}
      BY <1>0, <1>2 DEF GetInfo, GetJob
    <2> QED BY <1>0, <1>2, <2>1 DEF GetInfo, ReplyIsRight
  <1>3. CASE UseInfo(id)
    <2>1. phase \in {"info", "serving"} /\ JobExists(id)
      BY <1>3 DEF UseInfo, ServerInv, ServedWhenComplete, JobReferenceIsValid
    <2>2. Job(id) = Procs[JobIdx(id) + 1]
      BY <2>1, HandlerSeesAllJobs
    <2> DEFINE output == [job_info |-> JobInfoAnyValue(JobInfo(Procs[JobIdx(id) + 1]))]
    <2>3. \/ /\ Function(id) = kGetJobInfoFunctionName
             /\ Reply(id, Success, output)
          \/ /\ Function(id) /= kGetJobInfoFunctionName
             /\ Goto(id, "check_call")
      BY <1>3, <2>2, OutputIsEmpty DEF UseInfo
    <2>4. output.job_info.value = JobInfo(Procs[JobIdx(id) + 1])
      BY DEF JobInfoAnyValue
    <2> HIDE DEF output
    <2>5. CASE /\ Function(id) = kGetJobInfoFunctionName
               /\ Reply(id, Success, output)
      BY <1>0, <2>4, <2>5, FunctionNames DEF Reply, ReplyIsRight
    <2>6. CASE /\ Function(id) /= kGetJobInfoFunctionName
               /\ Goto(id, "check_call")
      BY <1>0, <1>3, <2>6 DEF Goto, ReplyIsRight, UseInfo
    <2> QED BY <2>3, <2>5, <2>6
  <1>4. CASE CheckCall(id)
    <2> DEFINE result == IF Function(id) = kSendJobCommandFunctionName
                         THEN ExtractJobCommand(input[id])
                         ELSE CheckBreakpoint(input[id], n_instr[id])
    <2>1. \/ Reply(id, result, EmptyValue) /\ result /= Success
          \/ Goto(id, "get_job")
      BY <1>4 DEF CheckCall
    <2>2. result \in Outcomes
      BY CheckResults
    <2> HIDE DEF result
    <2>3. CASE Goto(id, "get_job")
      BY <1>0, <1>4, <2>3 DEF Goto, ReplyIsRight, CheckCall
    <2> QED BY <1>a, <2>1, <2>2, <2>3
  <1>5. CASE GetJobToControl(id)
    <2>1. pc'[id] \in {"use_job", "threw"}
      BY <1>0, <1>5 DEF GetJobToControl, GetJob
    <2> QED BY <1>0, <1>5, <2>1 DEF GetJobToControl, ReplyIsRight
  <1>6. CASE UseJob(id)
    <2>1. Function(id) \in ControlFunctions
      BY <1>0, <1>6 DEF UseJob, ReplyIsRight
    <2>2. Function(id) \notin InfoFunctions
      BY <2>1, FunctionNames
    <2> QED BY <1>0, <1>6, <2>2 DEF UseJob, Reply, ReplyIsRight, InfoFunctions
  <1> QED
    BY <1>1, <1>2, <1>3, <1>4, <1>5, <1>6 DEF Handle

\* The steps of the handlers keep what clients know right.
LEMMA HandleMirror ==
    ASSUME ServerInv, MirrorInv, NEW id \in Calls, Handle(id),
           UNCHANGED clientVars
    PROVE  MirrorInv'
  <1>1. HandlerFrame(id)
    BY HandleStep DEF HandlerFrame, HandlerOf
  <1>2. ReplyIsRight(id)'
    BY InvokeMirror, ReplyMirror
  <1> QED BY <1>1, <1>2, HandlerFrameMirror

-----------------------------------------------------------------------------
(* What clients know: the clients.                                         *)

\* The calls of the constructor of a ClientJob and their inputs.
LEMMA CreationInputs ==
    /\ \A c : stage[c] = "n_jobs" =>
          Input(CreationCall(c))["function"] = kGetNumberOfJobsFunctionName
    /\ \A c : stage[c] = "prefix" =>
          Input(CreationCall(c))["function"] = kGetServerPrefixFunctionName
    /\ \A c : stage[c] = "info" =>
          /\ Input(CreationCall(c))["function"] = kGetJobInfoFunctionName
          /\ Input(CreationCall(c))["job_index"].value = m_job_idx[c]
  <1>1. /\ \A c : stage[c] = "n_jobs" => CreationCall(c) = GetNumberOfJobsCall
        /\ \A c : stage[c] = "prefix" => CreationCall(c) = GetServerPrefixCall
        /\ \A c : stage[c] = "info" => CreationCall(c) = GetJobInfo(m_job_idx[c])
    BY DEF CreationCall
  <1>2. /\ Input(GetNumberOfJobsCall)["function"] = kGetNumberOfJobsFunctionName
        /\ Input(GetServerPrefixCall)["function"] = kGetServerPrefixFunctionName
    BY DEF Input, GetNumberOfJobsCall, GetServerPrefixCall
  <1>3. ASSUME NEW i
        PROVE  /\ Input(GetJobInfo(i))["function"] = kGetJobInfoFunctionName
               /\ Input(GetJobInfo(i))["job_index"].value = i
    <2>1. GetJobInfo(i).function = kGetJobInfoFunctionName /\ GetJobInfo(i).job_idx = i
      BY DEF GetJobInfo
    <2>2. Input(GetJobInfo(i)) =
             [function |-> kGetJobInfoFunctionName, job_index |-> UInt64(i)]
      BY <2>1, FunctionNames
      DEF Input, kGetServerPrefixFunctionName, kGetNumberOfJobsFunctionName,
          kGetJobInfoFunctionName, kEditBreakpointCommandFunctionName,
          kSendJobCommandFunctionName
    <2> QED BY <2>2 DEF UInt64, Scalar
  <1> QED BY <1>1, <1>2, <1>3

\* A call that is made is new.
LEMMA CallIsNew ==
    ASSUME NEW c \in Clients, NEW call, Call(c, call)
    PROVE  NextCall \in Calls /\ asked[NextCall] = NoCall
  BY DEF Call, NextCall

\* A new call does not disturb the others.
LEMMA CallMirror ==
    ASSUME ServerInv, MirrorInv, NEW c \in Clients, NEW call \in AllCalls,
           Call(c, call), UNCHANGED <<stage, m_job_idx, job_prefix, m_job_info>>,
           stage[c] \in {"n_jobs", "prefix", "info"} => call = CreationCall(c)
    PROVE  MirrorInv'
  <1> DEFINE new == NextCall
  <1>1. /\ new \in Calls /\ asked[new] = NoCall
        /\ call /= NoCall
    BY CallIsNew, NoCallAssumption
  <1>2. /\ asked' = [asked EXCEPT ![new] = call]
        /\ current' = [current EXCEPT ![c] = new]
        /\ input' = [input EXCEPT ![new] = Input(call)]
        /\ pc' = [pc EXCEPT ![new] = Service(call)]
        /\ UNCHANGED <<serverVars, reply>>
    BY DEF Call
  <1> HIDE DEF new
  <1>3. JobsAreProcs' /\ ClientTypeOK'
    BY <1>2 DEF MirrorInv, JobsAreProcs, ClientTypeOK, serverVars
  <1>4. ASSUME NEW id \in Calls
        PROVE  ReplyIsRight(id)'
    <2>1. CASE id = new
      <3>1. pc'[id] \in {"info", "control"}
        BY <1>1, <1>2, <2>1 DEF ServerInv, TypeOK, Service
      <3> QED BY <3>1 DEF ReplyIsRight
    <2>2. CASE id /= new
      BY <1>2, <2>2 DEF MirrorInv, ReplyIsRight, Function, JobIdx
    <2> QED BY <2>1, <2>2
  <1>5. ASSUME NEW d \in Clients
        PROVE  WaitsForOwnCall(d)'
    <2>0. CreationCall(d)' = CreationCall(d)
      BY DEF CreationCall
    <2>1. CASE d = c
      BY <1>1, <1>2, <2>0, <2>1
      DEF WaitsForOwnCall, MirrorInv, ClientTypeOK, ServerInv, TypeOK
    <2>2. CASE d /= c
      <3>1. current'[d] = current[d] /\ WaitsForOwnCall(d)
        BY <1>2, <2>2 DEF MirrorInv, ClientTypeOK
      <3>2. current[d] /= NoCall => current[d] /= new
        BY <1>1, <3>1 DEF WaitsForOwnCall
      <3> QED BY <1>2, <2>0, <3>1, <3>2 DEF WaitsForOwnCall, MirrorInv, ClientTypeOK,
                                           ServerInv, TypeOK
    <2> QED BY <2>1, <2>2
  <1>6. \A d \in Clients : KnownSoFar(d)'
    BY <1>2 DEF MirrorInv, KnownSoFar, serverVars
  <1> QED BY <1>3, <1>4, <1>5, <1>6 DEF MirrorInv

\* The end of a call leaves the calls and their replies alone.
LEMMA EndMirror ==
    ASSUME ServerInv, MirrorInv, NEW c \in Clients, NEW how, End(c, how),
           UNCHANGED m_job_idx,
           \A d \in Clients \ {c} : stage'[d] = stage[d],
           \A d \in Clients : KnownSoFar(d)',
           ClientTypeOK'
    PROVE  MirrorInv'
  <1>1. /\ current' = [current EXCEPT ![c] = NoCall]
        /\ UNCHANGED <<serverVars, handlerVars, asked>>
    BY DEF End
  <1>2. JobsAreProcs'
    BY <1>1 DEF MirrorInv, JobsAreProcs, serverVars
  <1>3. \A id \in Calls : ReplyIsRight(id)'
    BY <1>1 DEF MirrorInv, ReplyIsRight, Function, JobIdx, handlerVars
  <1>4. ASSUME NEW d \in Clients
        PROVE  WaitsForOwnCall(d)'
    <2>1. CASE d = c
      BY <1>1, <2>1 DEF WaitsForOwnCall, MirrorInv, ClientTypeOK
    <2>2. CASE d /= c
      <3>1. CreationCall(d)' = CreationCall(d)
        BY <2>2 DEF CreationCall
      <3> QED BY <1>1, <2>2, <3>1 DEF WaitsForOwnCall, MirrorInv, ClientTypeOK,
                                      handlerVars
    <2> QED BY <2>1, <2>2
  <1> QED BY <1>2, <1>3, <1>4 DEF MirrorInv

\* The constructor of a ClientJob learns what is right.
LEMMA AnswerMirror ==
    ASSUME ServerInv, MirrorInv, NEW c \in Clients, UseAnswer(c)
    PROVE  MirrorInv'
  <1> DEFINE id == current[c]
  <1>1. /\ id /= NoCall /\ pc[id] = "replied" /\ reply[id].result = Success
        /\ End(c, "returned") /\ UNCHANGED m_job_idx
        /\ stage[c] \in {"n_jobs", "prefix", "info"}
        /\ UNCHANGED serverVars
    BY DEF UseAnswer, Returned, End
  <1>2. /\ id \in Calls /\ input[id] = Input(CreationCall(c))
        /\ ReplyIsRight(id) /\ KnownSoFar(c)
    BY <1>1 DEF MirrorInv, WaitsForOwnCall
  <1>3. phase \in {"info", "serving"} /\ Len(Procs) \in Nat
    BY <1>1, <1>2, ProcsAssumption DEF ServerInv, ServedWhenComplete
  <1>4. c \in DOMAIN stage /\ c \in DOMAIN job_prefix /\ c \in DOMAIN m_job_info
    BY DEF ServerInv, TypeOK, MirrorInv, ClientTypeOK
  <1> HIDE DEF id
  <1>5. /\ KnownSoFar(c)' /\ ClientTypeOK'
        /\ \A d \in Clients \ {c} :
              /\ stage'[d] = stage[d]
              /\ job_prefix'[d] = job_prefix[d]
              /\ m_job_info'[d] = m_job_info[d]
    <2>0. Output(c) = reply[id].output
      BY DEF Output, id
    <2>1. CASE stage[c] = "n_jobs"
      <3>1. Output(c).number_of_jobs.value = Len(Procs)
        BY <1>1, <1>2, <2>0, <2>1, CreationInputs DEF ReplyIsRight, Function
      <3>2. /\ stage' = [stage EXCEPT ![c] = IF m_job_idx[c] >= Len(Procs)
                                            THEN "failed" ELSE "prefix"]
            /\ UNCHANGED <<job_prefix, m_job_info, m_job_idx>>
        BY <2>1, <3>1 DEF UseAnswer
      <3>3. /\ stage'[c] \in {"failed", "prefix"}
            /\ stage'[c] = "prefix" => m_job_idx[c] < Len(Procs)
        BY <1>2, <1>3, <1>4, <2>1, <3>2, ArgumentsAssumption, MaxUInt32Assumption DEF KnownSoFar
      <3>4. KnownSoFar(c)'
        BY <1>1, <1>2, <1>3, <3>2, <3>3 DEF KnownSoFar, serverVars
      <3>5. ClientTypeOK'
        BY <1>1, <3>2 DEF MirrorInv, ClientTypeOK, End
      <3> QED BY <3>2, <3>4, <3>5 DEF ServerInv, TypeOK
    <2>2. CASE stage[c] = "prefix"
      <3>1. Output(c).server_prefix.value = m_server_prefix
        BY <1>1, <1>2, <2>0, <2>2, CreationInputs DEF ReplyIsRight, Function
      <3>2. /\ stage' = [stage EXCEPT ![c] = "info"]
            /\ job_prefix' = [job_prefix EXCEPT ![c] =
                                 CreateJobPrefix(m_server_prefix, m_job_idx[c])]
            /\ UNCHANGED <<m_job_info, m_job_idx>>
        BY <2>2, <3>1 DEF UseAnswer
      <3>3. /\ stage'[c] = "info"
            /\ job_prefix'[c] = CreateJobPrefix(m_server_prefix, m_job_idx[c])
        BY <1>4, <3>2
      <3>4. KnownSoFar(c)'
        BY <1>1, <1>2, <1>3, <2>2, <3>2, <3>3
        DEF KnownSoFar, serverVars, CreateJobPrefix
      <3>5. ClientTypeOK'
        BY <1>1, <3>2 DEF MirrorInv, ClientTypeOK, End
      <3> QED BY <3>2, <3>4, <3>5 DEF ServerInv, TypeOK, MirrorInv, ClientTypeOK
    <2>3. CASE stage[c] = "info"
      <3>1. Output(c).job_info.value = JobInfo(Procs[m_job_idx[c] + 1])
        BY <1>1, <1>2, <2>0, <2>3, CreationInputs DEF ReplyIsRight, Function, JobIdx
      <3>2. /\ stage' = [stage EXCEPT ![c] = "created"]
            /\ m_job_info' = [m_job_info EXCEPT ![c] =
                                 JobInfo(Procs[m_job_idx[c] + 1])]
            /\ UNCHANGED <<job_prefix, m_job_idx>>
        BY <2>3, <3>1 DEF UseAnswer
      <3>3. /\ stage'[c] = "created"
            /\ m_job_info'[c] = JobInfo(Procs[m_job_idx[c] + 1])
        BY <1>4, <3>2
      <3>4. KnownSoFar(c)'
        BY <1>1, <1>2, <1>3, <2>3, <3>2, <3>3 DEF KnownSoFar, serverVars, JobInfo
      <3>5. ClientTypeOK'
        BY <1>1, <3>2 DEF MirrorInv, ClientTypeOK, End
      <3> QED BY <3>2, <3>4, <3>5 DEF ServerInv, TypeOK, MirrorInv, ClientTypeOK
    <2> QED BY <1>1, <2>1, <2>2, <2>3
  <1>6. \A d \in Clients : KnownSoFar(d)'
    BY <1>1, <1>5 DEF MirrorInv, KnownSoFar, serverVars
  <1> QED BY <1>1, <1>5, <1>6, EndMirror

\* Other ends of calls teach the client nothing.
LEMMA OtherEndMirror ==
    ASSUME ServerInv, MirrorInv, NEW c \in Clients, Returned(c) \/ Threw(c),
           \/ stage' = stage
           \/ stage[c] /= "none" /\ stage' = [stage EXCEPT ![c] = "failed"],
           UNCHANGED <<m_job_idx, job_prefix, m_job_info>>
    PROVE  MirrorInv'
  <1>1. PICK how : End(c, how)
    BY DEF Returned, Threw
  <1>2. UNCHANGED serverVars /\ ClientTypeOK'
    BY <1>1 DEF End, MirrorInv, ClientTypeOK
  <1>3. /\ \A d \in Clients :
              \/ stage'[d] = stage[d]
              \/ stage'[d] = "failed" /\ stage[d] /= "none"
        /\ \A d \in Clients \ {c} : stage'[d] = stage[d]
    <2>1. stage \in [Clients -> Stages]
      BY DEF ServerInv, TypeOK, Stages
    <2>2. CASE stage' = stage
      BY <2>2
    <2>3. CASE stage[c] /= "none" /\ stage' = [stage EXCEPT ![c] = "failed"]
      BY <2>1, <2>3
    <2> QED BY <2>2, <2>3
  <1>4. \A d \in Clients : KnownSoFar(d)'
    BY <1>2, <1>3 DEF MirrorInv, KnownSoFar, serverVars
  <1> QED BY <1>1, <1>2, <1>3, <1>4, EndMirror

\* The steps of the clients keep what they know right.
LEMMA ClientMirror ==
    ASSUME ServerInv, MirrorInv, NEW c \in Clients, Client(c)
    PROVE  MirrorInv'
  <1>1. ASSUME NEW job_idx \in JobIndices, CreateClientJob(c, job_idx)
        PROVE  MirrorInv'
    <2>1. /\ stage' = [stage EXCEPT ![c] = "n_jobs"]
          /\ m_job_idx' = [m_job_idx EXCEPT ![c] = job_idx]
          /\ UNCHANGED <<serverVars, handlerVars, asked, current, job_prefix,
                         m_job_info>>
          /\ current[c] = NoCall
      BY <1>1 DEF CreateClientJob
    <2>2. /\ stage'[c] = "n_jobs" /\ m_job_idx'[c] \in JobIndices
          /\ \A d \in Clients \ {c} :
                stage'[d] = stage[d] /\ m_job_idx'[d] = m_job_idx[d]
      BY <2>1 DEF ServerInv, TypeOK, MirrorInv, ClientTypeOK
    <2>3. JobsAreProcs' /\ ClientTypeOK'
      BY <2>1 DEF MirrorInv, JobsAreProcs, ClientTypeOK, serverVars
    <2>4. \A id \in Calls : ReplyIsRight(id)'
      BY <2>1 DEF MirrorInv, ReplyIsRight, Function, JobIdx, handlerVars
    <2>5. \A d \in Clients : KnownSoFar(d)'
      BY <2>1, <2>2 DEF MirrorInv, KnownSoFar, serverVars
    <2>6. ASSUME NEW d \in Clients
          PROVE  WaitsForOwnCall(d)'
      <3>1. CASE d = c
        BY <2>1, <3>1 DEF WaitsForOwnCall
      <3>2. CASE d /= c
        <4>1. CreationCall(d)' = CreationCall(d)
          BY <2>2, <3>2 DEF CreationCall
        <4> QED BY <2>1, <2>2, <3>2, <4>1 DEF MirrorInv, WaitsForOwnCall, handlerVars
      <3> QED BY <3>1, <3>2
    <2> QED BY <2>3, <2>4, <2>5, <2>6 DEF MirrorInv
  <1>2. CASE AskJobManager(c)
    <2>1. m_job_idx[c] \in JobIndices /\ stage[c] \in {"n_jobs", "prefix", "info"}
      BY <1>2 DEF MirrorInv, KnownSoFar, AskJobManager
    <2>2. CreationCall(c) \in AllCalls
      <3>1. CreationCall(c) \in {GetNumberOfJobsCall, GetServerPrefixCall,
                                 GetJobInfo(m_job_idx[c])}
        BY <2>1 DEF CreationCall
      <3>2. GetJobInfo(m_job_idx[c]) \in ManagerCalls
        <4>1. GetJobInfo(m_job_idx[c]) \in CallsOnJob(m_job_idx[c])
          BY Zenon DEF CallsOnJob
        <4> QED BY <2>1, <4>1 DEF ManagerCalls
      <3> QED BY <3>1, <3>2 DEF AllCalls
    <2> QED BY <1>2, <2>2, CallMirror DEF AskJobManager
  <1>3. CASE UseAnswer(c)
    BY <1>3, AnswerMirror
  <1>4. CASE FailToCreate(c)
    BY <1>4, OtherEndMirror DEF FailToCreate
  <1>5. CASE UseClientJob(c)
    <2>1. PICK call \in MethodCalls(m_job_idx[c]) : Call(c, call)
      BY <1>5 DEF UseClientJob, GetJobIndex
    <2>2. stage[c] = "created" /\ m_job_idx[c] \in JobIndices
      BY <1>5 DEF UseClientJob, MirrorInv, KnownSoFar
    <2>3. call \in AllCalls
      BY <2>1, <2>2 DEF AllCalls
    <2> QED BY <1>5, <2>1, <2>2, <2>3, CallMirror DEF UseClientJob
  <1>6. CASE UseJobManager(c)
    <2>1. PICK call \in ManagerCalls : Call(c, call)
      BY <1>6 DEF UseJobManager
    <2>2. stage[c] = "none" /\ call \in AllCalls
      BY <1>6, <2>1 DEF UseJobManager, Direct, AllCalls
    <2> QED BY <1>6, <2>1, <2>2, CallMirror DEF UseJobManager
  <1>7. CASE AskForProtocol(c)
    <2>1. PICK call \in ProtocolCalls : Call(c, call)
      BY <1>7 DEF AskForProtocol
    <2>2. stage[c] = "none" /\ call \in AllCalls
      BY <1>7, <2>1 DEF AskForProtocol, Direct, AllCalls
    <2> QED BY <1>7, <2>1, <2>2, CallMirror DEF AskForProtocol
  <1>8. CASE EndCall(c)
    BY <1>8, OtherEndMirror DEF EndCall
  <1> QED
    BY <1>1, <1>2, <1>3, <1>4, <1>5, <1>6, <1>7, <1>8 DEF Client

-----------------------------------------------------------------------------

\* The invariant of AutomationServer and its clients under concurrent calls: no
\* handler uses a reference that dangles and none meets the exception of GetJob,
\* however many jobs, clients and calls there are.
THEOREM ServerAndClients == Spec => [](ServerInv /\ MirrorInv)
  <1>1. Init => ServerInv /\ MirrorInv
    BY ServerInvInit, MirrorInit
  <1>2. ServerInv /\ MirrorInv /\ [Next]_vars => ServerInv' /\ MirrorInv'
    <2> SUFFICES ASSUME ServerInv, MirrorInv, [Next]_vars
                 PROVE  ServerInv' /\ MirrorInv'
      OBVIOUS
    <2>1. CASE UNCHANGED vars
      <3>1. MirrorInv'
        BY <2>1 DEF MirrorInv, JobsAreProcs, ReplyIsRight, Function, JobIdx,
                    WaitsForOwnCall, CreationCall, KnownSoFar, ClientTypeOK, vars,
                    serverVars, handlerVars, clientVars
      <3> QED BY <3>1, ServerInvStep
    <2>2. CASE Main /\ UNCHANGED clientVars
      BY <2>2, MainMirror, ServerInvStep
    <2>3. ASSUME NEW id \in Calls, Handle(id), UNCHANGED clientVars
          PROVE  ServerInv' /\ MirrorInv'
      BY <2>3, HandleMirror, ServerInvStep
    <2>4. ASSUME NEW c \in Clients, Client(c)
          PROVE  ServerInv' /\ MirrorInv'
      BY <2>4, ClientMirror, ServerInvStep
    <2> QED BY <2>1, <2>2, <2>3, <2>4 DEF Next, Server
  <1> QED BY <1>1, <1>2, PTL DEF Spec

\* The three calls of the constructor of a client job, and whatever happens to
\* others meanwhile, give it the prefix and the numbers that the server registered
\* the values of that job with.
THEOREM MirrorsMatchJobs == Spec => []MirrorMatchesJob
  <1>1. ServerInv /\ MirrorInv => MirrorMatchesJob
    <2> SUFFICES ASSUME ServerInv, MirrorInv, NEW c \in Clients,
                        stage[c] = "created"
                 PROVE  LET i == m_job_idx[c] + 1
                        IN  /\ i \in DOMAIN m_jobs
                            /\ job_prefix[c] = m_job_info_ios[i].job_prefix
                            /\ m_job_info[c].n_vars = m_job_info_ios[i].n_vars
                            /\ m_job_info[c] = JobInfo(m_jobs[i])
      BY DEF MirrorMatchesJob, GetJobIndex, ClientJobInfo
    <2> DEFINE i == m_job_idx[c] + 1
    <2>1. /\ m_job_idx[c] \in Nat /\ m_job_idx[c] < Len(Procs)
          /\ phase \in {"info", "serving"}
          /\ job_prefix[c] = CreateJobPrefix(m_server_prefix, m_job_idx[c])
          /\ m_job_info[c] = JobInfo(Procs[i])
      BY ArgumentsAssumption, MaxUInt32Assumption DEF MirrorInv, KnownSoFar
    <2>2. Len(m_jobs) = Len(Procs) /\ Len(Procs) \in Nat /\ DOMAIN m_jobs = 1..Len(m_jobs)
      BY <2>1, ProcsAssumption DEF ServerInv, TypeOK, ServedWhenComplete
    <2>3. i \in 1..Len(m_jobs) /\ i - 1 = m_job_idx[c]
      BY <2>1, <2>2
    <2>4. m_jobs[i] = Procs[i]
      BY <2>3 DEF MirrorInv, JobsAreProcs
    <2>5. m_job_info_ios[i] = NewJobInfoIO(m_job_idx[c], Procs[i])
      <3>1. Len(m_job_info_ios) = Len(Procs)
        BY <2>2 DEF MirrorInv, JobsAreProcs
      <3> QED BY <2>2, <2>3, <3>1 DEF MirrorInv, JobsAreProcs
    <2>6. /\ m_job_info_ios[i].job_prefix =
                CreateJobPrefix(m_server_prefix, m_job_idx[c])
          /\ m_job_info_ios[i].n_vars = Procs[i].n_vars
      BY <2>5 DEF NewJobInfoIO
    <2>7. m_job_info[c].n_vars = Procs[i].n_vars
      BY <2>1 DEF JobInfo
    <2>8. i \in DOMAIN m_jobs
      BY <2>2, <2>3
    <2>9. job_prefix[c] = m_job_info_ios[i].job_prefix
      BY <2>1, <2>6
    <2>10. m_job_info[c].n_vars = m_job_info_ios[i].n_vars
      BY <2>6, <2>7
    <2>11. m_job_info[c] = JobInfo(m_jobs[i])
      BY <2>1, <2>4
    <2> QED BY <2>8, <2>9, <2>10, <2>11
  <1> QED BY <1>1, ServerAndClients, PTL

-----------------------------------------------------------------------------
(* JobControl implements JobControlContract: calls, their inputs and faults. *)

\* The constants that tell the functions and the types apart.
LEMMA NamesDiffer ==
    /\ kGetServerPrefixFunctionName = "GetServerPrefix"
    /\ kGetNumberOfJobsFunctionName = "GetNumberOfJobs"
    /\ kGetJobInfoFunctionName = "GetJobInfo"
    /\ kEditBreakpointCommandFunctionName = "EditBreakpoint"
    /\ kSendJobCommandFunctionName = "SendJobCommand"
    /\ kApplicationProtocolRequest = "ApplicationProtocolRequest"
    /\ InfoFunctions = {"GetServerPrefix", "GetNumberOfJobs", "GetJobInfo"}
    /\ ControlFunctions = {"EditBreakpoint", "SendJobCommand"}
  BY DEF kGetServerPrefixFunctionName, kGetNumberOfJobsFunctionName,
         kGetJobInfoFunctionName, kEditBreakpointCommandFunctionName,
         kSendJobCommandFunctionName, kApplicationProtocolRequest,
         InfoFunctions, ControlFunctions

\* The calls without arguments.
PlainCall(call) ==
    \/ call = GetServerPrefixCall
    \/ call = GetNumberOfJobsCall
    \/ \E name : call = GetApplicationProtocolInfo(name)

\* Everything that can be called.
LEMMA CallShapes ==
    ASSUME NEW call \in AllCalls
    PROVE  \/ PlainCall(call)
           \/ \E j \in JobIndices : call = GetJobInfo(j)
           \/ \E j \in JobIndices, i \in InstrIndices, active \in BOOLEAN :
                 call = EditBreakpoint(j, i, active)
           \/ \E j \in JobIndices, k \in Commands : call = SendJobCommand(j, k)
  <1>1. CASE call \in {GetServerPrefixCall, GetNumberOfJobsCall} \cup ProtocolCalls
    BY <1>1 DEF ProtocolCalls, PlainCall
  <1>2. CASE call \in ManagerCalls
    <2>1. PICK j \in JobIndices : call \in CallsOnJob(j)
      BY <1>2 DEF ManagerCalls
    <2>2. \/ \E k \in Commands : call = SendJobCommand(j, k)
          \/ \E i \in InstrIndices : call = EditBreakpoint(j, i, TRUE)
          \/ call = GetJobInfo(j)
      BY <2>1, Zenon DEF CallsOnJob
    <2> QED BY <2>2, Zenon
  <1>3. ASSUME NEW j \in JobIndices, call \in MethodCalls(j)
        PROVE  \/ \E i \in InstrIndices, active \in BOOLEAN :
                     call = EditBreakpoint(j, i, active)
               \/ \E k \in Commands : call = SendJobCommand(j, k)
    <2>1. \/ \E i \in InstrIndices : call = SetBreakpoint(j, i)
          \/ \E i \in InstrIndices : call = RemoveBreakpoint(j, i)
          \/ /\ call \in {Start(j), Step(j), Pause(j), Reset(j), Halt(j)}
             /\ call.command \in Commands
      BY <1>3, Zenon DEF MethodCalls
    <2>2. CASE /\ call \in {Start(j), Step(j), Pause(j), Reset(j), Halt(j)}
               /\ call.command \in Commands
      <3>1. PICK k : call = SendJobCommand(j, k)
        BY <2>2, Zenon DEF Start, Step, Pause, Reset, Halt
      <3>2. call.command = k
        BY <3>1 DEF SendJobCommand
      <3> QED BY <2>2, <3>1, <3>2
    <2> QED BY <2>1, <2>2, Zenon DEF SetBreakpoint, RemoveBreakpoint
  <1> QED BY <1>1, <1>2, <1>3, Zenon DEF AllCalls

\* The input of a call without arguments.
LEMMA PlainInput ==
    ASSUME NEW call, PlainCall(call)
    PROVE  /\ Input(call) = [function |-> call.function]
           /\ call.function \notin ControlFunctions \cup {kGetJobInfoFunctionName}
           /\ Contract!Faults(call) = {} /\ ~ Contract!Controls(call)
  <1>1. /\ call.function \in {"GetServerPrefix", "GetNumberOfJobs",
                              "ApplicationProtocolRequest"}
        /\ "job_idx" \notin DOMAIN call
    BY NamesDiffer
    DEF PlainCall, GetServerPrefixCall, GetNumberOfJobsCall,
        GetApplicationProtocolInfo
  <1>2. Input(call) = [function |-> call.function]
    BY <1>1, NamesDiffer DEF Input
  <1> QED
    BY <1>1, <1>2, NamesDiffer DEF Contract!Faults, Contract!Controls

\* The list of the numbers of instructions, as the contract has it.
LEMMA InstructionNumbers ==
    LET numbers == [i \in DOMAIN Procs |-> Procs[i].n_instr]
    IN  /\ Len(numbers) = Len(Procs) /\ Len(Procs) \in Nat
        /\ \A j \in 0..(Len(Procs) - 1) :
              numbers[j + 1] = Procs[j + 1].n_instr /\ Procs[j + 1].n_instr \in Nat
  <1> DEFINE numbers == [i \in DOMAIN Procs |-> Procs[i].n_instr]
  <1>1. /\ Len(Procs) \in Nat /\ DOMAIN Procs = 1..Len(Procs)
        /\ \A i \in DOMAIN Procs : Procs[i] \in Procedures
    BY ProcsAssumption
  <1>2. \A i \in DOMAIN Procs : Procs[i].n_instr \in Nat
    BY <1>1 DEF Procedures
  <1>3. numbers \in Seq(Nat) /\ DOMAIN numbers = 1..Len(Procs)
    BY <1>1, <1>2
  <1>4. Len(numbers) = Len(Procs)
    BY <1>1, <1>3
  <1>5. ASSUME NEW j \in 0..(Len(Procs) - 1)
        PROVE  numbers[j + 1] = Procs[j + 1].n_instr /\ Procs[j + 1].n_instr \in Nat
    <2>1. j + 1 \in DOMAIN Procs
      BY <1>1
    <2> QED BY <1>2, <2>1
  <1> QED BY <1>1, <1>4, <1>5

\* That of GetJobInfo.
LEMMA GetJobInfoInput ==
    ASSUME NEW j \in JobIndices, NEW call, call = GetJobInfo(j)
    PROVE  /\ Input(call) =
                 [function |-> kGetJobInfoFunctionName, job_index |-> UInt64(j)]
           /\ call.function = kGetJobInfoFunctionName
           /\ ~ Contract!Controls(call)
           /\ Contract!Faults(call) = IF j >= Len(Procs) THEN {"UnknownJob"} ELSE {}
  <1>1. /\ call.function = "GetJobInfo" /\ call.job_idx = j
        /\ "job_idx" \in DOMAIN call
    BY NamesDiffer DEF GetJobInfo
  <1>2. Input(call) =
           [function |-> kGetJobInfoFunctionName, job_index |-> UInt64(j)]
    BY <1>1, NamesDiffer DEF Input
  <1>3. Contract!Faults(call) = IF j >= Len(Procs) THEN {"UnknownJob"} ELSE {}
    BY <1>1, InstructionNumbers DEF Contract!Faults
  <1> QED
    BY <1>1, <1>2, <1>3, NamesDiffer DEF Contract!Controls

\* That of EditBreakpoint.
LEMMA EditBreakpointInput ==
    ASSUME NEW j \in JobIndices, NEW i \in InstrIndices, NEW active \in BOOLEAN,
           NEW call, call = EditBreakpoint(j, i, active)
    PROVE  /\ Input(call) =
                 [function |-> kEditBreakpointCommandFunctionName,
                  job_index |-> UInt64(j), instruction_index |-> UInt64(i),
                  breakpoint_active |-> Bool(active)]
           /\ call.function = kEditBreakpointCommandFunctionName
           /\ call.job_idx = j
           /\ Contract!Controls(call)
           /\ Contract!OperationOf(call) =
                 <<IF active THEN "SetBreakpoint" ELSE "RemoveBreakpoint", i>>
           /\ Contract!Faults(call) =
                 IF j >= Len(Procs) THEN {"UnknownJob"}
                 ELSE IF i >= Procs[j + 1].n_instr THEN {"UnknownInstruction"}
                 ELSE {}
  <1>1. /\ call.function = "EditBreakpoint" /\ call.job_idx = j
        /\ call.instr_idx = i /\ call.breakpoint_active = active
        /\ "job_idx" \in DOMAIN call
    BY NamesDiffer DEF EditBreakpoint
  <1>2. Input(call) =
           [function |-> kEditBreakpointCommandFunctionName,
            job_index |-> UInt64(j), instruction_index |-> UInt64(i),
            breakpoint_active |-> Bool(active)]
    BY <1>1, NamesDiffer DEF Input
  <1>3. Contract!Faults(call) =
           IF j >= Len(Procs) THEN {"UnknownJob"}
           ELSE IF i >= Procs[j + 1].n_instr THEN {"UnknownInstruction"}
           ELSE {}
    <2>1. j \in Nat
      BY ArgumentsAssumption, MaxUInt32Assumption
    <2>2. CASE j >= Len(Procs)
      BY <1>1, <2>2, InstructionNumbers DEF Contract!Faults
    <2>3. CASE ~ (j >= Len(Procs))
      <3>1. j \in 0..(Len(Procs) - 1)
        BY <2>1, <2>3, InstructionNumbers
      <3> QED BY <1>1, <2>3, <3>1, InstructionNumbers DEF Contract!Faults
    <2> QED BY <2>2, <2>3
  <1>4. Contract!OperationOf(call) =
           <<IF active THEN "SetBreakpoint" ELSE "RemoveBreakpoint", i>>
    BY <1>1 DEF Contract!OperationOf
  <1> QED
    BY <1>1, <1>2, <1>3, <1>4, NamesDiffer DEF Contract!Controls

\* That of SendJobCommand.
LEMMA SendJobCommandInput ==
    ASSUME NEW j \in JobIndices, NEW k \in Commands,
           NEW call, call = SendJobCommand(j, k)
    PROVE  /\ Input(call) =
                 [function |-> kSendJobCommandFunctionName,
                  job_index |-> UInt64(j), command |-> UInt32(k)]
           /\ call.function = kSendJobCommandFunctionName
           /\ call.job_idx = j
           /\ Contract!Controls(call)
           /\ Contract!OperationOf(call) = <<"Command", k>>
           /\ Contract!Faults(call) =
                 IF j >= Len(Procs) THEN {"UnknownJob"}
                 ELSE IF k >= kTerminate THEN {"UnknownJobCommand"}
                 ELSE {}
  <1>1. /\ call.function = "SendJobCommand" /\ call.job_idx = j
        /\ call.command = k
        /\ "job_idx" \in DOMAIN call
    BY NamesDiffer DEF SendJobCommand
  <1>2. Input(call) =
           [function |-> kSendJobCommandFunctionName,
            job_index |-> UInt64(j), command |-> UInt32(k)]
    BY <1>1, NamesDiffer DEF Input
  <1>3. Contract!Faults(call) =
           IF j >= Len(Procs) THEN {"UnknownJob"}
           ELSE IF k >= kTerminate THEN {"UnknownJobCommand"}
           ELSE {}
    BY <1>1, InstructionNumbers DEF Contract!Faults
  <1> QED
    BY <1>1, <1>2, <1>3, NamesDiffer DEF Contract!Controls, Contract!OperationOf

\* The texts of the results that name a fault.
LEMMA ResultTexts ==
    /\ AutomationServerResultToString(UnknownJob) = "UnknownJob"
    /\ AutomationServerResultToString(UnknownInstruction) = "UnknownInstruction"
    /\ AutomationServerResultToString(UnknownJobCommand) = "UnknownJobCommand"
    /\ Success = 0 /\ ServerProtocolDecodingError = 1
    /\ NotSupported = 4 /\ UnknownJob = 5 /\ UnknownInstruction = 6
    /\ UnknownJobCommand = 7
  <1>1. /\ Success = 0 /\ ServerProtocolDecodingError = 1
        /\ NotSupported = 4 /\ UnknownJob = 5 /\ UnknownInstruction = 6
        /\ UnknownJobCommand = 7 /\ ClientReplyRefused = 8
        /\ GENERIC_APPLICATION_ERROR_START = 3
    BY DEF Success, ServerProtocolDecodingError, NotSupported, UnknownJob,
           UnknownInstruction, UnknownJobCommand, ClientReplyRefused,
           GENERIC_APPLICATION_ERROR_START, SPECIFIC_APPLICATION_ERROR_START
  <1>2. /\ DOMAIN result_map = 4..8
        /\ result_map[5] = "UnknownJob"
        /\ result_map[6] = "UnknownInstruction"
        /\ result_map[7] = "UnknownJobCommand"
    BY <1>1 DEF result_map
  <1> QED BY <1>1, <1>2 DEF AutomationServerResultToString

\* What the two checks of a handler find are the faults of the call.
LEMMA JobCheck ==
    ASSUME NEW call \in AllCalls,
           call.function \in ControlFunctions \cup {kGetJobInfoFunctionName},
           NEW in, in = Input(call)
    PROVE  LET j == in["job_index"].value
               result == ExtractJobIndex(in, Len(Procs))
           IN  /\ j \in Nat
               /\ in["function"] = call.function
               /\ Contract!Controls(call) => call.job_idx = j
               /\ \/ result = Success
                  \/ result = UnknownJob /\ "UnknownJob" \in Contract!Faults(call)
               /\ call.function = kGetJobInfoFunctionName /\ j < Len(Procs) =>
                     Contract!Faults(call) = {} /\ ~ Contract!Controls(call)
  <1> DEFINE j == in["job_index"].value
             result == ExtractJobIndex(in, Len(Procs))
  <1>0. Len(Procs) \in Nat
    BY InstructionNumbers
  <1>1. PICK idx \in JobIndices :
           \/ call = GetJobInfo(idx)
           \/ \E i \in InstrIndices, active \in BOOLEAN :
                 call = EditBreakpoint(idx, i, active)
           \/ \E k \in Commands : call = SendJobCommand(idx, k)
    BY CallShapes, PlainInput
  <1> DEFINE Facts ==
               /\ in["function"] = call.function
               /\ in["job_index"] = UInt64(idx) /\ HasField(in, "job_index")
               /\ Contract!Controls(call) => call.job_idx = idx
               /\ idx >= Len(Procs) => "UnknownJob" \in Contract!Faults(call)
               /\ call.function = kGetJobInfoFunctionName /\ ~ (idx >= Len(Procs)) =>
                     Contract!Faults(call) = {} /\ ~ Contract!Controls(call)
  <1>2. Facts
    <2>1. CASE call = GetJobInfo(idx)
      BY <2>1, GetJobInfoInput DEF HasField
    <2>2. ASSUME NEW i \in InstrIndices, NEW active \in BOOLEAN,
                 call = EditBreakpoint(idx, i, active)
          PROVE  Facts
      BY <2>2, EditBreakpointInput, NamesDiffer DEF HasField
    <2>3. ASSUME NEW k \in Commands, call = SendJobCommand(idx, k)
          PROVE  Facts
      BY <2>3, SendJobCommandInput, NamesDiffer DEF HasField
    <2> QED BY <1>1, <2>1, <2>2, <2>3
  <1>3. j = idx /\ j \in 0..MaxUInt32 /\ j \in Nat /\ ConvertsToUInt32(in["job_index"])
    BY <1>2, ArgumentsAssumption, MaxUInt32Assumption
    DEF UInt64, Scalar, ConvertsToUInt32
  <1>4. result = IF idx >= Len(Procs) THEN UnknownJob ELSE Success
    BY <1>2, <1>3 DEF ExtractJobIndex, ExtractIndex
  <1> QED BY <1>0, <1>2, <1>3, <1>4

LEMMA CallCheck ==
    ASSUME NEW call \in AllCalls, call.function \in ControlFunctions,
           NEW in, in = Input(call),
           in["job_index"].value \in 0..(Len(Procs) - 1)
    PROVE  LET n == Procs[in["job_index"].value + 1].n_instr
               result == IF in["function"] = kSendJobCommandFunctionName
                         THEN ExtractJobCommand(in) ELSE CheckBreakpoint(in, n)
           IN  /\ IF result = Success THEN Contract!Faults(call) = {}
                  ELSE AutomationServerResultToString(result)
                          \in Contract!Faults(call)
               /\ Operation(in) = Contract!OperationOf(call)
               /\ Operation(in) \in JobMethods \X Nat
  <1> DEFINE j == in["job_index"].value
             n == Procs[j + 1].n_instr
             result == IF in["function"] = kSendJobCommandFunctionName
                       THEN ExtractJobCommand(in) ELSE CheckBreakpoint(in, n)
             Facts == /\ IF result = Success THEN Contract!Faults(call) = {}
                         ELSE AutomationServerResultToString(result)
                                 \in Contract!Faults(call)
                      /\ Operation(in) = Contract!OperationOf(call)
                      /\ Operation(in) \in JobMethods \X Nat
  <1>0. /\ Len(Procs) \in Nat /\ ~ (j >= Len(Procs))
        /\ n \in Nat /\ kTerminate \in Nat
    <2>1. Len(Procs) \in Nat
      BY InstructionNumbers
    <2>2. n \in Nat
      <3>1. j + 1 \in 1..Len(Procs) /\ Procs \in Seq(Procedures)
        BY <2>1, ProcsAssumption
      <3>2. Procs[j + 1] \in Procedures
        BY <3>1, ElementOfSeq
      <3> QED BY <3>2 DEF Procedures
    <2> QED BY <2>1, <2>2 DEF kTerminate
  <1>1. \/ \E idx \in JobIndices, i \in InstrIndices, active \in BOOLEAN :
              call = EditBreakpoint(idx, i, active)
        \/ \E idx \in JobIndices, k \in Commands : call = SendJobCommand(idx, k)
    BY CallShapes, PlainInput, GetJobInfoInput, NamesDiffer
  <1>2. ASSUME NEW idx \in JobIndices, NEW i \in InstrIndices,
               NEW active \in BOOLEAN, call = EditBreakpoint(idx, i, active)
        PROVE  Facts
    <2>1. /\ in = [function |-> kEditBreakpointCommandFunctionName,
                   job_index |-> UInt64(idx), instruction_index |-> UInt64(i),
                   breakpoint_active |-> Bool(active)]
          /\ Contract!OperationOf(call) =
                 <<IF active THEN "SetBreakpoint" ELSE "RemoveBreakpoint", i>>
          /\ Contract!Faults(call) =
                 IF idx >= Len(Procs) THEN {"UnknownJob"}
                 ELSE IF i >= Procs[idx + 1].n_instr THEN {"UnknownInstruction"}
                 ELSE {}
      BY <1>2, EditBreakpointInput
    <2>2. /\ in["function"] /= kSendJobCommandFunctionName /\ j = idx
          /\ HasField(in, "instruction_index") /\ in["instruction_index"] = UInt64(i)
          /\ HasField(in, "breakpoint_active") /\ in["breakpoint_active"] = Bool(active)
      BY <2>1, NamesDiffer DEF HasField, UInt64, Scalar
    <2>3. i \in 0..MaxUInt32 /\ i \in Nat
      BY ArgumentsAssumption, MaxUInt32Assumption
    <2> HIDE DEF n, j
    <2>4. ExtractInstructionIndex(in, n) =
             IF i >= n THEN UnknownInstruction ELSE Success
      BY <2>2, <2>3
      DEF ExtractInstructionIndex, ExtractIndex, ConvertsToUInt32, UInt64, Scalar
    <2>5. ValidateMemberType(in, kBreakpointActiveFieldName, "bool")
      BY <2>2 DEF ValidateMemberType, kBreakpointActiveFieldName, Bool, Scalar
    <2>6. result = IF i >= n THEN UnknownInstruction ELSE Success
      BY <2>2, <2>4, <2>5 DEF CheckBreakpoint
    <2>7. Contract!Faults(call) =
             IF i >= n THEN {"UnknownInstruction"} ELSE {}
      BY <1>0, <2>1, <2>2 DEF n
    <2>8. Operation(in) = <<IF active THEN "SetBreakpoint" ELSE "RemoveBreakpoint", i>>
      BY <2>2
      DEF Operation, kBreakpointActiveFieldName, kInstructionIndexFieldName,
          UInt64, Bool, Scalar
    <2>9. <<IF active THEN "SetBreakpoint" ELSE "RemoveBreakpoint", i>>
             \in JobMethods \X Nat
      <3>1. (IF active THEN "SetBreakpoint" ELSE "RemoveBreakpoint") \in JobMethods
        BY DEF JobMethods
      <3> QED BY <2>3, <3>1
    <2>10. IF result = Success THEN Contract!Faults(call) = {}
           ELSE AutomationServerResultToString(result) \in Contract!Faults(call)
      <3> HIDE DEF result
      <3> QED BY <2>6, <2>7, ResultTexts
    <2>11. Operation(in) = Contract!OperationOf(call)
      BY <2>1, <2>8
    <2>12. Operation(in) \in JobMethods \X Nat
      BY <2>8, <2>9
    <2> HIDE DEF result
    <2> QED BY <2>10, <2>11, <2>12
  <1>3. ASSUME NEW idx \in JobIndices, NEW k \in Commands,
               call = SendJobCommand(idx, k)
        PROVE  Facts
    <2>1. /\ in = [function |-> kSendJobCommandFunctionName,
                   job_index |-> UInt64(idx), command |-> UInt32(k)]
          /\ Contract!OperationOf(call) = <<"Command", k>>
          /\ Contract!Faults(call) =
                 IF idx >= Len(Procs) THEN {"UnknownJob"}
                 ELSE IF k >= kTerminate THEN {"UnknownJobCommand"}
                 ELSE {}
      BY <1>3, SendJobCommandInput
    <2>2. /\ in["function"] = kSendJobCommandFunctionName /\ j = idx
          /\ HasField(in, "command") /\ in["command"] = UInt32(k)
      BY <2>1 DEF HasField, UInt64, Scalar
    <2>3. k \in 0..MaxUInt32 /\ k \in Nat
      BY ArgumentsAssumption, MaxUInt32Assumption
    <2> HIDE DEF n, j
    <2>4. result = IF k >= kTerminate THEN UnknownJobCommand ELSE Success
      BY <2>2, <2>3
      DEF ExtractJobCommand, kJobCommandFieldName, ConvertsToUInt32, UInt32, Scalar
    <2>5. Contract!Faults(call) =
             IF k >= kTerminate THEN {"UnknownJobCommand"} ELSE {}
      BY <1>0, <2>1, <2>2
    <2>6. Operation(in) = <<"Command", k>>
      BY <2>2 DEF Operation, kSendJobCommandFunctionName, kJobCommandFieldName,
                  UInt32, Scalar
    <2>7. IF result = Success THEN Contract!Faults(call) = {}
          ELSE AutomationServerResultToString(result) \in Contract!Faults(call)
      <3> HIDE DEF result
      <3> QED BY <2>4, <2>5, ResultTexts
    <2>8. Operation(in) = Contract!OperationOf(call)
      BY <2>1, <2>6
    <2>9. Operation(in) \in JobMethods \X Nat
      BY <2>3, <2>6 DEF JobMethods
    <2> HIDE DEF result
    <2> QED BY <2>7, <2>8, <2>9
  <1> QED BY <1>1, <1>2, <1>3

\* A call goes to the server that has its function.
LEMMA CalledServerHasFunction ==
    ASSUME NEW call \in AllCalls
    PROVE  /\ Service(call) \in {"info", "control"}
           /\ Service(call) = "info" => call.function \notin ControlFunctions
           /\ Service(call) = "control" => call.function \notin InfoFunctions
  <1>1. GetControlServerName(m_server_prefix) /= m_server_prefix
    <2>1. Len(m_server_prefix \o kControlServerId) = Len(m_server_prefix) + 1
      BY ServerPrefixAssumption DEF kControlServerId
    <2>2. Len(m_server_prefix) \in Nat
      BY ServerPrefixAssumption
    <2> QED BY <2>1, <2>2 DEF GetControlServerName
  <1>2. call.function \in InfoFunctions \cup ControlFunctions
                            \cup {kApplicationProtocolRequest}
    BY CallShapes, NamesDiffer
    DEF PlainCall, GetServerPrefixCall, GetNumberOfJobsCall,
        GetApplicationProtocolInfo, GetJobInfo, EditBreakpoint, SendJobCommand
  <1>3. call.function \in InfoFunctions => CalledServer(call) = m_server_prefix
    BY NamesDiffer
    DEF CalledServer, CreateEPICSJobManager, AutomationClientStack
  <1>4. call.function \in ControlFunctions =>
           CalledServer(call) = GetControlServerName(m_server_prefix)
    BY NamesDiffer
    DEF CalledServer, CreateEPICSJobManager, AutomationClientStack
  <1> QED
    BY <1>1, <1>2, <1>3, <1>4 DEF Service, ServiceName

\* A handler gets the function that was asked for; a call without arguments is
\* any of the others.
LEMMA FunctionIsAsked ==
    ASSUME NEW call \in AllCalls
    PROVE  /\ Input(call)["function"] = call.function
           /\ \/ PlainCall(call)
              \/ call.function \in ControlFunctions \cup {kGetJobInfoFunctionName}
           /\ call.function \in ControlFunctions <=> Contract!Controls(call)
           /\ call.function \in InfoFunctions \cup ControlFunctions
                                  \cup {kApplicationProtocolRequest}
  <1>1. \/ PlainCall(call)
        \/ call.function \in ControlFunctions \cup {kGetJobInfoFunctionName}
    BY CallShapes, NamesDiffer, GetJobInfoInput, EditBreakpointInput,
       SendJobCommandInput
  <1>2. Input(call)["function"] = call.function
    BY <1>1, PlainInput, JobCheck
  <1>3. call.function \in InfoFunctions \cup ControlFunctions
                            \cup {kApplicationProtocolRequest}
    BY <1>1, NamesDiffer
    DEF PlainCall, GetServerPrefixCall, GetNumberOfJobsCall,
        GetApplicationProtocolInfo
  <1> QED BY <1>1, <1>2, <1>3, NamesDiffer DEF Contract!Controls

-----------------------------------------------------------------------------
(* The handlers.                                                           *)

\* The part of the invariant about one call.
CallOk(id) ==
    /\ InputIsAsked(id)
    /\ IsAtItsServer(id)
    /\ FaultsAreFound(id)
    /\ ReplyIsDue(id)
    /\ EndIsTold(id)

\* A call whose handler has not replied.
LEMMA OpenCall ==
    ASSUME ContractInv, NEW id \in Calls, pc[id] \notin {"none", "replied"}
    PROVE  /\ asked[id] \in AllCalls
           /\ input[id] = Input(asked[id])
           /\ Function(id) = asked[id].function
           /\ ~ Contract!Executed(id)
           /\ outcome[id] \in {"waiting", "failed"}
  <1>1. asked[id] \in AllCalls /\ input[id] = Input(asked[id])
    BY DEF ContractInv, InputIsAsked
  <1>2. Function(id) = asked[id].function
    BY <1>1, FunctionIsAsked DEF Function
  <1>3. ~ Contract!Executed(id)
    BY DEF ContractInv, ReplyIsDue
  <1>4. outcome[id] \in {"waiting", "failed"}
    BY <1>1, NoCallAssumption DEF ContractInv, EndIsTold
  <1> QED BY <1>1, <1>2, <1>3, <1>4

\* A step of a handler does not disturb the other calls.
LEMMA HandlerFrameContract ==
    ASSUME ContractInv, NEW id \in Calls, HandlerFrame(id),
           DOMAIN n_instr' = Calls,
           \A other \in Calls \ {id} : n_instr'[other] = n_instr[other],
           executed' \in [DOMAIN Procs -> Seq([id : Calls, op : JobMethods \X Nat])],
           \A other \in Calls \ {id} :
              Contract!Executed(other)' = Contract!Executed(other),
           CallOk(id)'
    PROVE  ContractInv'
  <1>0. UNCHANGED <<input, asked, outcome, current>>
    BY DEF HandlerFrame, clientVars
  <1>1. ASSUME NEW other \in Calls \ {id}
        PROVE  CallOk(other)'
    <2>0. /\ pc'[other] = pc[other] /\ reply'[other] = reply[other]
          /\ n_instr'[other] = n_instr[other]
          /\ Contract!Executed(other)' = Contract!Executed(other)
          /\ CallOk(other)
      BY <1>1 DEF HandlerFrame, ContractInv, CallOk
    <2>1. InputIsAsked(other)'
      BY <1>0, <2>0 DEF CallOk, InputIsAsked
    <2>2. IsAtItsServer(other)'
      BY <1>0, <2>0 DEF CallOk, IsAtItsServer
    <2>3. FaultsAreFound(other)'
      BY <1>0, <2>0 DEF CallOk, FaultsAreFound, Function, JobIdx
    <2>4. ReplyIsDue(other)'
      BY <1>0, <2>0 DEF CallOk, ReplyIsDue
    <2>5. EndIsTold(other)'
      BY <1>0, <2>0 DEF CallOk, EndIsTold
    <2> QED BY <2>1, <2>2, <2>3, <2>4, <2>5 DEF CallOk
  <1>2. \A c, d \in Clients :
           current'[c] = current'[d] => c = d \/ current'[c] = NoCall
    BY <1>0 DEF ContractInv
  <1> QED BY <1>1, <1>2 DEF ContractInv, CallOk

\* A handler that goes on keeps the invariant ...
LEMMA GotoContract ==
    ASSUME ContractInv, NEW id \in Calls, HandlerFrame(id),
           pc[id] \notin {"none", "replied"},
           pc'[id] \notin {"none", "info", "control", "replied"},
           DOMAIN n_instr' = Calls,
           \A other \in Calls \ {id} : n_instr'[other] = n_instr[other],
           UNCHANGED executed,
           FaultsAreFound(id)'
    PROVE  ContractInv'
  <1>0. /\ UNCHANGED <<input, asked, outcome, current>>
        /\ \A other : Contract!Executed(other)' = Contract!Executed(other)
    BY DEF HandlerFrame, clientVars, Contract!Executed
  <1>1. /\ asked[id] \in AllCalls /\ input[id] = Input(asked[id])
        /\ ~ Contract!Executed(id) /\ outcome[id] \in {"waiting", "failed"}
    BY OpenCall
  <1>2. InputIsAsked(id)' /\ IsAtItsServer(id)' /\ ReplyIsDue(id)'
    BY <1>0, <1>1 DEF InputIsAsked, IsAtItsServer, ReplyIsDue
  <1>3. EndIsTold(id)'
    BY <1>0, <1>1 DEF ContractInv, EndIsTold
  <1>4. executed' \in [DOMAIN Procs -> Seq([id : Calls, op : JobMethods \X Nat])]
    BY DEF ContractInv
  <1> QED BY <1>0, <1>2, <1>3, <1>4, HandlerFrameContract DEF CallOk

\* ... and so does one that replies without telling a job anything: that the
\* call has no fault, or which.
LEMMA ReplyContract ==
    ASSUME ServerInv, ContractInv, NEW id \in Calls, HandlerFrame(id),
           pc[id] \notin {"none", "replied"},
           NEW result, NEW output, Reply(id, result, output),
           IF result = Success
           THEN Contract!Faults(asked[id]) = {} /\ ~ Contract!Controls(asked[id])
           ELSE AutomationServerResultToString(result) \in Contract!Faults(asked[id]),
           UNCHANGED <<n_instr, executed>>
    PROVE  ContractInv'
  <1>0. /\ UNCHANGED <<input, asked, outcome, current>>
        /\ \A other : Contract!Executed(other)' = Contract!Executed(other)
        /\ pc'[id] = "replied" /\ reply'[id].result = result
    BY DEF HandlerFrame, clientVars, Contract!Executed, Reply, ServerInv, TypeOK
  <1>1. /\ asked[id] \in AllCalls /\ input[id] = Input(asked[id])
        /\ ~ Contract!Executed(id) /\ outcome[id] \in {"waiting", "failed"}
    BY OpenCall
  <1>2. InputIsAsked(id)' /\ IsAtItsServer(id)' /\ FaultsAreFound(id)'
    BY <1>0, <1>1 DEF InputIsAsked, IsAtItsServer, FaultsAreFound
  <1>3. ReplyIsDue(id)'
    BY <1>0, <1>1 DEF ReplyIsDue
  <1>4. EndIsTold(id)'
    BY <1>0, <1>1 DEF ContractInv, EndIsTold
  <1>5. /\ executed' \in [DOMAIN Procs -> Seq([id : Calls, op : JobMethods \X Nat])]
        /\ DOMAIN n_instr' = Calls
    BY DEF ContractInv
  <1> QED BY <1>0, <1>2, <1>3, <1>4, <1>5, HandlerFrameContract DEF CallOk

\* Invoke refuses nothing that the repository's clients call.
LEMMA InvokeContract ==
    ASSUME ServerInv, ContractInv, NEW id \in Calls, HandlerFrame(id), Invoke(id)
    PROVE  ContractInv'
  <1> DEFINE call == asked[id]
             Success0 == \E output : Reply(id, Success, output)
  <1>1. /\ pc[id] \in {"info", "control"}
        /\ UNCHANGED <<n_instr, executed>>
    BY DEF Invoke
  <1>2. /\ call \in AllCalls /\ Function(id) = call.function
        /\ DOMAIN n_instr' = Calls
    BY <1>1, OpenCall DEF ContractInv
  <1>3. /\ pc[id] = "info" => call.function \notin ControlFunctions
        /\ pc[id] = "control" => call.function \notin InfoFunctions
    BY DEF ContractInv, IsAtItsServer
  <1>4. IsServiceRequest(id) <=> call.function = kApplicationProtocolRequest
    BY <1>2 DEF IsServiceRequest, IsApplicationProtocolRequestPayload, Function
  <1>5. call.function \in InfoFunctions \cup ControlFunctions
                               \cup {kApplicationProtocolRequest}
    BY <1>2, FunctionIsAsked
  <1> HIDE DEF call
  <1>6. \/ /\ call.function \notin ControlFunctions \cup {kGetJobInfoFunctionName}
           /\ Success0
        \/ Goto(id, "check_job")
    <2>1. CASE IsServiceRequest(id)
      BY <1>4, <2>1, FunctionNames
      DEF Invoke, ServiceInfo, ServiceControl, IsServiceRequest, InfoFunctions
    <2>2. CASE ~ IsServiceRequest(id) /\ pc[id] = "info"
      <3>1. call.function \in InfoFunctions
        BY <1>3, <1>4, <1>5, <2>2
      <3> QED
        BY <1>2, <2>2, <3>1, NamesDiffer, OutputIsEmpty DEF Invoke, InvokeInfo
    <2>3. CASE ~ IsServiceRequest(id) /\ pc[id] = "control"
      <3>1. call.function \in ControlFunctions
        BY <1>3, <1>4, <1>5, <2>3
      <3> QED BY <1>2, <2>3, <3>1 DEF Invoke, InvokeControl
    <2> QED BY <1>1, <2>1, <2>2, <2>3
  <1>7. ASSUME call.function \notin ControlFunctions \cup {kGetJobInfoFunctionName},
               NEW output, Reply(id, Success, output)
        PROVE  ContractInv'
    <2>1. PlainCall(call)
      BY <1>2, <1>7, FunctionIsAsked
    <2>2. Contract!Faults(call) = {} /\ ~ Contract!Controls(call)
      BY <2>1, PlainInput
    <2> QED BY <1>1, <1>7, <2>2, ReplyContract DEF call
  <1>8. CASE Goto(id, "check_job")
    <2>1. pc'[id] = "check_job"
      BY <1>8 DEF Goto, ServerInv, TypeOK
    <2>2. FaultsAreFound(id)'
      BY <2>1 DEF FaultsAreFound
    <2> QED BY <1>1, <1>2, <2>1, <2>2, GotoContract
  <1> QED BY <1>6, <1>7, <1>8

\* CheckJob refuses a job that does not exist.
LEMMA CheckJobContract ==
    ASSUME ServerInv, MirrorInv, ContractInv, NEW id \in Calls, HandlerFrame(id),
           CheckJob(id)
    PROVE  ContractInv'
  <1> DEFINE call == asked[id]
             result == ExtractJobIndex(input[id], GetNumberOfJobs)
  <1>1. /\ pc[id] = "check_job" /\ UNCHANGED <<n_instr, executed>>
        /\ call \in AllCalls /\ Function(id) = call.function
        /\ input[id] = Input(call) /\ DOMAIN n_instr' = Calls
    BY OpenCall DEF CheckJob, ContractInv
  <1>2. /\ Function(id) \in ControlFunctions \cup {kGetJobInfoFunctionName}
        /\ GetNumberOfJobs = Len(Procs)
    BY <1>1, HandlerSeesAllJobs
    DEF MirrorInv, ReplyIsRight, ServerInv, ServedWhenComplete
  <1>3. \/ result = Success
        \/ result = UnknownJob /\ "UnknownJob" \in Contract!Faults(call)
    BY <1>1, <1>2, JobCheck
  <1>4. CASE result = Success
    <2>1. PICK next \in {"check_call", "get_info"} :
             /\ Goto(id, next)
             /\ next = "check_call" => Function(id) = kSendJobCommandFunctionName
      BY <1>4 DEF CheckJob
    <2>2. pc'[id] = next /\ Function(id)' = Function(id)
      BY <2>1 DEF Goto, ServerInv, TypeOK, CheckJob, Function
    <2>3. FaultsAreFound(id)'
      BY <2>1, <2>2 DEF FaultsAreFound
    <2> QED BY <1>1, <2>2, <2>3, GotoContract
  <1>5. CASE result = UnknownJob /\ "UnknownJob" \in Contract!Faults(call)
    <2>1. Reply(id, UnknownJob, EmptyValue) /\ UnknownJob /= Success
      BY <1>5, ResultTexts DEF CheckJob
    <2> QED BY <1>1, <1>5, <2>1, ResultTexts, ReplyContract
  <1> QED BY <1>3, <1>4, <1>5

\* GetJob, before GetInfo and before the job is told something.
LEMMA GetJobContract ==
    ASSUME ServerInv, ContractInv, NEW id \in Calls, HandlerFrame(id),
           CallInv(id)', GetInfo(id) \/ GetJobToControl(id)
    PROVE  ContractInv'
  <1>1. /\ pc[id] \in {"get_info", "get_job"}
        /\ UNCHANGED <<n_instr, executed>>
        /\ UNCHANGED <<input, asked>> /\ DOMAIN n_instr' = Calls
    BY DEF GetInfo, GetJobToControl, GetJob, HandlerFrame, clientVars, ContractInv
  <1>2. /\ pc'[id] \in {"use_info", "use_job"}
        /\ pc'[id] = "use_job" => pc[id] = "get_job"
    BY DEF GetInfo, GetJobToControl, GetJob, CallInv, ServerInv, TypeOK
  <1>3. FaultsAreFound(id)'
    BY <1>1, <1>2 DEF ContractInv, FaultsAreFound
  <1> QED BY <1>1, <1>2, <1>3, GotoContract

\* The information is the reply, or the number the next check needs.
LEMMA UseInfoContract ==
    ASSUME ServerInv, MirrorInv, ContractInv, NEW id \in Calls, HandlerFrame(id),
           UseInfo(id)
    PROVE  ContractInv'
  <1> DEFINE call == asked[id]
  <1>1. /\ pc[id] = "use_info" /\ UNCHANGED executed
        /\ call \in AllCalls /\ Function(id) = call.function
        /\ input[id] = Input(call)
    BY OpenCall DEF UseInfo
  <1>2. /\ Function(id) \in ControlFunctions \cup {kGetJobInfoFunctionName}
        /\ JobExists(id) /\ Job(id) = Procs[JobIdx(id) + 1]
        /\ Len(m_jobs) = Len(Procs)
    BY <1>1, HandlerSeesAllJobs
    DEF MirrorInv, ReplyIsRight, ServerInv, ServedWhenComplete, JobReferenceIsValid
  <1>3. CASE Function(id) = kGetJobInfoFunctionName
    <2>1. PICK output : Reply(id, Success, output)
      BY <1>3, OutputIsEmpty DEF UseInfo
    <2>2. input[id]["job_index"].value < Len(Procs)
      BY <1>2, InstructionNumbers DEF JobExists, JobIdx
    <2>3. Contract!Faults(call) = {} /\ ~ Contract!Controls(call)
      BY <1>1, <1>3, <2>2, JobCheck
    <2>4. UNCHANGED n_instr
      BY <1>3 DEF UseInfo
    <2> QED BY <1>1, <2>1, <2>3, <2>4, ReplyContract
  <1>4. CASE Function(id) /= kGetJobInfoFunctionName
    <2>1. /\ n_instr' = [n_instr EXCEPT ![id] = JobInfo(Job(id)).n_instr]
          /\ pc'[id] = "check_call"
      BY <1>4 DEF UseInfo, Goto, ServerInv, TypeOK
    <2>2. /\ n_instr'[id] = Procs[JobIdx(id) + 1].n_instr
          /\ DOMAIN n_instr' = Calls
          /\ \A other \in Calls \ {id} : n_instr'[other] = n_instr[other]
      BY <1>2, <2>1 DEF ContractInv, JobInfo
    <2>3. JobIdx(id)' = JobIdx(id)
      BY DEF UseInfo, JobIdx
    <2>4. FaultsAreFound(id)'
      BY <2>1, <2>2, <2>3 DEF FaultsAreFound
    <2> QED BY <1>1, <2>1, <2>2, <2>4, GotoContract
  <1> QED BY <1>3, <1>4

\* CheckCall refuses what is wrong with the rest of the arguments.
LEMMA CheckCallContract ==
    ASSUME ServerInv, MirrorInv, ContractInv, NEW id \in Calls, HandlerFrame(id),
           CheckCall(id)
    PROVE  ContractInv'
  <1> DEFINE call == asked[id]
             result == IF Function(id) = kSendJobCommandFunctionName
                       THEN ExtractJobCommand(input[id])
                       ELSE CheckBreakpoint(input[id], n_instr[id])
  <1>1. /\ pc[id] = "check_call" /\ UNCHANGED <<n_instr, executed>>
        /\ call \in AllCalls /\ Function(id) = call.function
        /\ input[id] = Input(call) /\ DOMAIN n_instr' = Calls
        /\ UNCHANGED <<input, asked>>
    BY OpenCall DEF CheckCall, ContractInv, HandlerFrame, clientVars
  <1>2. /\ Function(id) \in ControlFunctions
        /\ JobIdx(id) \in 0..(Len(Procs) - 1)
    BY <1>1
    DEF MirrorInv, ReplyIsRight, ServerInv, ServedWhenComplete,
        CheckedIndexIsValid, JobExists
  <1>3. Function(id) /= kSendJobCommandFunctionName =>
           n_instr[id] = Procs[JobIdx(id) + 1].n_instr
    BY <1>1 DEF ContractInv, FaultsAreFound
  <1>4. IF result = Success THEN Contract!Faults(call) = {}
        ELSE AutomationServerResultToString(result) \in Contract!Faults(call)
    BY <1>1, <1>2, <1>3, CallCheck DEF Function, JobIdx
  <1>5. \/ result /= Success /\ Reply(id, result, EmptyValue)
        \/ result = Success /\ Goto(id, "get_job")
    BY DEF CheckCall
  <1> HIDE DEF result
  <1>6. CASE result /= Success /\ Reply(id, result, EmptyValue)
    BY <1>1, <1>4, <1>6, ReplyContract
  <1>7. CASE result = Success /\ Goto(id, "get_job")
    <2>1. pc'[id] = "get_job"
      BY <1>7 DEF Goto, ServerInv, TypeOK
    <2>2. FaultsAreFound(id)'
      BY <1>1, <1>4, <1>7, <2>1 DEF FaultsAreFound
    <2> QED BY <1>1, <2>1, <2>2, GotoContract
  <1> QED BY <1>5, <1>6, <1>7

\* What appending to the history of a job says about who was carried out.
LEMMA ExecutedAfterAppend ==
    ASSUME NEW R, R = [id : Calls, op : JobMethods \X Nat],
           executed \in [DOMAIN Procs -> Seq(R)],
           NEW j \in DOMAIN Procs, NEW r \in R,
           executed' = [executed EXCEPT ![j] = Append(@, r)]
    PROVE  /\ executed' \in [DOMAIN Procs -> Seq(R)]
           /\ \A id : Contract!Executed(id)' <=> Contract!Executed(id) \/ id = r.id
  <1>1. /\ executed[j] \in Seq(R)
        /\ executed'[j] = Append(executed[j], r)
        /\ DOMAIN executed = DOMAIN Procs /\ DOMAIN executed' = DOMAIN Procs
        /\ \A i \in DOMAIN Procs \ {j} : executed'[i] = executed[i]
    OBVIOUS
  <1>2. /\ executed'[j] \in Seq(R)
        /\ DOMAIN executed[j] = 1..Len(executed[j]) /\ Len(executed[j]) \in Nat
        /\ DOMAIN executed'[j] = 1..(Len(executed[j]) + 1)
        /\ \A k \in 1..Len(executed[j]) : executed'[j][k] = executed[j][k]
        /\ executed'[j][Len(executed[j]) + 1] = r
    BY <1>1
  <1>3. executed' \in [DOMAIN Procs -> Seq(R)]
    BY <1>2
  <1>4. ASSUME NEW id, Contract!Executed(id)
        PROVE  Contract!Executed(id)'
    <2>1. PICK i \in DOMAIN Procs :
                \E k \in DOMAIN executed[i] : executed[i][k].id = id
      BY <1>1, <1>4 DEF Contract!Executed
    <2>2. PICK k \in DOMAIN executed[i] : executed[i][k].id = id
      BY <2>1
    <2>3. k \in DOMAIN executed'[i] /\ executed'[i][k] = executed[i][k]
      BY <1>1, <1>2, <2>2
    <2> QED BY <1>1, <2>2, <2>3 DEF Contract!Executed
  <1>5. ASSUME NEW id, id = r.id
        PROVE  Contract!Executed(id)'
    <2>1. Len(executed[j]) + 1 \in DOMAIN executed'[j]
      BY <1>2
    <2> QED BY <1>1, <1>2, <1>5, <2>1 DEF Contract!Executed
  <1>6. ASSUME NEW id, Contract!Executed(id)', id /= r.id
        PROVE  Contract!Executed(id)
    <2>1. PICK i \in DOMAIN Procs :
                \E k \in DOMAIN executed'[i] : executed'[i][k].id = id
      BY <1>1, <1>6 DEF Contract!Executed
    <2>2. PICK k \in DOMAIN executed'[i] : executed'[i][k].id = id
      BY <2>1
    <2>3. k \in DOMAIN executed[i] /\ executed'[i][k] = executed[i][k]
      BY <1>1, <1>2, <1>6, <2>2
    <2> QED BY <1>1, <2>2, <2>3 DEF Contract!Executed
  <1> QED BY <1>3, <1>4, <1>5, <1>6

\* UseJob is the step that carries a call out.
LEMMA UseJobContract ==
    ASSUME ServerInv, MirrorInv, ContractInv, NEW id \in Calls, HandlerFrame(id),
           UseJob(id)
    PROVE  ContractInv' /\ Contract!Execute(id)
  <1> DEFINE call == asked[id]
             R == [id : Calls, op : JobMethods \X Nat]
             r == [id |-> id, op |-> Operation(input[id])]
             j == JobIdx(id)
  <1>1. /\ pc[id] = "use_job" /\ UNCHANGED n_instr
        /\ call \in AllCalls /\ Function(id) = call.function
        /\ input[id] = Input(call) /\ DOMAIN n_instr' = Calls
        /\ UNCHANGED <<input, asked, outcome, current>>
        /\ ~ Contract!Executed(id) /\ outcome[id] \in {"waiting", "failed"}
        /\ executed \in [DOMAIN Procs -> Seq(R)]
    BY OpenCall DEF UseJob, ContractInv, HandlerFrame, clientVars
  <1>2. /\ Function(id) \in ControlFunctions
        /\ j \in 0..(Len(Procs) - 1)
    BY <1>1
    DEF MirrorInv, ReplyIsRight, ServerInv, ServedWhenComplete,
        JobReferenceIsValid, JobExists
  <1>3. Contract!Faults(call) = {} /\ Contract!Controls(call)
    BY <1>1, <1>2, FunctionIsAsked DEF ContractInv, FaultsAreFound
  <1>4. /\ call.job_idx = j
        /\ Operation(input[id]) = Contract!OperationOf(call)
        /\ Operation(input[id]) \in JobMethods \X Nat
    BY <1>1, <1>2, <1>3, JobCheck, CallCheck DEF JobIdx
  <1>5. j + 1 \in DOMAIN Procs /\ r \in R
    BY <1>2, <1>4, ProcsAssumption
  <1>6. executed' = [executed EXCEPT ![j + 1] = Append(@, r)]
    BY DEF UseJob
  <1> HIDE DEF call, j, R
  <1>7. /\ executed' \in [DOMAIN Procs -> Seq(R)]
        /\ \A other : Contract!Executed(other)' <=>
                         Contract!Executed(other) \/ other = r.id
    <2>1. R = [id : Calls, op : JobMethods \X Nat]
      BY DEF R
    <2> HIDE DEF r
    <2> QED BY <1>1, <1>5, <1>6, <2>1, ExecutedAfterAppend, Zenon
  <1>8. /\ Contract!Executed(id)'
        /\ \A other \in Calls \ {id} :
              Contract!Executed(other)' = Contract!Executed(other)
    BY <1>7 DEF Contract!Executed
  <1>9. pc'[id] = "replied" /\ reply'[id].result = Success
    BY DEF UseJob, Reply, ServerInv, TypeOK
  <1>10. CallOk(id)'
    <2>1. InputIsAsked(id)' /\ IsAtItsServer(id)' /\ FaultsAreFound(id)'
      BY <1>1, <1>9 DEF InputIsAsked, IsAtItsServer, FaultsAreFound, call
    <2>2. ReplyIsDue(id)'
      BY <1>1, <1>3, <1>8, <1>9 DEF ReplyIsDue, call
    <2>3. EndIsTold(id)'
      BY <1>1, <1>9 DEF ContractInv, EndIsTold
    <2> QED BY <2>1, <2>2, <2>3 DEF CallOk
  <1>11. ContractInv'
    BY <1>1, <1>7, <1>8, <1>10, HandlerFrameContract DEF R
  <1>12. Contract!Execute(id)
    BY <1>1, <1>3, <1>4, <1>6 DEF Contract!Execute, call
  <1> QED BY <1>11, <1>12

\* The steps of the handlers keep the invariant; all but UseJob are stutters.
LEMMA HandleContract ==
    ASSUME ServerInv, MirrorInv, ContractInv, NEW id \in Calls, Handle(id),
           UNCHANGED clientVars
    PROVE  /\ ContractInv'
           /\ Contract!Execute(id) \/ UNCHANGED Contract!vars
  <1>1. HandlerFrame(id) /\ CallInv(id)'
    BY HandleStep DEF HandlerFrame, HandlerOf
  <1>2. CASE UseJob(id)
    BY <1>1, <1>2, UseJobContract
  <1>3. CASE ~ UseJob(id)
    <2>1. UNCHANGED Contract!vars
      BY <1>3
      DEF Handle, Invoke, CheckJob, GetInfo, UseInfo, CheckCall,
          GetJobToControl, GetJob, Contract!vars, clientVars
    <2>2. ContractInv'
      BY <1>1, <1>3, InvokeContract, CheckJobContract, GetJobContract,
         UseInfoContract, CheckCallContract DEF Handle
    <2> QED BY <2>1, <2>2
  <1> QED BY <1>2, <1>3

-----------------------------------------------------------------------------
(* main and the clients.                                                   *)

\* The invariant does not depend on the jobs or on what clients know.
LEMMA ContractFrame ==
    ASSUME ContractInv, UNCHANGED <<handlerVars, asked, outcome, current>>
    PROVE  ContractInv' /\ UNCHANGED Contract!vars
  <1>1. ASSUME NEW id \in Calls
        PROVE  CallOk(id)'
    <2>0. CallOk(id) /\ UNCHANGED <<pc, input, n_instr, reply, executed>>
      BY DEF ContractInv, CallOk, handlerVars
    <2>1. InputIsAsked(id)' /\ IsAtItsServer(id)'
      BY <2>0 DEF CallOk, InputIsAsked, IsAtItsServer
    <2>2. FaultsAreFound(id)'
      BY <2>0 DEF CallOk, FaultsAreFound, Function, JobIdx
    <2>3. ReplyIsDue(id)'
      BY <2>0 DEF CallOk, ReplyIsDue, Contract!Executed
    <2>4. EndIsTold(id)'
      BY <2>0 DEF CallOk, EndIsTold
    <2> QED BY <2>1, <2>2, <2>3, <2>4 DEF CallOk
  <1> QED BY <1>1 DEF ContractInv, CallOk, handlerVars, Contract!vars

\* A step of a client makes a call, ends one, or neither.
LEMMA ClientSteps ==
    ASSUME MirrorInv, NEW c \in Clients, Client(c)
    PROVE  \/ \E call \in AllCalls : Call(c, call)
           \/ Returned(c)
           \/ Threw(c)
           \/ UNCHANGED <<handlerVars, asked, outcome, current>>
  <1>1. CASE \E job_idx \in JobIndices : CreateClientJob(c, job_idx)
    BY <1>1 DEF CreateClientJob
  <1>2. CASE AskJobManager(c)
    <2>1. m_job_idx[c] \in JobIndices /\ stage[c] \in {"n_jobs", "prefix", "info"}
      BY <1>2 DEF MirrorInv, KnownSoFar, AskJobManager
    <2>2. CreationCall(c) \in {GetNumberOfJobsCall, GetServerPrefixCall,
                               GetJobInfo(m_job_idx[c])}
      BY <2>1 DEF CreationCall
    <2>3. GetJobInfo(m_job_idx[c]) \in CallsOnJob(m_job_idx[c])
      BY Zenon DEF CallsOnJob
    <2>4. CreationCall(c) \in AllCalls
      BY <2>1, <2>2, <2>3 DEF AllCalls, ManagerCalls
    <2> QED BY <1>2, <2>4 DEF AskJobManager
  <1>3. CASE UseClientJob(c)
    <2>1. m_job_idx[c] \in JobIndices
      BY <1>3 DEF UseClientJob, MirrorInv, KnownSoFar
    <2> QED BY <1>3, <2>1 DEF UseClientJob, GetJobIndex, AllCalls
  <1>4. CASE UseJobManager(c) \/ AskForProtocol(c)
    BY <1>4 DEF UseJobManager, AskForProtocol, AllCalls
  <1>5. CASE UseAnswer(c) \/ FailToCreate(c) \/ EndCall(c)
    BY <1>5 DEF UseAnswer, FailToCreate, EndCall
  <1> QED BY <1>1, <1>2, <1>3, <1>4, <1>5 DEF Client

\* A call that is made is new and goes to its server: Ask.
LEMMA AskContract ==
    ASSUME ServerInv, MirrorInv, ContractInv, NEW c \in Clients,
           NEW call \in AllCalls, Call(c, call)
    PROVE  ContractInv' /\ Contract!Ask(NextCall, call)
  <1>0. PICK new \in Calls : new = NextCall
    BY CallIsNew
  <1>1. /\ new \in Calls /\ asked[new] = NoCall /\ call /= NoCall
        /\ new /= NoCall
    BY <1>0, CallIsNew, NoCallAssumption
  <1>2. /\ asked' = [asked EXCEPT ![new] = call]
        /\ outcome' = [outcome EXCEPT ![new] = "waiting"]
        /\ current' = [current EXCEPT ![c] = new]
        /\ input' = [input EXCEPT ![new] = Input(call)]
        /\ pc' = [pc EXCEPT ![new] = Service(call)]
        /\ UNCHANGED <<n_instr, reply, executed>>
    BY <1>0 DEF Call
  <1>3. /\ pc[new] = "none" /\ ~ Contract!Executed(new)
    BY <1>1, NoCallAssumption DEF ContractInv, InputIsAsked, ReplyIsDue
  <1>4. /\ asked'[new] = call /\ outcome'[new] = "waiting"
        /\ input'[new] = Input(call) /\ pc'[new] = Service(call)
        /\ \A id \in Calls \ {new} :
              /\ asked'[id] = asked[id] /\ outcome'[id] = outcome[id]
              /\ input'[id] = input[id] /\ pc'[id] = pc[id]
        /\ current'[c] = new
        /\ \A d \in Clients \ {c} : current'[d] = current[d]
        /\ \A id : Contract!Executed(id)' = Contract!Executed(id)
    BY <1>1, <1>2
    DEF ServerInv, TypeOK, MirrorInv, ClientTypeOK, Contract!Executed
  <1>5. \A d \in Clients : current[d] /= new
    BY <1>1 DEF MirrorInv, WaitsForOwnCall
  <1>6. CallOk(new)'
    <2>1. InputIsAsked(new)' /\ IsAtItsServer(new)'
      BY <1>4, CalledServerHasFunction DEF InputIsAsked, IsAtItsServer
    <2>2. pc'[new] \in {"info", "control"}
      BY <1>4, CalledServerHasFunction
    <2>3. FaultsAreFound(new)' /\ ReplyIsDue(new)'
      BY <1>3, <1>4, <2>2 DEF FaultsAreFound, ReplyIsDue
    <2>4. EndIsTold(new)'
      BY <1>4 DEF EndIsTold
    <2> QED BY <2>1, <2>3, <2>4 DEF CallOk
  <1>7. ASSUME NEW id \in Calls \ {new}
        PROVE  CallOk(id)'
    <2>0. CallOk(id)
      BY DEF ContractInv, CallOk
    <2>1. InputIsAsked(id)' /\ IsAtItsServer(id)'
      BY <1>4, <2>0 DEF CallOk, InputIsAsked, IsAtItsServer
    <2>2. FaultsAreFound(id)'
      BY <1>2, <1>4, <2>0 DEF CallOk, FaultsAreFound, Function, JobIdx
    <2>3. ReplyIsDue(id)'
      BY <1>2, <1>4, <2>0 DEF CallOk, ReplyIsDue
    <2>4. EndIsTold(id)'
      BY <1>4, <2>0 DEF CallOk, EndIsTold
    <2> QED BY <2>1, <2>2, <2>3, <2>4 DEF CallOk
  <1>8. \A d, e \in Clients :
           current'[d] = current'[e] => d = e \/ current'[d] = NoCall
    BY <1>4, <1>5 DEF ContractInv
  <1>9. ContractInv'
    BY <1>2, <1>6, <1>7, <1>8 DEF ContractInv, CallOk
  <1>10. Contract!Ask(NextCall, call)
    BY <1>0, <1>1, <1>2 DEF Contract!Ask
  <1> QED BY <1>9, <1>10

\* The end of a call, whatever it is, is one of the thread that waits for it.
LEMMA EndContract ==
    ASSUME ServerInv, MirrorInv, ContractInv, NEW c \in Clients,
           current[c] /= NoCall, NEW how, End(c, how),
           pc[current[c]] /= "replied" => how = "failed"
    PROVE  ContractInv' /\ current[c] \in Calls /\ Contract!End(current[c], how)
  <1> DEFINE id == current[c]
  <1>1. /\ id \in Calls /\ outcome[id] = "waiting"
        /\ outcome' = [outcome EXCEPT ![id] = how]
        /\ current' = [current EXCEPT ![c] = NoCall]
        /\ UNCHANGED <<handlerVars, asked>>
    BY DEF End, MirrorInv, WaitsForOwnCall, ContractInv, EndIsTold
  <1>2. Contract!End(id, how)
    BY <1>1 DEF Contract!End, handlerVars
  <1>3. /\ \A other \in Calls \ {id} : outcome'[other] = outcome[other]
        /\ outcome'[id] = how
        /\ current'[c] = NoCall
        /\ \A d \in Clients \ {c} : current'[d] = current[d] /\ current[d] /= id
    BY <1>1 DEF ServerInv, TypeOK, MirrorInv, ClientTypeOK, ContractInv
  <1>4. ASSUME NEW other \in Calls
        PROVE  CallOk(other)'
    <2>0. CallOk(other)
      BY DEF ContractInv, CallOk
    <2>1. InputIsAsked(other)'
      BY <1>1, <1>3, <2>0, NoCallAssumption
      DEF CallOk, InputIsAsked, handlerVars, MirrorInv, WaitsForOwnCall
    <2>2. IsAtItsServer(other)' /\ FaultsAreFound(other)' /\ ReplyIsDue(other)'
      BY <1>1, <2>0
      DEF CallOk, IsAtItsServer, FaultsAreFound, ReplyIsDue, Function, JobIdx,
          Contract!Executed, handlerVars
    <2>3. EndIsTold(other)'
      BY <1>1, <1>3, <2>0, NoCallAssumption DEF CallOk, EndIsTold, handlerVars
    <2> QED BY <2>1, <2>2, <2>3 DEF CallOk
  <1>5. \A d, e \in Clients :
           current'[d] = current'[e] => d = e \/ current'[d] = NoCall
    BY <1>3 DEF ContractInv
  <1> HIDE DEF id
  <1>6. ContractInv'
    BY <1>1, <1>4, <1>5 DEF ContractInv, CallOk, handlerVars
  <1> QED BY <1>1, <1>2, <1>6 DEF id

\* A call returns after it was carried out, is refused for its fault, or fails.
LEMMA EndOfCallContract ==
    ASSUME ServerInv, MirrorInv, ContractInv, NEW c \in Clients,
           Returned(c) \/ Threw(c)
    PROVE  ContractInv' /\ Contract!Next
  <1> DEFINE id == current[c]
  <1>1. id /= NoCall /\ id \in Calls
    BY DEF Returned, Threw, MirrorInv, WaitsForOwnCall
  <1>2. CASE Returned(c)
    <2>1. ContractInv' /\ Contract!End(id, "returned")
      BY <1>1, <1>2, EndContract DEF Returned
    <2>2. /\ Contract!Faults(asked[id]) = {}
          /\ Contract!Controls(asked[id]) => Contract!Executed(id)
      BY <1>1, <1>2 DEF Returned, ContractInv, ReplyIsDue
    <2>3. Contract!Return(id)
      BY <2>1, <2>2 DEF Contract!Return
    <2> QED BY <1>1, <2>1, <2>3 DEF Contract!Next
  <1>3. CASE Threw(c)
    <2>1. CASE End(c, "failed")
      <3>1. ContractInv' /\ Contract!Fail(id)
        BY <1>1, <2>1, EndContract DEF Contract!Fail
      <3> QED BY <1>1, <3>1 DEF Contract!Next
    <2>2. CASE /\ pc[id] = "replied" /\ reply[id].result /= Success
               /\ End(c, AutomationServerResultToString(reply[id].result))
      <3> DEFINE fault == AutomationServerResultToString(reply[id].result)
      <3>1. fault \in Contract!Faults(asked[id])
        BY <1>1, <2>2 DEF ContractInv, ReplyIsDue
      <3>2. Contract!Faults(asked[id]) \subseteq
               {"UnknownJob", "UnknownInstruction", "UnknownJobCommand"}
        BY DEF Contract!Faults
      <3> HIDE DEF fault
      <3>3. ContractInv' /\ Contract!End(id, fault)
        BY <1>1, <2>2, EndContract DEF fault
      <3>4. Contract!Refuse(id, fault)
        BY <3>1, <3>3 DEF Contract!Refuse
      <3> QED BY <1>1, <3>1, <3>2, <3>3, <3>4 DEF Contract!Next
    <2> QED BY <1>3, <2>1, <2>2 DEF Threw
  <1> QED BY <1>2, <1>3

-----------------------------------------------------------------------------

\* Nothing was asked yet.
LEMMA ContractInit == Init => ContractInv /\ Contract!Init
  <1> SUFFICES ASSUME Init PROVE ContractInv /\ Contract!Init
    OBVIOUS
  <1> DEFINE R == [id : Calls, op : JobMethods \X Nat]
  <1>1. /\ executed = [i \in DOMAIN Procs |-> <<>>] /\ <<>> \in Seq(R)
        /\ DOMAIN n_instr = Calls
        /\ asked = [id \in Calls |-> NoCall]
        /\ outcome = [id \in Calls |-> "none"]
        /\ pc = [id \in Calls |-> "none"]
        /\ current = [c \in Clients |-> NoCall]
    BY DEF Init, ServerInit
  <1>2. executed \in [DOMAIN Procs -> Seq(R)]
    BY <1>1
  <1>3. \A id \in Calls : ~ Contract!Executed(id)
    BY <1>1 DEF Contract!Executed
  <1>4. \A id \in Calls : CallOk(id)
    BY <1>1, <1>3, NoCallAssumption
    DEF CallOk, InputIsAsked, IsAtItsServer, FaultsAreFound, ReplyIsDue, EndIsTold
  <1>5. ContractInv
    BY <1>1, <1>2, <1>4 DEF ContractInv, CallOk
  <1>6. DOMAIN [i \in DOMAIN Procs |-> Procs[i].n_instr] = DOMAIN Procs
    OBVIOUS
  <1>7. Contract!Init
    BY <1>1, <1>6 DEF Contract!Init
  <1> QED BY <1>5, <1>7

\* Every step keeps the invariant and is a step or a stutter of the contract.
LEMMA ContractStep ==
    IndInv /\ [Next]_vars => ContractInv' /\ [Contract!Next]_(Contract!vars)
  <1> SUFFICES ASSUME ServerInv, MirrorInv, ContractInv, [Next]_vars
               PROVE  ContractInv' /\ (Contract!Next \/ UNCHANGED Contract!vars)
    BY DEF IndInv
  <1>1. CASE UNCHANGED vars
    BY <1>1, ContractFrame DEF vars, clientVars
  <1>2. CASE Main /\ UNCHANGED clientVars
    <2>1. UNCHANGED handlerVars
      BY <1>2 DEF Main, AddJob, StartInfoServer, StartControlServer
    <2> QED BY <1>2, <2>1, ContractFrame DEF clientVars
  <1>3. ASSUME NEW id \in Calls, Handle(id), UNCHANGED clientVars
        PROVE  ContractInv' /\ (Contract!Next \/ UNCHANGED Contract!vars)
    <2>1. ContractInv' /\ (Contract!Execute(id) \/ UNCHANGED Contract!vars)
      BY <1>3, HandleContract
    <2> QED BY <2>1 DEF Contract!Next
  <1>4. ASSUME NEW c \in Clients, Client(c)
        PROVE  ContractInv' /\ (Contract!Next \/ UNCHANGED Contract!vars)
    <2>1. ASSUME NEW call \in AllCalls, Call(c, call)
          PROVE  ContractInv' /\ Contract!Next
      <3>1. ContractInv' /\ Contract!Ask(NextCall, call) /\ NextCall \in Calls
        BY <2>1, AskContract, CallIsNew
      <3> QED BY <3>1 DEF Contract!Next
    <2> QED BY <1>4, <2>1, ClientSteps, EndOfCallContract, ContractFrame
  <1> QED BY <1>1, <1>2, <1>3, <1>4 DEF Next, Server

\* The inductive invariant of the server, its clients and their calls.
THEOREM IndInvariant == Spec => []IndInv
  <1>1. Init => ContractInv
    BY ContractInit
  <1>2. ServerInv /\ MirrorInv /\ ContractInv /\ [Next]_vars => ContractInv'
    BY ContractStep DEF IndInv
  <1>3. ServerInv /\ MirrorInv /\ ContractInv => IndInv
    BY DEF IndInv
  <1> QED BY <1>1, <1>2, <1>3, ServerAndClients, PTL DEF Spec

\* Whatever is delayed or times out, the handlers, which check and use the jobs
\* in several steps, do for a call what IJobManager and IJob promise.
THEOREM Refinement == Spec => ImplementsContract
  <1>1. Init => Contract!Init
    BY ContractInit
  <1>2. IndInv /\ [Next]_vars => [Contract!Next]_(Contract!vars)
    BY ContractStep
  <1> QED
    BY <1>1, <1>2, IndInvariant, PTL DEF Spec, ImplementsContract, Contract!Spec

================================================================================
