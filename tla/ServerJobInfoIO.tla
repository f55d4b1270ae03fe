---------------------------- MODULE ServerJobInfoIO ----------------------------
(***************************************************************************)
(* ServerJobInfoIO (base/server_job_info_io.cpp): what a job reports is    *)
(* encoded, named and given to the manager, whose EPICSServers show it.    *)
(* One of them serves the job and its variables, one the instructions.     *)
(*                                                                         *)
(* The job is LocalJob of oac-tree: it reports from several threads.  Each *)
(* report carries a number of its own as its data.                         *)
(***************************************************************************)
EXTENDS AnyValueIO

CONSTANTS
    ServerPrefix,   \* the prefix of the server, a name
    JobIdx,         \* the index of the job
    NVars, NInstr,  \* the numbers of its variables and instructions
    IndexModulus,   \* 2^64 in the code
    Threads,        \* threads that report
    NoEntry,        \* a thread that makes no entry
    MaxReports,     \* bound on the number of reports
    MaxObjects      \* bound on the number of things they are about

ASSUME NumbersAssumption == NVars \in Nat /\ NInstr \in Nat
ASSUME BoundsAssumption == MaxReports \in Nat /\ MaxObjects \in Nat
ASSUME IndexModulusAssumption == IndexModulus \in Nat \ {0, 1}
ASSUME ServerPrefixAssumption == ServerPrefix \in Seq(STRING)
ASSUME ThreadsAssumption == IsFiniteSet(Threads)

\* The protocol has names for all variables and instructions.
ASSUME IndicesAssumption ==
    (0..(NVars - 1)) \cup (0..(NInstr - 1))
        \subseteq {n \in DOMAIN Text : n <= MaxUInt32}

m_job_prefix == CreateJobPrefix(ServerPrefix, JobIdx)

Entries == {"Log", "Message", "PutValue"}
Entry == [kind : Entries, index : Nat, data : Nat]

ASSUME NoEntryAssumption == NoEntry \notin Entry

\* What a report is about: the method of IJobInfoIO and the index it names.
Objects ==
    {<<"JobStateUpdated", 0>>, <<"BreakpointInstructionUpdated", 0>>}
    \cup {<<entry, 0>> : entry \in Entries}
    \cup {<<"VariableUpdated", i>> : i \in 0..(NVars - 1)}
    \cup {<<"InstructionStateUpdated", i>> : i \in 0..(NInstr - 1)}

Sets == {"job", "instructions"}
ValueSet == [set \in Sets |->
    IF set = "job" THEN GetInitialValueSet(m_job_prefix, NVars)
    ELSE GetInstructionValueSet(m_job_prefix, NInstr)]
NamesOf == [set \in Sets |-> GetNames(ValueSet[set])]
Names == UNION {NamesOf[set] : set \in Sets}

VARIABLES
    registered,     \* the sets in the manager's map
    updates,        \* per set, the queue of its EPICSServer
    shown,          \* per name, the values clients could see so far
    m_last_idx,     \* per kind of entry, its IndexGenerator
    entry,          \* per thread, the entry between NewIndex and UpdateAnyValue
    reports,        \* number of reports made
    published       \* history: per object, the arguments of its reports

serverVars == <<registered, updates, shown, m_last_idx, entry, reports, published>>

IsSeq(s) == s \in Seq(Range(s))

ServerTypeOK ==
    /\ registered \in {{"job"}, Sets}
    /\ DOMAIN updates = Sets
    /\ \A set \in Sets :
          /\ IsSeq(updates[set])
          /\ \A i \in DOMAIN updates[set] : updates[set][i].name \in NamesOf[set]
    /\ DOMAIN shown = Names
    /\ \A name \in Names : IsSeq(shown[name])
    /\ m_last_idx \in [Entries -> 0..(IndexModulus - 1)]
    /\ entry \in [Threads -> {NoEntry} \cup Entry]
    /\ reports \in 0..MaxReports
    /\ DOMAIN published = Objects
    /\ \A object \in Objects : IsSeq(published[object])

\* The constructor registered the set of the job.
ServerInit ==
    /\ registered = {"job"}
    /\ updates = [set \in Sets |-> <<>>]
    /\ shown = [name \in Names |-> <<>>]
    /\ m_last_idx = [kind \in Entries |-> 0]
    /\ entry = [t \in Threads |-> NoEntry]
    /\ reports = 0
    /\ published = [object \in Objects |-> <<>>]

-----------------------------------------------------------------------------
(* Forms with a plausible bug, used by no action of the specification.     *)

NewIndexWithZero(kind) == (m_last_idx[kind] + 1) % IndexModulus

PushInFront(update, queue) == <<update>> \o queue

-----------------------------------------------------------------------------

\* IndexGenerator::NewIndex.
NewIndex(kind) ==
    LET next == (m_last_idx[kind] + 1) % IndexModulus
    IN  IF next = 0 THEN 1 ELSE next

Push(update, queue) == Append(queue, update)

\* EPICSAnyValueManager::UpdateAnyValue; the result is ignored, so a value that
\* is not registered yet is dropped.  The serial is the place of the report in
\* the history of its object.
UpdateAnyValue(object, args, name, value) ==
    /\ \/ \E set \in registered :
             /\ name \in NamesOf[set]
             /\ updates' = [updates EXCEPT ![set] =
                   Push([name |-> name, value |-> value,
                         serial |-> Len(published[object]) + 1], @)]
             /\ published' = [published EXCEPT ![object] = Append(@, args)]
       \/ /\ \A set \in registered : name \notin NamesOf[set]
          /\ UNCHANGED <<updates, published>>
    /\ UNCHANGED <<registered, shown>>

ReportedOn ==
    {object \in Objects : published[object] /= <<>>}
    \cup {<<entry[t].kind, 0>> : t \in {u \in Threads : entry[u] /= NoEntry}}

NewReport(object) ==
    /\ reports < MaxReports
    /\ Cardinality(ReportedOn \cup {object}) <= MaxObjects
    /\ reports' = reports + 1

Report(object, args, name, value) ==
    /\ NewReport(object)
    /\ UpdateAnyValue(object, args, name, value)
    /\ UNCHANGED <<m_last_idx, entry>>

InitNumberOfInstructions ==
    /\ registered' = registered \cup {"instructions"}
    /\ registered' /= registered
    /\ UNCHANGED <<updates, shown, m_last_idx, entry, reports, published>>

InstructionStateUpdated(instr_idx, state) ==
    Report(<<"InstructionStateUpdated", instr_idx>>, <<state>>,
           GetInstructionPVName(m_job_prefix, instr_idx), ToAnyValue(state))

BreakpointInstructionUpdated(instr_idx) ==
    Report(<<"BreakpointInstructionUpdated", 0>>, <<instr_idx>>,
           GetBreakpointInstructionPVName(m_job_prefix),
           GetBreakpointInstructionValue(instr_idx))

VariableUpdated(var_idx, value, connected) ==
    Report(<<"VariableUpdated", var_idx>>, <<value, connected>>,
           GetVariablePVName(m_job_prefix, var_idx),
           EncodeVariableState(value, connected))

JobStateUpdated(state) ==
    Report(<<"JobStateUpdated", 0>>, <<state>>,
           GetJobStatePVName(m_job_prefix), GetJobStateValue(state))

\* PutValue, Message and Log: the index is taken first.
TakeIndex(t, kind) ==
    /\ entry[t] = NoEntry
    /\ NewReport(<<kind, 0>>)
    /\ m_last_idx' = [m_last_idx EXCEPT ![kind] = NewIndex(kind)]
    /\ entry' = [entry EXCEPT ![t] =
                    [kind |-> kind, index |-> NewIndex(kind), data |-> reports + 1]]
    /\ UNCHANGED <<registered, updates, shown, published>>

PutEntry(t, args, name, value) ==
    /\ UpdateAnyValue(<<entry[t].kind, 0>>, args, name, value)
    /\ entry' = [entry EXCEPT ![t] = NoEntry]
    /\ UNCHANGED <<m_last_idx, reports>>

PutValue(t, e) ==
    LET value == Scalar("any", e.data)
    IN  PutEntry(t, <<value, 1>>, GetOutputValueEntryName(m_job_prefix),
                 EncodeOutputValueEntry(OutputValueEntry(e.index, 1, value)))

Message(t, e) ==
    PutEntry(t, <<e.data>>, GetMessageEntryName(m_job_prefix),
             EncodeMessageEntry(MessageEntry(e.index, e.data)))

Log(t, e) ==
    PutEntry(t, <<1, e.data>>, GetLogEntryName(m_job_prefix),
             EncodeLogEntry(LogEntry(e.index, 1, e.data)))

FinishEntry(t) ==
    /\ entry[t] /= NoEntry
    /\ \/ entry[t].kind = "PutValue" /\ PutValue(t, entry[t])
       \/ entry[t].kind = "Message" /\ Message(t, entry[t])
       \/ entry[t].kind = "Log" /\ Log(t, entry[t])

-----------------------------------------------------------------------------
(* The EPICSServer of a set (EPICSServer.tla): it serves the values with   *)
(* their initial values, then shows one update after the other, encoded.   *)

Served(set) == \A name \in NamesOf[set] : shown[name] /= <<>>
Value(serial, value) == [serial |-> serial, value |-> Base64EncodeAnyValue(value)]

Serve(set) ==
    /\ set \in registered
    /\ NamesOf[set] /= {} /\ ~ Served(set)
    /\ shown' = [name \in Names |->
          IF name \in NamesOf[set]
          THEN LET i == SelectInSeq(ValueSet[set], LAMBDA pair : pair.name = name)
               IN  <<Value(0, ValueSet[set][i].value)>>
          ELSE shown[name]]
    /\ UNCHANGED <<registered, updates, m_last_idx, entry, reports, published>>

Show(set) ==
    /\ Served(set)
    /\ updates[set] /= <<>>
    /\ LET update == Head(updates[set])
       IN  shown' = [shown EXCEPT ![update.name] =
                        Append(@, Value(update.serial, update.value))]
    /\ updates' = [updates EXCEPT ![set] = Tail(@)]
    /\ UNCHANGED <<registered, m_last_idx, entry, reports, published>>

-----------------------------------------------------------------------------

JobReports ==
    LET data == reports + 1
    IN  \/ JobStateUpdated(data)
        \/ BreakpointInstructionUpdated(data)
        \/ \E i \in 0..(NInstr - 1) : InstructionStateUpdated(i, data)
        \/ \E i \in 0..(NVars - 1), connected \in BOOLEAN :
             \/ VariableUpdated(i, Scalar("any", data), connected)
             \/ ~ connected /\ VariableUpdated(i, EmptyValue, connected)
        \/ \E t \in Threads, kind \in Entries : TakeIndex(t, kind)

ServerWorks == \E set \in Sets : Serve(set) \/ Show(set)

ServerNext ==
    \/ InitNumberOfInstructions
    \/ JobReports
    \/ \E t \in Threads : FinishEntry(t)
    \/ ServerWorks

-----------------------------------------------------------------------------

\* The entries made so far of a kind: those published and those between the two
\* steps.
Made(kind) ==
    Len(published[<<kind, 0>>])
        + Cardinality({t \in Threads : entry[t] /= NoEntry /\ entry[t].kind = kind})

\* The k-th entry of a job has the k-th index and never zero, the index of the
\* initial value of the variable; no index is taken twice before all others were.
IndexIsSerial ==
    \A kind \in Entries :
        m_last_idx[kind] = IF Made(kind) = 0 THEN 0
                           ELSE 1 + ((Made(kind) - 1) % (IndexModulus - 1))

=============================================================================
