---------------------------- MODULE OacTreeProtocol ----------------------------
(***************************************************************************)
(* The names, values and results that the servers and the clients of a job *)
(* exchange (oac_tree_protocol.h, base/oac_tree_protocol.cpp).             *)
(*                                                                         *)
(* A name is the sequence of its tokens: the words and the dashes of the   *)
(* protocol, the text of an index, any other word.  A scalar AnyValue is a *)
(* record of its type and value, a struct a record of its fields.  What    *)
(* may fail returns a set: the result, or nothing.                         *)
(***************************************************************************)
EXTENDS Naturals, Sequences, SequencesExt

CONSTANTS
    Text,       \* std::to_string, [index -> token]
    Stoul,      \* std::stoul, [token that starts with a number -> number]
    MaxUInt32   \* the largest index a name may have

ASSUME StoulReadsText ==
    /\ DOMAIN Text \subseteq Nat
    /\ \A n \in DOMAIN Text : Text[n] \in DOMAIN Stoul /\ Stoul[Text[n]] = n
    /\ \A token \in DOMAIN Stoul : Stoul[token] \in DOMAIN Text

\* What stoul reads is no dash and no word of the protocol.
ASSUME NumbersAreNoWords ==
    DOMAIN Stoul \cap {"-", "INSTR", "BP", "VAR", "INPUT", "REQ", "LOG", "MSG",
                       "OUT", "STATE"} = {}
ASSUME MaxUInt32Assumption == MaxUInt32 \in Nat

-----------------------------------------------------------------------------
(* Names.                                                                  *)

kControlServerId == <<"CONTROL:">>
kInstructionId == <<"INSTR", "-">>
kBreakpointInstructionId == <<"BP", "-", "INSTR">>
kVariableId == <<"VAR", "-">>
kInputServerName == <<"INPUT">>
kInputRequestName == <<"-", "REQ">>
kLogEntryId == <<"LOG">>
kMessageEntryId == <<"MSG">>
kOutputValueEntryId == <<"OUT">>
kJobStateId == <<"STATE">>

GetControlServerName(server_name) == server_name \o kControlServerId
CreateJobPrefix(server_prefix, idx) ==
    server_prefix \o <<":PROC", "-", Text[idx], ":">>
GetInstructionPVName(prefix, index) == prefix \o kInstructionId \o <<Text[index]>>
GetBreakpointInstructionPVName(prefix) == prefix \o kBreakpointInstructionId
GetVariablePVName(prefix, index) == prefix \o kVariableId \o <<Text[index]>>
GetInputServerName(prefix) == prefix \o kInputServerName
GetInputRequestPVName(server_name) == server_name \o kInputRequestName
GetLogEntryName(prefix) == prefix \o kLogEntryId
GetMessageEntryName(prefix) == prefix \o kMessageEntryId
GetOutputValueEntryName(prefix) == prefix \o kOutputValueEntryId
GetJobStatePVName(prefix) == prefix \o kJobStateId

ValueNameTypes ==
    {"kUnknown", "kInstruction", "kVariable", "kLogEntry", "kMessageEntry",
     "kOutputValueEntry", "kJobStatus", "kBreakpointInstruction"}

ValueNameInfo(type, index) == [val_type |-> type, idx |-> index]
Unknown == ValueNameInfo("kUnknown", 0)

\* Forms with a plausible bug, used by no definition.
EndsWithSearch(str, sub_str) ==     \* finds sub_str anywhere
    \E i, j \in DOMAIN str : SubSeq(str, i, j) = sub_str

EndsWith(str, sub_str) == IsSuffix(sub_str, str)

\* Only the text that to_string makes of the number stoul reads is an index.
ParseIndex(idx_str) ==
    IF idx_str /= <<>> /\ Head(idx_str) \in DOMAIN Stoul
    THEN {n \in {Stoul[Head(idx_str)]} :
             idx_str = <<Text[n]>> /\ n <= MaxUInt32}
    ELSE {}

Postfixes == <<
    [postfix |-> kJobStateId, type |-> "kJobStatus"],
    [postfix |-> kLogEntryId, type |-> "kLogEntry"],
    [postfix |-> kMessageEntryId, type |-> "kMessageEntry"],
    [postfix |-> kOutputValueEntryId, type |-> "kOutputValueEntry"],
    [postfix |-> kBreakpointInstructionId, type |-> "kBreakpointInstruction"]>>

\* No name ends with both.
Identifiers == <<
    [postfix |-> kInstructionId, type |-> "kInstruction"],
    [postfix |-> kVariableId, type |-> "kVariable"]>>

LastDash(str) == SelectLastInSeq(str, LAMBDA token : token = "-")

\* What a name identifies with an index behind its last dash.
IdentifiedAt(str, pos) ==
    LET remainder == SubSeq(str, 1, pos)
    IN  {ValueNameInfo(Identifiers[i].type, idx) :
            i \in {j \in DOMAIN Identifiers :
                      /\ EndsWith(remainder, Identifiers[j].postfix)
                      /\ remainder /= Identifiers[j].postfix},
            idx \in ParseIndex(SubSeq(str, pos + 1, Len(str)))}

\* A name with nothing before its postfix or its identifier is unknown.
ParseValueName(val_name) ==
    LET first == SelectInSeq(Postfixes, LAMBDA p : EndsWith(val_name, p.postfix))
        infos == IdentifiedAt(val_name, LastDash(val_name))
    IN  IF first /= 0
        THEN IF val_name = Postfixes[first].postfix THEN Unknown
             ELSE ValueNameInfo(Postfixes[first].type, 0)
        ELSE IF infos = {} THEN Unknown ELSE CHOOSE info \in infos : TRUE

-----------------------------------------------------------------------------
(* AnyValues.                                                              *)

Scalar(t, v) == [type |-> t, value |-> v]
EmptyValue == Scalar("empty", 0)
IsEmptyValue(av) == av.type = "empty"
UInt64(n) == Scalar("uint64", n)
UInt32(n) == Scalar("uint32", n)
Int32(n) == Scalar("int32", n)
Bool(b) == Scalar("bool", b)
String(s) == Scalar("string", s)

HasField(av, field) == field \in DOMAIN av
ValidateMemberType(av, field, t) == HasField(av, field) /\ av[field].type = t

\* External (oac-tree): the first job state.
kInitial == 0

kVariableAnyValue == [var_value |-> EmptyValue, var_connected |-> Bool(FALSE)]
kJobStateAnyValue == [state |-> UInt32(kInitial)]
kInputRequestAnyValue ==
    [idx |-> UInt64(0), request_type |-> UInt32(0),
     metadata |-> EmptyValue, input_value |-> EmptyValue]
kLogEntryAnyValue ==
    [index |-> UInt64(0), severity |-> Int32(0), message |-> String(0)]
kMessageEntryAnyValue == [index |-> UInt64(0), message |-> String(0)]
kOutputValueEntryAnyValue ==
    [index |-> UInt64(0), description |-> String(0), value |-> EmptyValue]

\* Forms with a plausible bug, used by no definition.
EncodeVariableStateConnected(value, connected) ==
    [var_value |-> value, var_connected |-> Bool(TRUE)]

GetJobStateValue(job_state) == [kJobStateAnyValue EXCEPT !.state.value = job_state]

GetBreakpointInstructionValue(instr_idx) == [index |-> UInt32(instr_idx)]
DecodeBreakpointInstructionIndex(av) ==
    IF ValidateMemberType(av, "index", "uint32") THEN {av.index.value} ELSE {}

kVariableValueField == "var_value"
kVariableConnectedField == "var_connected"

EncodeVariableState(value, connected) ==
    [var_value |-> value, var_connected |-> Bool(connected)]
ValidateVariableAnyValue(payload) ==
    /\ HasField(payload, kVariableValueField)
    /\ ValidateMemberType(payload, kVariableConnectedField, "bool")
DecodeVariableState(encoded) ==
    IF ValidateVariableAnyValue(encoded)
    THEN <<encoded.var_value, encoded.var_connected.value>>
    ELSE <<EmptyValue, FALSE>>

\* The codec of sup-protocol: a struct of the encoding's name and the text.
Base64EncodeAnyValue(av) == [encoding |-> String("b64"), val |-> av]
Base64DecodeAnyValue(av) ==
    IF HasField(av, "encoding") THEN {av.val} ELSE {}

-----------------------------------------------------------------------------
(* Results and arguments of the RPC functions.                             *)

\* External (sup-protocol): the results of protocols, with their texts, those of
\* any application and those of this application, in this order.
Success == 0
ServerProtocolDecodingError == 1
ServerProtocolEncodingError == 2
ProtocolResultToString(result) ==
    CASE result = Success -> "Success"
      [] result = ServerProtocolDecodingError -> "ServerProtocolDecodingError"
      [] result = ServerProtocolEncodingError -> "ServerProtocolEncodingError"
GENERIC_APPLICATION_ERROR_START == 3
SPECIFIC_APPLICATION_ERROR_START == 4

\* The results of this application, in the order of AutomationServerStatus.
NotSupported == SPECIFIC_APPLICATION_ERROR_START
UnknownJob == NotSupported + 1
UnknownInstruction == NotSupported + 2
UnknownJobCommand == NotSupported + 3
ClientReplyRefused == NotSupported + 4

result_map == [result \in NotSupported..ClientReplyRefused |->
    CASE result = NotSupported -> "NotSupported"
      [] result = UnknownJob -> "UnknownJob"
      [] result = UnknownInstruction -> "UnknownInstruction"
      [] result = UnknownJobCommand -> "UnknownJobCommand"
      [] result = ClientReplyRefused -> "ClientReplyRefused"]

AutomationServerResultToString(result) ==
    IF result < GENERIC_APPLICATION_ERROR_START
    THEN ProtocolResultToString(result)
    ELSE IF result \in DOMAIN result_map THEN result_map[result]
    ELSE "Unknown ProtocolResult"

\* An index in a field of the input, below the bound: its result for the server
\* and, on success, the index.
ConvertsToUInt32(av) ==
    /\ av.type \in {"uint32", "uint64", "int32"}
    /\ av.value \in 0..MaxUInt32

\* Forms with a plausible bug, used by no definition.
ExtractIndexUpTo(input, field, bound, unknown) ==   \* accepts the bound
    IF ~ HasField(input, field) \/ ~ ConvertsToUInt32(input[field])
    THEN ServerProtocolDecodingError
    ELSE IF input[field].value > bound THEN unknown ELSE Success

ExtractIndex(input, field, bound, unknown) ==
    IF ~ HasField(input, field) \/ ~ ConvertsToUInt32(input[field])
    THEN ServerProtocolDecodingError
    ELSE IF input[field].value >= bound THEN unknown ELSE Success

ExtractJobIndex(input, n_jobs) ==
    ExtractIndex(input, "job_index", n_jobs, UnknownJob)
ExtractInstructionIndex(input, n_instr) ==
    ExtractIndex(input, "instruction_index", n_instr, UnknownInstruction)

=============================================================================
