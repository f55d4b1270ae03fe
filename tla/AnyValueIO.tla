------------------------------- MODULE AnyValueIO -------------------------------
(***************************************************************************)
(* The lists of values of a job (base/i_anyvalue_io.cpp), which the server *)
(* registers and the client mirrors.                                       *)
(***************************************************************************)
EXTENDS OutputEntryHelper

\* External (oac-tree): "no breakpoint".  Reports use indices from 1 on.
kInvalidInstructionIndex == 0
\* External (oac-tree): the AnyValue of an instruction state and its reading.
ToAnyValue(instr_state) == [exec_state |-> UInt32(instr_state)]
ToInstructionState(av) ==
    IF ValidateMemberType(av, "exec_state", "uint32")
    THEN {av.exec_state.value}
    ELSE {}
kInstructionStateAnyValue == ToAnyValue(0)

NameAnyValuePair(name, value) == [name |-> name, value |-> value]

GetNames(name_value_set) ==
    {name_value_set[i].name : i \in DOMAIN name_value_set}

GetInitialValueSet(job_prefix, n_vars) ==
    << NameAnyValuePair(GetJobStatePVName(job_prefix),
                        GetJobStateValue(kInitial)),
       NameAnyValuePair(GetBreakpointInstructionPVName(job_prefix),
                        GetBreakpointInstructionValue(kInvalidInstructionIndex)),
       NameAnyValuePair(GetLogEntryName(job_prefix), kLogEntryAnyValue),
       NameAnyValuePair(GetMessageEntryName(job_prefix), kMessageEntryAnyValue),
       NameAnyValuePair(GetOutputValueEntryName(job_prefix),
                        kOutputValueEntryAnyValue) >>
    \o [i \in 1..n_vars |->
           NameAnyValuePair(GetVariablePVName(job_prefix, i - 1),
                            kVariableAnyValue)]

GetInstructionValueSet(job_prefix, n_instr) ==
    [i \in 1..n_instr |->
        NameAnyValuePair(GetInstructionPVName(job_prefix, i - 1),
                         kInstructionStateAnyValue)]

=============================================================================
