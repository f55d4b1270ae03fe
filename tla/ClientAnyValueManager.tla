------------------------- MODULE ClientAnyValueManager -------------------------
(***************************************************************************)
(* The updates of ClientAnyValueManager (base/client_anyvalue_manager.cpp): *)
(* the map from names to callbacks, and what a callback tells the listener, *)
(* the IJobInfoIO the client's user passed.  The operations are composed   *)
(* with their callers in JobMirror; GetUserInput and Interrupt are in      *)
(* UserInputRoundTrip.                                                     *)
(***************************************************************************)
EXTENDS ServerJobInfoIO

CONSTANT NoCallback     \* a name that is not in m_cb_map

ASSUME NoCallbackAssumption == NoCallback \notin [val_type : ValueNameTypes, idx : Nat]

VARIABLES
    m_cb_map,   \* [Names -> ValueNameInfo the callback was made for]
    told,       \* per object, the last call of the listener, or nothing
    missed      \* history: names whose last lookup found nothing for a report

\* The infos of the names of the job, parsed once.
InfoOf == [name \in Names |-> ParseValueName(name)]

ListenerObjects == Objects \cup {<<"InitNumberOfInstructions", 0>>}

managerVars == <<m_cb_map, told, missed>>

ManagerTypeOK ==
    /\ \A name \in Names : m_cb_map[name] \in {NoCallback, InfoOf[name]}
    /\ DOMAIN m_cb_map = Names
    /\ DOMAIN told = ListenerObjects
    /\ missed \in SUBSET Names

ManagerInit ==
    /\ m_cb_map = [name \in Names |-> NoCallback]
    /\ told = [object \in ListenerObjects |-> {}]
    /\ missed = {}

-----------------------------------------------------------------------------
(* The listener calls a value leads to: one, or none if it is ignored.     *)

ListenerCall(method, idx, args) == [object |-> <<method, idx>>, args |-> args]

UpdateJobState(av) ==
    IF ValidateMemberType(av, "state", "uint32")
    THEN {ListenerCall("JobStateUpdated", 0, <<av.state.value>>)}
    ELSE {}

UpdateInstructionState(idx, av) ==
    {ListenerCall("InstructionStateUpdated", idx, <<state>>) :
        state \in ToInstructionState(av)}

\* A value that cannot be decoded is empty as well.
UpdateVariableState(idx, av) ==
    LET decoded == DecodeVariableState(av)
    IN  IF IsEmptyValue(decoded[1]) THEN {}
        ELSE {ListenerCall("VariableUpdated", idx, decoded)}

UpdateLogEntry(av) ==
    {ListenerCall("Log", 0, <<e.m_severity, e.m_message>>) :
        e \in DecodeLogEntry(av)}

UpdateMessageEntry(av) ==
    {ListenerCall("Message", 0, <<e.m_message>>) : e \in DecodeMessageEntry(av)}

UpdateOutputValueEntry(av) ==
    {ListenerCall("PutValue", 0, <<e.m_value, e.m_description>>) :
        e \in DecodeOutputValueEntry(av)}

UpdateBreakpointInstruction(av) ==
    {ListenerCall("BreakpointInstructionUpdated", 0, <<instr_idx>>) :
        instr_idx \in DecodeBreakpointInstructionIndex(av)}

\* What the callback that CreateCallback makes for the info does with a value.
CreateCallback(info, av) ==
    CASE info.val_type = "kJobStatus" -> UpdateJobState(av)
      [] info.val_type = "kInstruction" -> UpdateInstructionState(info.idx, av)
      [] info.val_type = "kVariable" -> UpdateVariableState(info.idx, av)
      [] info.val_type = "kLogEntry" -> UpdateLogEntry(av)
      [] info.val_type = "kMessageEntry" -> UpdateMessageEntry(av)
      [] info.val_type = "kOutputValueEntry" -> UpdateOutputValueEntry(av)
      [] info.val_type = "kBreakpointInstruction" -> UpdateBreakpointInstruction(av)
      [] OTHER -> {}

\* The call reaches the listener; the serial is that of the report told about.
Tell(serial, calls) ==
    IF calls = {} THEN UNCHANGED told
    ELSE \E call \in calls :
            told' = [told EXCEPT ![call.object] =
                        {[serial |-> serial, args |-> call.args]}]

-----------------------------------------------------------------------------
(* One round of the loop of AddAnyValues for a name that is not in the map. *)

\* The initial value is told ...
TellInitialValue(pair) ==
    /\ Tell(0, CreateCallback(InfoOf[pair.name], pair.value))
    /\ UNCHANGED <<m_cb_map, missed>>

\* ... before the callback is in the map.
AddCallback(pair) ==
    /\ m_cb_map' = [m_cb_map EXCEPT ![pair.name] = InfoOf[pair.name]]
    /\ UNCHANGED <<told, missed>>

\* The end of AddAnyValues.
TellNumberOfInstructions(list) ==
    LET n_instr == Cardinality({i \in DOMAIN list :
                      InfoOf[list[i].name].val_type = "kInstruction"})
    IN  /\ Tell(0, IF n_instr > 0
                   THEN {ListenerCall("InitNumberOfInstructions", 0, <<n_instr>>)}
                   ELSE {})
        /\ UNCHANGED <<m_cb_map, missed>>

\* UpdateAnyValue.
UpdateFound(name, serial, av) ==
    /\ m_cb_map[name] /= NoCallback
    /\ Tell(serial, CreateCallback(m_cb_map[name], av))
    /\ missed' = missed \ {name}
    /\ UNCHANGED m_cb_map

\* m_cb_map has no mutex: a find during an insertion has no defined outcome, and
\* it may miss a name that is there.  The initial value was told before.
UpdateMissed(name, serial, inserting) ==
    /\ inserting \/ m_cb_map[name] = NoCallback
    /\ missed' = IF serial = 0 THEN missed ELSE missed \cup {name}
    /\ UNCHANGED <<m_cb_map, told>>

=============================================================================
