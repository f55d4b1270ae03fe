--------------------------- MODULE OutputEntryHelper ---------------------------
(***************************************************************************)
(* The entries a job writes (output_entry_types.h) and their AnyValues     *)
(* (base/output_entry_helper.cpp).  Decoding returns the set of the entry, *)
(* or nothing.                                                             *)
(***************************************************************************)
EXTENDS OacTreeProtocol

LogEntry(index, severity, message) ==
    [m_index |-> index, m_severity |-> severity, m_message |-> message]
MessageEntry(index, message) == [m_index |-> index, m_message |-> message]
OutputValueEntry(index, description, value) ==
    [m_index |-> index, m_description |-> description, m_value |-> value]

ValidateLogEntryAnyValue(av) ==
    /\ ValidateMemberType(av, "index", "uint64")
    /\ ValidateMemberType(av, "severity", "int32")
    /\ ValidateMemberType(av, "message", "string")
EncodeLogEntry(entry) ==
    [kLogEntryAnyValue EXCEPT !.index = UInt64(entry.m_index),
                              !.severity = Int32(entry.m_severity),
                              !.message = String(entry.m_message)]
DecodeLogEntry(av) ==
    IF ValidateLogEntryAnyValue(av)
    THEN {LogEntry(av.index.value, av.severity.value, av.message.value)}
    ELSE {}

ValidateMessageEntryAnyValue(av) ==
    /\ ValidateMemberType(av, "index", "uint64")
    /\ ValidateMemberType(av, "message", "string")
EncodeMessageEntry(entry) ==
    [kMessageEntryAnyValue EXCEPT !.index = UInt64(entry.m_index),
                                  !.message = String(entry.m_message)]
DecodeMessageEntry(av) ==
    IF ValidateMessageEntryAnyValue(av)
    THEN {MessageEntry(av.index.value, av.message.value)}
    ELSE {}

ValidateOutputValueEntryAnyValue(av) ==
    /\ ValidateMemberType(av, "index", "uint64")
    /\ ValidateMemberType(av, "description", "string")
    /\ HasField(av, "value")
EncodeOutputValueEntry(entry) ==
    [kOutputValueEntryAnyValue EXCEPT !.index = UInt64(entry.m_index),
                                      !.description = String(entry.m_description),
                                      !.value = entry.m_value]
DecodeOutputValueEntry(av) ==
    IF ValidateOutputValueEntryAnyValue(av)
    THEN {OutputValueEntry(av.index.value, av.description.value, av.value)}
    ELSE {}

=============================================================================
