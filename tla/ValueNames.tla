------------------------------- MODULE ValueNames -------------------------------
(***************************************************************************)
(* ParseValueName against the functions that make the names: every short   *)
(* sequence of tokens is built and parsed.                                 *)
(***************************************************************************)
EXTENDS OacTreeProtocol

CONSTANTS
    Tokens,     \* the tokens names are built of
    MaxLength   \* bound on the length of a name

VARIABLE val_name

NameInit == val_name = <<>>

\* Two texts of indices in a row would be the text of another index.
Extend(token) ==
    /\ Len(val_name) < MaxLength
    /\ val_name /= <<>> /\ token \in DOMAIN Stoul
          => Last(val_name) \notin DOMAIN Stoul
    /\ val_name' = Append(val_name, token)

NameNext == \E token \in Tokens : Extend(token)

NameSpec == NameInit /\ [][NameNext]_val_name

-----------------------------------------------------------------------------

Indices == {n \in DOMAIN Text : n <= MaxUInt32}

\* The names that a server gives to what the info identifies.
NameFor(prefix, info) ==
    CASE info.val_type = "kInstruction" -> GetInstructionPVName(prefix, info.idx)
      [] info.val_type = "kVariable" -> GetVariablePVName(prefix, info.idx)
      [] info.val_type = "kLogEntry" -> GetLogEntryName(prefix)
      [] info.val_type = "kMessageEntry" -> GetMessageEntryName(prefix)
      [] info.val_type = "kOutputValueEntry" -> GetOutputValueEntryName(prefix)
      [] info.val_type = "kJobStatus" -> GetJobStatePVName(prefix)
      [] info.val_type = "kBreakpointInstruction" ->
            GetBreakpointInstructionPVName(prefix)

Infos ==
    {ValueNameInfo(type, idx) :
        type \in {"kInstruction", "kVariable"}, idx \in Indices}
    \cup {ValueNameInfo(type, 0) :
             type \in ValueNameTypes \ {"kUnknown", "kInstruction", "kVariable"}}

\* The names of an input server and of its request variable.
InputNames(prefix) ==
    LET server_name == GetInputServerName(prefix)
    IN  {server_name, GetInputRequestPVName(server_name)}

\* ParseValueName inverts the functions that make names, and does nothing else:
\* it finds what a server named, with any prefix but the empty one, and takes
\* no other name for one a server made, whatever index text, dash or identifier
\* it contains; the names for the user input are none of a value.
ParseInvertsNaming ==
    LET prefixes == {SubSeq(val_name, 1, n) : n \in 1..Len(val_name)}
        named == {info \in Infos :
                     \E prefix \in prefixes : val_name = NameFor(prefix, info)}
    IN  /\ named = {ParseValueName(val_name)} \ {Unknown}
        /\ val_name \in UNION {InputNames(prefix) : prefix \in prefixes} =>
              named = {}

=============================================================================
