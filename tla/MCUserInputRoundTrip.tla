------------------------- MODULE MCUserInputRoundTrip -------------------------
(***************************************************************************)
(* A value, then a choice; two users, one of whom need not answer.         *)
(***************************************************************************)
EXTENDS UserInputRoundTrip

MCText == [n \in 0..0 |-> "0"]
MCStoul == [t \in {"0"} |-> 0]

\* A number of another type fits into the value, which keeps its type; a text
\* does not.
MCValueTypes == {"uint64", "string"}
MCAssignedType ==
    [types \in {<<"uint32", "uint32">>, <<"uint32", "uint64">>} |-> types[1]]

=============================================================================
