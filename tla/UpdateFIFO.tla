------------------------------ MODULE UpdateFIFO ------------------------------
(***************************************************************************)
(* What the publishers of values rely on (IAnyValueManager::UpdateAnyValue *)
(* of epics/epics_anyvalue_manager.cpp): the updates of one EPICSServer    *)
(* are shown one by one, in the order they were made, and none is dropped. *)
(***************************************************************************)
EXTENDS Sequences

CONSTANTS Names, Values, Initial, NotServed

VARIABLES
    pending,    \* updates <<name, value>> not shown yet
    shown       \* [Names -> Values \cup {NotServed}]

vars == <<pending, shown>>

Init ==
    /\ pending = <<>>
    /\ shown = [n \in Names |-> NotServed]

\* All names are served at once, with their initial value.
Serve ==
    /\ \A n \in Names : shown[n] = NotServed
    /\ shown' = [n \in Names |-> Initial]
    /\ UNCHANGED pending

Update(n, v) ==
    /\ pending' = Append(pending, <<n, v>>)
    /\ UNCHANGED shown

Show ==
    /\ pending /= <<>>
    /\ \A n \in Names : shown[n] /= NotServed
    /\ shown' = [shown EXCEPT ![Head(pending)[1]] = Head(pending)[2]]
    /\ pending' = Tail(pending)

Next == Serve \/ Show \/ \E n \in Names, v \in Values : Update(n, v)

Spec == Init /\ [][Next]_vars

=============================================================================
