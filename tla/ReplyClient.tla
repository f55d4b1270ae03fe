------------------------------ MODULE ReplyClient ------------------------------
(***************************************************************************)
(* What a client of an input server does with the values of the request    *)
(* variable, without threads and locks: it prompts for requests, one at a  *)
(* time, and sends the replies in the order they were made, except for     *)
(* those it drops because it saw the clearing of their request.            *)
(*                                                                         *)
(* A client is a record: the position of the value it saw last, whether it *)
(* prompts for it, and the replies that are not sent yet.                  *)
(***************************************************************************)
EXTENDS Naturals, Sequences

IsRequestAt(position) == position % 2 = 1
IdAt(position) == (position + 1) \div 2
Position(id) == 2 * id - 1

NewClient == [seen |-> 0, prompting |-> FALSE, pending |-> <<>>]

CanSee(client, position, shown) ==
    ~ client.prompting /\ position \in client.seen..shown
AfterSeeing(client, position) ==
    [client EXCEPT !.seen = position, !.prompting = IsRequestAt(position)]

CanAnswer(client, info) == client.prompting /\ info.id = IdAt(client.seen)
AfterAnswer(client, info) ==
    [client EXCEPT !.prompting = FALSE, !.pending = Append(@, info)]

CanSend(client) == client.pending /= <<>>
AfterSending(client) == [client EXCEPT !.pending = Tail(@)]

\* At most the first reply is kept: it may be on its way already.
CanDrop(client, kept) ==
    \A i \in (kept + 1)..Len(client.pending) :
        Position(client.pending[i].id) < client.seen
AfterDropping(client, kept) ==
    [client EXCEPT !.pending = SubSeq(@, 1, kept)]

=============================================================================
