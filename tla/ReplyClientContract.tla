-------------------------- MODULE ReplyClientContract --------------------------
(***************************************************************************)
(* A client of an input server (ReplyClient.tla) and how it ends: once it  *)
(* is halted, it sends at most the reply on its way and one more.          *)
(***************************************************************************)
EXTENDS ReplyClient

CONSTANT ReplyInfos     \* the replies, each with the id of its request

VARIABLES
    shown,      \* position of the value the server shows
    client,     \* the client
    sent,       \* the replies it sent
    halted,     \* it is being destroyed
    left        \* how many replies it may still send then

vars == <<shown, client, sent, halted, left>>

Init ==
    /\ shown = 0
    /\ client = NewClient
    /\ sent = <<>>
    /\ halted = FALSE
    /\ left = 2

Show ==
    /\ shown' = shown + 1
    /\ UNCHANGED <<client, sent, halted, left>>

See ==
    /\ \E position \in 0..shown :
          /\ CanSee(client, position, shown)
          /\ client' = AfterSeeing(client, position)
    /\ UNCHANGED <<shown, sent, halted, left>>

Answer ==
    /\ \E info \in ReplyInfos :
          /\ CanAnswer(client, info)
          /\ client' = AfterAnswer(client, info)
    /\ UNCHANGED <<shown, sent, halted, left>>

Send ==
    /\ CanSend(client)
    /\ sent' = Append(sent, Head(client.pending))
    /\ client' = AfterSending(client)
    /\ halted => left > 0
    /\ left' = IF halted THEN left - 1 ELSE left
    /\ UNCHANGED <<shown, halted>>

Drop ==
    /\ \E kept \in 0..1 :
          /\ CanDrop(client, kept)
          /\ client' = AfterDropping(client, kept)
    /\ UNCHANGED <<shown, sent, halted, left>>
Halt ==
    /\ ~ halted
    /\ halted' = TRUE
    /\ left' \in 1..2
    /\ UNCHANGED <<shown, client, sent>>

Next == Show \/ See \/ Answer \/ Send \/ Drop \/ Halt

Spec == Init /\ [][Next]_vars

=============================================================================
