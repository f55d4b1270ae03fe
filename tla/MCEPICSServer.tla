----------------------------- MODULE MCEPICSServer -----------------------------
(***************************************************************************)
(* Two variables, two producers and three updates: enough for a batch that *)
(* is being processed while the next one is queued behind it.              *)
(***************************************************************************)
EXTENDS EPICSServer, TLC

CONSTANTS a, b, v0, v1, p1, p2

MCNames == {a, b}
MCValues == {v0, v1}
MCProducers == {p1, p2}

=============================================================================
