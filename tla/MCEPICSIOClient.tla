---------------------------- MODULE MCEPICSIOClient ----------------------------
(***************************************************************************)
(* Two requests and five monitor events: a request may be delivered twice, *)
(* skipped, or answered after the server cleared it.                       *)
(***************************************************************************)
EXTENDS EPICSIOClient

=============================================================================
