------------------------------ MODULE MCJobMirror ------------------------------
(***************************************************************************)
(* One variable, one instruction, two reports: an index wraps after two.   *)
(***************************************************************************)
EXTENDS JobMirror

MCText == [n \in 0..1 |-> ToString(n)]
MCStoul == [t \in {"0", "1"} |-> IF t = "0" THEN 0 ELSE 1]
MCServerPrefix == <<"SRV">>

=============================================================================
