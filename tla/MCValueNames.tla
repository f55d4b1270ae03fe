------------------------------ MODULE MCValueNames ------------------------------
(***************************************************************************)
(* Names of up to five tokens: the identifiers, a prefix, and texts that   *)
(* stoul reads, one of them beyond the largest index, one with a leading   *)
(* zero and one with a letter after the number.                            *)
(***************************************************************************)
EXTENDS ValueNames

MCText == [n \in 0..2 |-> ToString(n)]
MCStoul == [t \in {"0", "1", "2", "01", "1x"} |->
               CASE t = "0" -> 0 [] t = "2" -> 2 [] OTHER -> 1]
MCTokens == {"-", "INSTR", "VAR", "BP", "LOG", "STATE", "INPUT", "REQ", "JOB:"} \cup DOMAIN MCStoul

=============================================================================
