----------------------------- MODULE MCJobControl -----------------------------
(***************************************************************************)
(* Two jobs of different sizes and an index beyond them; two users.        *)
(***************************************************************************)
EXTENDS JobControl

MCText == [n \in 0..3 |-> ToString(n)]
MCStoul == [t \in {"0", "1", "2", "3"} |-> CHOOSE n \in 0..3 : ToString(n) = t]
MCServerPrefix == <<"SRV">>
\* One procedure is in the directory, beside what is not one; the other is an
\* argument.
MCParse ==
    [path \in {<<"a", ".xml">>, <<"b", ".xml">>} |->
        IF path[1] = "a" THEN [n_vars |-> 1, n_instr |-> 1]
        ELSE [n_vars |-> 0, n_instr |-> 2]]
MCDirectory ==
    <<[path |-> <<"d", ".xml">>, is_regular_file |-> FALSE],
      [path |-> <<"a", ".xml">>, is_regular_file |-> TRUE],
      [path |-> <<"a", ".txt">>, is_regular_file |-> TRUE]>>
Files == INSTANCE ProcedureFiles WITH ParseProcedureFile <- MCParse
MCProcs == Files!GetProcedureList(MCDirectory, <<<<"b", ".xml">>>>)
MCCommands == {kStep, kTerminate}
\* No user differs from another.
Symmetry == Permutations(Clients)

=============================================================================
