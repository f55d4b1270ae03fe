------------------------ MODULE MCAnyValueRegistration ------------------------
(***************************************************************************)
(* Two threads and the lists that make every kind of refusal possible: one *)
(* that overlaps another, one with a duplicate and one that takes the name *)
(* of the request variable of i1.                                          *)
(***************************************************************************)
EXTENDS AnyValueRegistration, TLC

CONSTANTS a, b, c, q1, q2, i1, i2, t1, t2

MCThreads == {t1, t2}
MCNames == {a, b, c, q1, q2}
MCInputServers == {i1, i2}
MCRequestName == (i1 :> q1 @@ i2 :> q2)
MCNameLists == {<<a, b>>, <<c, b>>, <<c, c>>, <<q1>>}

Symmetry == Permutations(MCThreads)

=============================================================================
