-------------------------- MODULE MCUserInputManager --------------------------
(***************************************************************************)
(* Small instances of UserInputManager.  s1 has two calls, which use its   *)
(* InputRequestServer one after the other; s2 has a call with the null id, *)
(* which WaitForReply does not wait for.                                   *)
(***************************************************************************)
EXTENDS UserInputManager, TLC

CONSTANTS s1, s2, r1, r2, h1, h2

MCServers == {s1, s2}
MCIds == {0, 1, 2}
MCReplies == {r1, r2}
MCHelpers == {h1, h2}
MCCalls == {<<s1, 1>>, <<s1, 2>>, <<s2, 0>>}
MCLivenessCalls == {<<s1, 1>>, <<s1, 2>>}
MCOneCall == {<<s1, 1>>}

Symmetry == Permutations(MCReplies) \cup Permutations(MCHelpers)

=============================================================================
