----------------------------- MODULE MCDirectory -----------------------------
(* An instance of Directory for TLC. *)
EXTENDS Directory, TLC

CONSTANTS alice, bob

\* Nobody, the callee, both, somebody twice, somebody unknown.
MCLists == {<<>>, <<bob>>, <<alice, bob>>, <<bob, bob>>, <<bob, Stranger>>}
RequestSymmetry == Permutations(Request)

=============================================================================
