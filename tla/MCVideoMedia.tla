---------------------------- MODULE MCVideoMedia ----------------------------
(* An instance of VideoMedia for TLC: alice and bob in one room. *)
EXTENDS VideoMedia, TLC

CONSTANTS alice, bob

UserSymmetry == Permutations(User)

=============================================================================
