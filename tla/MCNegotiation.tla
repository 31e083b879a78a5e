---------------------------- MODULE MCNegotiation ----------------------------
(* An instance of Negotiation for TLC: alice waits in the room, bob joins. *)
EXTENDS Negotiation

CONSTANTS alice, bob

=============================================================================
