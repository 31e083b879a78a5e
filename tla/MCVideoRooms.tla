---------------------------- MODULE MCVideoRooms ----------------------------
(* An instance of VideoRooms for TLC: alice with two devices, and bob. *)
EXTENDS VideoRooms

CONSTANTS alice, bob, a1, a2, b1

MCUserOf == [s \in Sock |-> IF s = b1 THEN bob ELSE alice]

=============================================================================
