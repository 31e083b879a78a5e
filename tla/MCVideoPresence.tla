--------------------------- MODULE MCVideoPresence ---------------------------
(* An instance of VideoPresence for TLC. *)
EXTENDS VideoPresence

CONSTANTS alice, bob, a1, a2, a3, b1, n1

MCUserOf == [s \in Sock |-> IF s = b1 THEN bob ELSE alice]

MCNodeOf == [s \in Sock |-> n1]

=============================================================================
