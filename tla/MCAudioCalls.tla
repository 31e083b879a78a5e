---------------------------- MODULE MCAudioCalls ----------------------------
(* An instance of AudioCalls for TLC: alice calls bob, who has two devices. *)
EXTENDS AudioCalls

CONSTANTS alice, bob, a1, b1, b2

MCUserOf == [s \in Sock |-> IF s = a1 THEN alice ELSE bob]

=============================================================================
