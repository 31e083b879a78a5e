----------------------------- MODULE MCAccounts -----------------------------
(* An instance of Accounts for TLC: an account there before, and two         *)
(* identities to register that differ in the matricule alone.               *)
EXTENDS Accounts, TLC

CONSTANTS r1, r2, r3, old, n1, n2, m1, m2, m3, p1, p2

MCIdentity == {[name |-> n1, matricule |-> m1], [name |-> n2, matricule |-> m2],
               [name |-> n2, matricule |-> m3]}
MCSeedIdentity == [i \in Seed |-> [name |-> n1, matricule |-> m1]]
Symmetric == Permutations(Request) \cup Permutations(Password)

=============================================================================
