------------------------------- MODULE Presence -------------------------------
(***************************************************************************)
(* What the presence of the video-calls service promises to call:invite and *)
(* call:decline, which only ask whether a user id is a field of the Redis   *)
(* hash video:presence: a user who is served by some socket is a field.     *)
(***************************************************************************)
CONSTANTS User, Sock, UserOf

VARIABLES
    served,  \* connected sockets whose handlers are registered
    online   \* users call:invite and call:decline find in the hash

vars == <<served, online>>

Init ==
    /\ served = {}
    /\ online = {}

\* A socket is served only once its user is online.
Serve(s) ==
    /\ UserOf[s] \in online
    /\ served' = served \cup {s}
    /\ UNCHANGED online

Unserve(s) ==
    /\ served' = served \ {s}
    /\ UNCHANGED online

GoOnline(u) ==
    /\ online' = online \cup {u}
    /\ UNCHANGED served

\* A user goes offline only when no socket of the user is served.
GoOffline(u) ==
    /\ \A s \in served : UserOf[s] # u
    /\ online' = online \ {u}
    /\ UNCHANGED served

\* The process dies: none of its sockets is served any more.
Stop(S) ==
    /\ served' = served \ S
    /\ UNCHANGED online

Next ==
    \/ \E s \in Sock : Serve(s) \/ Unserve(s)
    \/ \E u \in User : GoOnline(u) \/ GoOffline(u)
    \/ \E S \in SUBSET Sock : Stop(S)

Spec == Init /\ [][Next]_vars

=============================================================================
