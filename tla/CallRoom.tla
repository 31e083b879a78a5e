------------------------------- MODULE CallRoom -------------------------------
(***************************************************************************)
(* What roomManager.ts promises of one room id to those who call in it: the  *)
(* room is there, with a router, until the last participant has left, and    *)
(* participants come and go one at a time.  Room objects, sockets, awaits    *)
(* and the other rooms do not show.                                         *)
(***************************************************************************)
CONSTANT User  \* user ids

VARIABLES
    state,   \* "none", "open", or "dead" when the worker of the router died
    members  \* the participants

vars == <<state, members>>

Init == state = "none" /\ members = {}

\* The room is registered, empty.
Register == state = "none" /\ state' = "open" /\ UNCHANGED members

Enter(u) ==
    /\ state # "none"
    /\ members' = members \cup {u}
    /\ UNCHANGED state

\* Register and Enter, where a join is one step.
Found(u) == state = "none" /\ state' = "open" /\ members' = {u}

\* The last one out closes the room.
Leave(u) ==
    /\ state # "none"
    /\ members' = members \ {u}
    /\ state' = IF members' = {} THEN "none" ELSE state

Die == state = "open" /\ state' = "dead" /\ UNCHANGED members

Next ==
    \/ Register \/ Die
    \/ \E u \in User : Enter(u) \/ Found(u) \/ Leave(u)

Spec == Init /\ [][Next]_vars

=============================================================================
