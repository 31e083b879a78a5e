----------------------------- MODULE VideoPresence -----------------------------
(***************************************************************************)
(* The presence the video-calls service keeps in Redis (src/server.ts):     *)
(* the set video:presence:<userId> of the user's sockets and the hash       *)
(* video:presence with a field per online user.                             *)
(*                                                                         *)
(* Every process of the service has one Redis connection (packages/redis):  *)
(* commands are executed in the order they are sent and replies come back   *)
(* in that order.  A handler sends its next command when it gets the reply  *)
(* to the last one, so handlers of different sockets interleave command by  *)
(* command, and those of different processes interleave freely.             *)
(***************************************************************************)
EXTENDS Naturals, Sequences

CONSTANTS
    User,      \* user ids
    Sock,      \* socket ids; a reconnecting client gets a fresh one
    UserOf,    \* socket.data.userId
    Node,      \* processes of the service, sharing Redis and the adapter
    NodeOf,    \* the process a socket is connected to
    MayCrash   \* whether a process may die and be started again

ASSUME ConstantsAssumption ==
    /\ UserOf \in [Sock -> User]
    /\ NodeOf \in [Sock -> Node]
    /\ MayCrash \in BOOLEAN

VARIABLES
    sets,      \* sets[u]: the Redis set video:presence:<u>
    hash,      \* fields of the Redis hash video:presence
    pc,        \* where the handlers of a socket are
    connected, \* sockets whose connection is up, and so in their user's room
    requests,  \* commands sent by a process and not yet executed
    replies,   \* replies on their way to a process
    crashed    \* whether some process has died

redisVars == <<sets, hash>>
socketVars == <<pc, connected>>
wireVars == <<requests, replies>>
vars == <<redisVars, socketVars, wireVars, crashed>>

-----------------------------------------------------------------------------
(* Types *)

Command == {"sadd", "hset", "srem", "scard", "hdel"}

Request == [sock : Sock, cmd : Command]

\* empty: what scard counted is 0; FALSE in the replies nobody looks at.
Reply == [sock : Sock, cmd : Command, empty : BOOLEAN]

\* adding, setting: the connection handler awaits sadd, hset; ready: the
\* handlers are registered; removing, counting, deleting: the disconnect
\* handler awaits srem, scard, hdel.
Place == {"new", "adding", "setting", "ready",
          "removing", "counting", "deleting", "gone"}

TypeOK ==
    /\ sets \in [User -> SUBSET Sock]
    /\ hash \subseteq User
    /\ pc \in [Sock -> Place]
    /\ connected \subseteq Sock
    /\ requests \in [Node -> Seq(Request)]
    /\ replies \in [Node -> Seq(Reply)]
    /\ crashed \in BOOLEAN

Init ==
    /\ sets = [u \in User |-> {}]
    /\ hash = {}
    /\ pc = [s \in Sock |-> "new"]
    /\ connected = {}
    /\ requests = [n \in Node |-> <<>>]
    /\ replies = [n \in Node |-> <<>>]
    /\ crashed = FALSE

-----------------------------------------------------------------------------
(* Redis, one command at a time *)

Send(s, cmd) ==
    requests' = [requests EXCEPT
        ![NodeOf[s]] = Append(@, [sock |-> s, cmd |-> cmd])]

\* Mutant of SetsAfter: sadd of the user id instead of the socket id.
SetsAfterSwapped(s, cmd) ==
    [sets EXCEPT ![UserOf[s]] =
        CASE cmd = "sadd" -> @ \cup {UserOf[s]}
          [] cmd = "srem" -> @ \ {s}
          [] OTHER -> @]

\* What a command of socket s does: the set and the hash after it.
SetsAfter(s, cmd) ==
    [sets EXCEPT ![UserOf[s]] =
        CASE cmd = "sadd" -> @ \cup {s}
          [] cmd = "srem" -> @ \ {s}
          [] OTHER -> @]

HashAfter(s, cmd) ==
    CASE cmd = "hset" -> hash \cup {UserOf[s]}
      [] cmd = "hdel" -> hash \ {UserOf[s]}
      [] OTHER -> hash

RedisExec(n) ==
    /\ requests[n] # <<>>
    /\ LET q == Head(requests[n])
       IN  /\ sets' = SetsAfter(q.sock, q.cmd)
           /\ hash' = HashAfter(q.sock, q.cmd)
           /\ replies' = [replies EXCEPT ![n] = Append(@,
                 [sock |-> q.sock, cmd |-> q.cmd,
                  empty |-> q.cmd = "scard" /\ sets[UserOf[q.sock]] = {}])]
    /\ requests' = [requests EXCEPT ![n] = Tail(@)]
    /\ UNCHANGED <<socketVars, crashed>>

-----------------------------------------------------------------------------
(* server.ts *)

\* The connection handler up to its first await: socket.join(userId), sadd.
Connect(s) ==
    /\ pc[s] = "new"
    /\ pc' = [pc EXCEPT ![s] = "adding"]
    /\ connected' = connected \cup {s}
    /\ Send(s, "sadd")
    /\ UNCHANGED <<redisVars, replies, crashed>>

\* The connection is lost.  Until the handlers are registered nobody listens
\* for the disconnect event; afterwards the presence handler sends srem.
Disconnect(s) ==
    /\ s \in connected
    /\ connected' = connected \ {s}
    /\ \/ /\ pc[s] \in {"adding", "setting"}
          /\ UNCHANGED <<pc, requests>>
       \/ /\ pc[s] = "ready"
          /\ pc' = [pc EXCEPT ![s] = "removing"]
          /\ Send(s, "srem")
    /\ UNCHANGED <<redisVars, replies, crashed>>

\* The reply at the head of the replies to process n resumes its handler at
\* the place next, which sends cmd or nothing.
Answered(n, cmd) ==
    /\ replies[n] # <<>>
    /\ Head(replies[n]).cmd = cmd

Resume(n, next) ==
    /\ pc' = [pc EXCEPT ![Head(replies[n]).sock] = next]
    /\ replies' = [replies EXCEPT ![n] = Tail(@)]
    /\ UNCHANGED <<redisVars, connected, crashed>>

\* Mutant of SaddDone: the handlers are registered without awaiting hset.
SaddDoneHasty(n) ==
    /\ Answered(n, "sadd")
    /\ Resume(n, "ready")
    /\ Send(Head(replies[n]).sock, "hset")

SaddDone(n) ==
    /\ Answered(n, "sadd")
    /\ Resume(n, "setting")
    /\ Send(Head(replies[n]).sock, "hset")

\* The disconnect handlers are registered, on a dead socket too.
HsetDone(n) ==
    /\ Answered(n, "hset")
    /\ Resume(n, "ready")
    /\ UNCHANGED requests

\* Mutant of SremDone: the user is deleted without counting the sockets left.
SremDoneUncounted(n) ==
    /\ Answered(n, "srem")
    /\ Resume(n, "deleting")
    /\ Send(Head(replies[n]).sock, "hdel")

SremDone(n) ==
    /\ Answered(n, "srem")
    /\ Resume(n, "counting")
    /\ Send(Head(replies[n]).sock, "scard")

\* Mutants of ScardDone: the user is deleted if sockets remain, and only then;
\* the user is never deleted.
ScardDoneInverted(n) ==
    /\ Answered(n, "scard")
    /\ \/ /\ ~Head(replies[n]).empty
          /\ Resume(n, "deleting")
          /\ Send(Head(replies[n]).sock, "hdel")
       \/ /\ Head(replies[n]).empty
          /\ Resume(n, "gone")
          /\ UNCHANGED requests
ScardDoneNoDelete(n) ==
    /\ Answered(n, "scard")
    /\ Resume(n, "gone")
    /\ UNCHANGED requests

ScardDone(n) ==
    /\ Answered(n, "scard")
    /\ \/ /\ Head(replies[n]).empty
          /\ Resume(n, "deleting")
          /\ Send(Head(replies[n]).sock, "hdel")
       \/ /\ ~Head(replies[n]).empty
          /\ Resume(n, "gone")
          /\ UNCHANGED requests

HdelDone(n) ==
    /\ Answered(n, "hdel")
    /\ Resume(n, "gone")
    /\ UNCHANGED requests

\* A process dies with its sockets, its handlers and what it had not sent;
\* Redis keeps what was executed.  Clients come back on fresh sockets.
Crash(n) ==
    LET S == {s \in Sock : NodeOf[s] = n /\ pc[s] \notin {"new", "gone"}}
    IN  /\ MayCrash
        /\ S # {}
        /\ pc' = [s \in Sock |-> IF s \in S THEN "gone" ELSE pc[s]]
        /\ connected' = connected \ S
        /\ requests' = [requests EXCEPT ![n] = <<>>]
        /\ replies' = [replies EXCEPT ![n] = <<>>]
        /\ crashed' = TRUE
        /\ UNCHANGED redisVars

-----------------------------------------------------------------------------

HandleReply(n) ==
    SaddDone(n) \/ HsetDone(n) \/ SremDone(n) \/ ScardDone(n) \/ HdelDone(n)

Next ==
    \/ \E s \in Sock : Connect(s) \/ Disconnect(s)
    \/ \E n \in Node : RedisExec(n) \/ HandleReply(n) \/ Crash(n)

Spec == Init /\ [][Next]_vars

\* Redis executes what it is sent, and Node runs the continuation of a reply.
Fairness ==
    \A n \in Node : WF_vars(RedisExec(n)) /\ WF_vars(HandleReply(n))

FairSpec == Spec /\ Fairness

-----------------------------------------------------------------------------
(* What must hold *)

\* Connected sockets whose handlers are registered.
Served == {s \in connected : pc[s] = "ready"}

\* With one process: a user with a served socket is online, so no call:invite
\* to a reachable callee is answered call:callee_offline, however the handlers
\* of the user's sockets interleave, and after a crash too.
NoFalseOffline ==
    \A s \in Served : UserOf[s] \in hash

\* A served socket is counted, so the departure of another socket of the user
\* does not find the set empty.
ServedIsCounted ==
    \A s \in Served : s \in sets[UserOf[s]]

\* The sockets of u on their way out.
Departing(u) ==
    {s \in Sock : UserOf[s] = u /\ pc[s] \in {"removing", "counting", "deleting"}}

\* Short of a crash, a user is online only while the set holds a socket or a
\* departure that will notice its emptiness is under way.
OnlineIsBacked ==
    ~crashed => \A u \in hash : sets[u] # {} \/ Departing(u) # {}

\* All connections of u that were ever up were lost with handlers in place.
AllLeft(u) ==
    \A s \in Sock : UserOf[s] = u =>
        pc[s] \in {"new", "removing", "counting", "deleting", "gone"}

\* The last socket of a user to go takes the user offline, whichever order
\* the sockets go in and whatever the others' handlers have got to.
LastOneOutGoesOffline ==
    \A u \in User :
        (AllLeft(u) /\ ~crashed) ~> (u \notin hash \/ ~AllLeft(u) \/ crashed)

\* One process implements the presence call:invite relies on.
Promise == INSTANCE Presence WITH served <- Served, online <- hash

ImplementsPresence == Promise!Spec

=============================================================================
