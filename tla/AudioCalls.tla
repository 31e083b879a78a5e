------------------------------ MODULE AudioCalls ------------------------------
(***************************************************************************)
(* The audio-calls service (sockets/callHandler.ts): which socket a user is  *)
(* registered with in the Redis hash audio:presence, and the calls that are  *)
(* rung, answered, cancelled and ended through it.                          *)
(*                                                                         *)
(* One process: its commands reach Redis, are executed and are answered in   *)
(* the order they were sent, so `commands` and `replies` are queues.         *)
(***************************************************************************)
EXTENDS Naturals, Sequences

CONSTANTS
    User, Sock,  \* user ids and socket ids; a reconnecting client gets a fresh one
    UserOf,      \* socket.data.userId
    NoSock,      \* hget answers null
    MaxCalls     \* bound on the calls ever initiated

ASSUME ConstantsAssumption ==
    /\ UserOf \in [Sock -> User] /\ NoSock \notin Sock /\ MaxCalls \in Nat

VARIABLES
    presence,  \* the hash audio:presence
    conn,      \* "new", "up", "leaving" (hget), "deleting" (hdel) or "gone"
    commands,  \* sent and not yet executed
    replies,   \* of hget, on their way back
    calls,     \* every call:initiate so far
    inCall     \* sockets in the Socket.IO room of each call
vars == <<presence, conn, commands, replies, calls, inCall>>

-----------------------------------------------------------------------------
\* Who waits for a hget: a disconnect handler (call 0) or that of a call.
Hget == [cmd : {"hget"}, sock : Sock, call : 0..MaxCalls]
Command == Hget \cup [cmd : {"hset"}, sock : Sock] \cup [cmd : {"hdel"}, sock : Sock]
Event == {"missed", "rejected", "completed"}

Call == [caller : Sock, callee : User,
         answer : {"none", "ringing", "failed"},  \* what the caller was sent
         rung : SUBSET Sock,                      \* sockets sent call:incoming
         online : SUBSET Sock,  \* history: registered sockets of the callee, up throughout
         gone : SUBSET Sock,    \* history: sockets cleaned up before the call
         left : BOOLEAN,        \* history: the socket hget answered left during the lookup
         published : SUBSET Event]

TypeOK ==
    /\ presence \in [User -> Sock \cup {NoSock}]
    /\ conn \in [Sock -> {"new", "up", "leaving", "deleting", "gone"}]
    /\ commands \in Seq(Command)
    /\ replies \in Seq([q : Hget, value : Sock \cup {NoSock}])
    /\ calls \in Seq(Call)
    /\ inCall \in [1..MaxCalls -> SUBSET Sock]

Init ==
    /\ presence = [u \in User |-> NoSock]
    /\ conn = [s \in Sock |-> "new"]
    /\ commands = <<>> /\ replies = <<>>
    /\ calls = <<>> /\ inCall = [r \in 1..MaxCalls |-> {}]

\* Mutants: the room's name without its prefix, and its name as a socket id.
SocketsNone(u) == {}
SocketsById(u) == {u}

\* The sockets in the room user:<u>.
Sockets(u) == {s \in Sock : UserOf[s] = u /\ conn[s] = "up"}

Send(command) == commands' = Append(commands, command)

-----------------------------------------------------------------------------
(* Presence *)

\* Mutant of Connect: the handlers are registered and the socket is not.
ConnectUnregistered(s) ==
    /\ conn[s] = "new"
    /\ conn' = [conn EXCEPT ![s] = "up"]
    /\ UNCHANGED <<presence, commands, replies, calls, inCall>>

\* registerCallHandlers: the hset is not awaited.
Connect(s) ==
    /\ conn[s] = "new"
    /\ conn' = [conn EXCEPT ![s] = "up"]
    /\ Send([cmd |-> "hset", sock |-> s])
    /\ UNCHANGED <<presence, replies, calls, inCall>>

Disconnect(s) ==
    /\ conn[s] = "up"
    /\ conn' = [conn EXCEPT ![s] = "leaving"]
    /\ inCall' = [r \in 1..MaxCalls |-> inCall[r] \ {s}]
    /\ Send([cmd |-> "hget", sock |-> s, call |-> 0])
    /\ UNCHANGED <<presence, replies, calls>>

\* Mutant: every socket but the registered one deletes the entry.
DeregisterInverted(s) ==
    /\ replies # <<>> /\ Head(replies).q.call = 0 /\ Head(replies).q.sock = s
    /\ replies' = Tail(replies)
    /\ IF Head(replies).value # s
       THEN /\ conn' = [conn EXCEPT ![s] = "deleting"]
            /\ Send([cmd |-> "hdel", sock |-> s])
       ELSE /\ conn' = [conn EXCEPT ![s] = "gone"]
            /\ UNCHANGED commands
    /\ UNCHANGED <<presence, calls, inCall>>

\* The rest of the disconnect handler.
Deregister(s) ==
    /\ replies # <<>> /\ Head(replies).q.call = 0 /\ Head(replies).q.sock = s
    /\ replies' = Tail(replies)
    /\ IF Head(replies).value = s
       THEN /\ conn' = [conn EXCEPT ![s] = "deleting"]
            /\ Send([cmd |-> "hdel", sock |-> s])
       ELSE /\ conn' = [conn EXCEPT ![s] = "gone"]
            /\ UNCHANGED commands
    /\ UNCHANGED <<presence, calls, inCall>>

\* Redis executes the oldest command.
Execute ==
    /\ commands # <<>>
    /\ commands' = Tail(commands)
    /\ LET c == Head(commands)
           u == UserOf[c.sock]
       IN  CASE c.cmd = "hset" ->
                    /\ presence' = [presence EXCEPT ![u] = c.sock]
                    /\ UNCHANGED <<conn, replies>>
             [] c.cmd = "hdel" ->
                    /\ presence' = [presence EXCEPT ![u] = NoSock]
                    /\ conn' = [conn EXCEPT ![c.sock] = "gone"]
                    /\ UNCHANGED replies
             [] OTHER ->
                    /\ replies' = Append(replies, [q |-> c,
                           value |-> presence[IF c.call = 0 THEN u ELSE calls[c.call].callee]])
                    /\ UNCHANGED <<presence, conn>>
    /\ UNCHANGED <<calls, inCall>>

-----------------------------------------------------------------------------
(* Calls *)

Initiate(s, v) ==
    /\ conn[s] = "up" /\ Len(calls) < MaxCalls
    /\ calls' = Append(calls, [caller |-> s, callee |-> v, answer |-> "none", rung |-> {},
                               online |-> {t \in Sockets(v) :
                                   \A i \in DOMAIN commands :
                                       commands[i] # [cmd |-> "hset", sock |-> t]},
                               gone |-> {t \in Sock : conn[t] = "gone"},
                               left |-> FALSE, published |-> {}])
    /\ Send([cmd |-> "hget", sock |-> s, call |-> Len(calls) + 1])
    /\ UNCHANGED <<presence, conn, replies, inCall>>

\* publishCallEvent swallows a missing or failing broker: the event may be lost.
Published(r, events) == {calls[r].published, calls[r].published \cup events}

\* The rest of call:initiate: every socket of the callee rings, or the caller
\* is told that it failed and the missed call goes to the queue.
Ring(r) ==
    LET registered == Head(replies).value
        v == calls[r].callee
    IN  /\ replies # <<>> /\ Head(replies).q.call = r
        /\ replies' = Tail(replies)
        /\ \E events \in Published(r, IF registered = NoSock THEN {"missed"} ELSE {}) :
             calls' = [calls EXCEPT ![r] = [calls[r] EXCEPT
                 !.answer = IF registered = NoSock THEN "failed" ELSE "ringing",
                 !.rung = IF registered = NoSock THEN {} ELSE Sockets(v),
                 !.online = calls[r].online \cap Sockets(v),
                 !.left = registered \notin calls[r].gone \cup {NoSock} /\ conn[registered] # "up",
                 !.published = events]]
        /\ UNCHANGED <<presence, conn, commands, inCall>>

\* call:accept by a device that rang; the caller has no handler to join by.
Accept(s, r) ==
    /\ conn[s] = "up" /\ s \in calls[r].rung
    /\ inCall' = [inCall EXCEPT ![r] = @ \cup {s}]
    /\ UNCHANGED <<presence, conn, commands, replies, calls>>

Publish(r, event) ==
    \E events \in Published(r, {event}) : calls' = [calls EXCEPT ![r].published = events]

Reject(s, r) ==
    /\ conn[s] = "up" /\ s \in calls[r].rung
    /\ Publish(r, "rejected")
    /\ UNCHANGED <<presence, conn, commands, replies, inCall>>

\* call:end by whoever knows the room: the caller that was told it rings, or a
\* device that rang.
End(s, r) ==
    /\ conn[s] = "up"
    /\ s \in calls[r].rung \/ (s = calls[r].caller /\ calls[r].answer = "ringing")
    /\ inCall' = [inCall EXCEPT ![r] = @ \ {s}]
    /\ Publish(r, "completed")
    /\ UNCHANGED <<presence, conn, commands, replies>>

Handler(s) ==
    \/ Connect(s) \/ Disconnect(s) \/ Deregister(s)
    \/ \E v \in User : Initiate(s, v)
    \/ \E r \in DOMAIN calls : Accept(s, r) \/ Reject(s, r) \/ End(s, r)

Next == Execute \/ (\E r \in DOMAIN calls : Ring(r)) \/ \E s \in Sock : Handler(s)

Spec == Init /\ [][Next]_vars

-----------------------------------------------------------------------------
(* Properties *)

\* A user is registered only with a socket that is connected or whose
\* disconnect handler has not finished: no entry outlives its socket, in
\* whatever order the handlers of the user's devices read and delete it.
EntryIsBacked ==
    \A u \in User : presence[u] # NoSock =>
        conn[presence[u]] \in {"up", "leaving", "deleting"}

\* A call that is answered call:ringing has rung on some device, unless the
\* socket the callee was registered with went while the call was looking it up
\* or was being cleaned up as it began (callHandler.ts:34 reads, awaits, rings).
RingingRingsSomewhere ==
    \A r \in DOMAIN calls :
        calls[r].answer = "ringing" => calls[r].rung # {} \/ calls[r].left

\* A call goes to the queue as missed although a socket of the callee was connected,
\* with its registration done, from call:initiate to the event only if another
\* device of the callee has been cleaned up: nothing but a disconnect handler takes
\* a reachable user out of the hash.  (It can: it deletes the one entry all devices
\* share, also when a newer device has set it since its hget.)
MissedNeedsDeparture ==
    \A r \in DOMAIN calls : "missed" \in calls[r].published =>
        calls[r].online = {} \/ \E t \in Sock : UserOf[t] = calls[r].callee /\ conn[t] = "gone"

=============================================================================
