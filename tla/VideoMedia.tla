------------------------------ MODULE VideoMedia ------------------------------
(***************************************************************************)
(* The SFU side of a call room: the transports, producers and consumers     *)
(* that sockets/videoHandler.ts creates for the participants of             *)
(* mediasoup/roomManager.ts.  One room is modelled, for the maps of a room   *)
(* are its own; what two first joins do to the registry is in VideoRooms.    *)
(*                                                                         *)
(* Every request to the mediasoup worker is awaited, and the worker takes    *)
(* the requests of its channel one by one: `channel` holds those it has not  *)
(* answered, in order.  Whether a request can succeed is settled when it is  *)
(* sent; what its handler finds when it goes on is what others have made of  *)
(* the room meanwhile.                                                      *)
(***************************************************************************)
EXTENDS Naturals, Sequences

CONSTANTS
    User,             \* user ids, the keys of Room.participants
    MaxParticipants,  \* bounds on the objects that are ever made
    MaxTransports,
    MaxProducers,
    MaxConsumers,
    MaxRequests       \* bound on the requests under way

\* The bounds are numbers; no more is asked of them.
ASSUME BoundsAssumption ==
    /\ MaxParticipants \in Nat /\ MaxTransports \in Nat /\ MaxProducers \in Nat
    /\ MaxConsumers \in Nat /\ MaxRequests \in Nat

VARIABLES
    up,            \* the process has not died of an unhandled rejection
    room,          \* "none", "open", or "dead" when the router's worker died
    participants,  \* every Participant object ever made, oldest first
    member,        \* room.participants: user -> index of its object, or 0
    transports, producers, consumers,  \* every mediasoup object ever made
    channel,       \* unanswered requests of the worker's channel
    inRoom,        \* users whose socket is in the Socket.IO room
    left,          \* users whose socket has the room in its leftRooms
    known,         \* producers each user has been told of since it joined
    heard          \* last producer:paused / producer:resumed each user was sent

roomVars == <<room, participants, member>>
mediaVars == <<transports, producers, consumers>>
clientVars == <<inRoom, left, known, heard>>
vars == <<up, roomVars, mediaVars, channel, clientVars>>

-----------------------------------------------------------------------------
Direction == {"send", "recv"}
Participant == [user : User, send : 0..MaxTransports, recv : 0..MaxTransports,
                producers : SUBSET (1..MaxProducers),
                consumers : SUBSET (1..MaxConsumers),
                tidy : BOOLEAN]  \* history: no transport of it was lost sight of
Request ==
    [op : {"transport"}, p : 1..MaxParticipants, dir : Direction,
     live : BOOLEAN]  \* its router has not been closed since
        \cup [op : {"produce"}, p : 1..MaxParticipants, t : 1..MaxTransports]
        \cup [op : {"consume"}, p : 1..MaxParticipants, t : 1..MaxTransports,
              k : 1..MaxProducers]
        \cup [op : {"pause", "resume"}, p : 1..MaxParticipants, k : 1..MaxProducers]
        \cup [op : {"consumer"}, ok : BOOLEAN]
        \cup [op : {"closed"}, ks : SUBSET (1..MaxProducers)]

TypeOK ==
    /\ up \in BOOLEAN
    /\ room \in {"none", "open", "dead"}
    /\ participants \in Seq(Participant)
    /\ member \in [User -> 0..Len(participants)]
    /\ transports \in Seq([owner : User, open : BOOLEAN])
    /\ producers \in Seq([t : 1..MaxTransports, open : BOOLEAN, paused : BOOLEAN])
    /\ consumers \in Seq([t : 1..MaxTransports, k : 1..MaxProducers])
    /\ channel \in Seq(Request)
    /\ inRoom \subseteq User /\ left \subseteq User
    /\ known \in [User -> SUBSET (1..MaxProducers)]
    /\ heard \in [User -> [1..MaxProducers -> {"nothing", "pause", "resume"}]]

Nothing == [k \in 1..MaxProducers |-> "nothing"]

Init ==
    /\ up = TRUE /\ room = "none" /\ channel = <<>>
    /\ participants = <<>> /\ transports = <<>> /\ producers = <<>> /\ consumers = <<>>
    /\ member = [u \in User |-> 0]
    /\ inRoom = {} /\ left = {}
    /\ known = [u \in User |-> {}] /\ heard = [u \in User |-> Nothing]

-----------------------------------------------------------------------------
(* Closing                                                                  *)

Of(u) == participants[member[u]]
Members == {u \in User : member[u] # 0}
Listed(u) == UNION {Of(v).producers : v \in Members \ {u}}

\* The producers that close with the transports ts ('transportclose').
OnTransports(ts) == {k \in DOMAIN producers : producers[k].open /\ producers[k].t \in ts}

\* transport.close() and producer.close(): a producer leaves its participant's
\* map in its transportclose listener.
Close(ts, ks) ==
    /\ transports' = [t \in DOMAIN transports |->
           [transports[t] EXCEPT !.open = @ /\ t \notin ts]]
    /\ producers' = [k \in DOMAIN producers |->
           [producers[k] EXCEPT !.open = @ /\ k \notin ks]]

\* Mutant: no transportclose listener.
KeepListed(ks) == participants

Forgotten(ks) ==
    [p \in DOMAIN participants |-> [participants[p] EXCEPT !.producers = @ \ ks]]

\* The worker is asked to close the producers ks; it tells their consumers when
\* it comes to it.
TellClosed(ks) ==
    channel' = IF ks = {} THEN channel ELSE Append(channel, [op |-> "closed", ks |-> ks])

\* What a closed router still answers is dead on arrival.
RouterClosed ==
    [i \in DOMAIN channel |->
        IF channel[i].op = "transport" THEN [channel[i] EXCEPT !.live = FALSE]
        ELSE channel[i]]

-----------------------------------------------------------------------------
(* Joining and leaving                                                      *)

\* room:join from addParticipant on: a second join of a user replaces its
\* Participant object, whatever that holds.
Join(u) ==
    /\ up /\ Len(participants) < MaxParticipants
    /\ room' = IF room = "none" THEN "open" ELSE room
    /\ participants' = Append(
           [p \in DOMAIN participants |->
               [participants[p] EXCEPT !.tidy = @ /\ p # member[u]]],
           [user |-> u, send |-> 0, recv |-> 0, producers |-> {}, consumers |-> {},
            tidy |-> TRUE])
    /\ member' = [member EXCEPT ![u] = Len(participants) + 1]
    /\ inRoom' = inRoom \cup {u}
    /\ known' = [known EXCEPT ![u] = Listed(u)]
    /\ heard' = [heard EXCEPT ![u] = Nothing]
    /\ UNCHANGED <<up, mediaVars, channel, left>>

\* Mutant: only the send transport is closed.
RemoveForgetsRecv(u) ==
    LET last == Members = {u}
        ts == IF last THEN DOMAIN transports ELSE {Of(u).send}
        ks == Of(u).producers \cup OnTransports(ts)
    IN  /\ Close(ts, ks)
        /\ participants' = Forgotten(ks)
        /\ member' = [member EXCEPT ![u] = 0]
        /\ room' = IF last THEN "none" ELSE room
        /\ IF last
           THEN channel' = RouterClosed
           ELSE TellClosed(ks)

\* removeParticipant: the transports in the two slots, every listed producer,
\* and the router with all it carries once nobody is left.
RemoveParticipant(u) ==
    LET last == Members = {u}
        ts == IF last THEN DOMAIN transports ELSE {Of(u).send, Of(u).recv}
        ks == Of(u).producers \cup OnTransports(ts)
    IN  /\ Close(ts, ks)
        /\ participants' = Forgotten(ks)
        /\ member' = [member EXCEPT ![u] = 0]
        /\ room' = IF last THEN "none" ELSE room
        /\ IF last
           THEN channel' = RouterClosed
           ELSE TellClosed(ks)

\* room:leave and call:end.
Leave(u) ==
    /\ up /\ u \notin left
    /\ left' = left \cup {u}
    /\ inRoom' = inRoom \ {u}
    /\ IF member[u] # 0
       THEN RemoveParticipant(u)
       ELSE UNCHANGED <<roomVars, transports, producers, channel>>
    /\ UNCHANGED <<up, consumers, known, heard>>

\* The client's socket is replaced: a new one has an empty leftRooms and is in
\* no room; the disconnect handler has removed no participant.
Reconnect(u) ==
    /\ up /\ u \in left \cup inRoom
    /\ left' = left \ {u} /\ inRoom' = inRoom \ {u}
    /\ UNCHANGED <<up, roomVars, mediaVars, channel, known, heard>>

-----------------------------------------------------------------------------
(* Requests: a handler up to its await                                      *)

Send(request) ==
    /\ up /\ room = "open" /\ Len(channel) < MaxRequests
    /\ channel' = Append(channel, request)
    /\ UNCHANGED <<up, roomVars, mediaVars, clientVars>>

CreateTransport(u, dir) ==
    /\ member[u] # 0
    /\ Send([op |-> "transport", p |-> member[u], dir |-> dir, live |-> TRUE])

CreateProducer(u) ==
    /\ member[u] # 0 /\ Of(u).send # 0
    /\ Send([op |-> "produce", p |-> member[u], t |-> Of(u).send])

\* canConsume: the router has the producer.
CreateConsumer(u, k) ==
    /\ member[u] # 0 /\ Of(u).recv # 0
    /\ k \in known[u] /\ producers[k].open
    /\ Send([op |-> "consume", p |-> member[u], t |-> Of(u).recv, k |-> k])

\* producer:pause and producer:resume of a producer in the own map.
PauseProducer(u, k, op) ==
    /\ member[u] # 0 /\ k \in Of(u).producers
    /\ Send([op |-> op, p |-> member[u], k |-> k])

Alive(c) == transports[consumers[c].t].open /\ producers[consumers[c].k].open

\* consumer:resume and consumer:pause look the consumer up in the own map and
\* await without a try: once its worker is gone the call rejects at once.
PauseConsumer(u, c) ==
    /\ member[u] # 0 /\ c \in Of(u).consumers
    /\ \/ Send([op |-> "consumer", ok |-> Alive(c)])
       \/ /\ up /\ room = "dead"
          /\ up' = FALSE
          /\ UNCHANGED <<roomVars, mediaVars, channel, clientVars>>

-----------------------------------------------------------------------------
(* Answers: the rest of the handler that waits for the head of the channel   *)

Answer(op) ==
    /\ up /\ channel # <<>> /\ Head(channel).op \in op
    /\ channel' = Tail(channel)

\* The transport goes to the participant object read before the await, removed
\* or replaced as it may be, over the transport it holds.
TransportCreated ==
    LET r == Head(channel)
        p == participants[r.p]
        seen == p[r.dir] = 0 /\ member[p.user] = r.p
    IN  /\ Answer({"transport"}) /\ Len(transports) < MaxTransports
        /\ transports' = Append(transports, [owner |-> p.user, open |-> r.live])
        /\ participants' = [participants EXCEPT
               ![r.p] = [p EXCEPT ![r.dir] = Len(transports) + 1, !.tidy = p.tidy /\ seen]]
        /\ UNCHANGED <<up, room, member, producers, consumers, clientVars>>

\* Mutant: announced only while the own socket is still in the room.
ProducerAnnouncedInside ==
    LET r == Head(channel)
        k == Len(producers) + 1
        u == participants[r.p].user
    IN  /\ Answer({"produce"}) /\ Len(producers) < MaxProducers
        /\ producers' = Append(producers,
               [t |-> r.t, open |-> transports[r.t].open, paused |-> FALSE])
        /\ participants' = [participants EXCEPT ![r.p].producers = @ \cup {k}]
        /\ known' = [v \in User |->
               IF u \in inRoom /\ v \in inRoom \ {u} THEN known[v] \cup {k} ELSE known[v]]
        /\ UNCHANGED <<up, room, member, transports, consumers, inRoom, left, heard>>

\* The announcement goes to the Socket.IO room, wherever the own socket is.
ProducerCreated ==
    LET r == Head(channel)
        k == Len(producers) + 1
    IN  /\ Answer({"produce"}) /\ Len(producers) < MaxProducers
        /\ producers' = Append(producers,
               [t |-> r.t, open |-> transports[r.t].open, paused |-> FALSE])
        /\ participants' = [participants EXCEPT ![r.p].producers = @ \cup {k}]
        /\ known' = [v \in User |->
               IF v \in inRoom \ {participants[r.p].user} THEN known[v] \cup {k} ELSE known[v]]
        /\ UNCHANGED <<up, room, member, transports, consumers, inRoom, left, heard>>

ConsumerCreated ==
    LET r == Head(channel)
    IN  /\ Answer({"consume"}) /\ Len(consumers) < MaxConsumers
        /\ consumers' = Append(consumers, [t |-> r.t, k |-> r.k])
        /\ participants' = [participants EXCEPT
               ![r.p].consumers = @ \cup {Len(consumers) + 1}]
        /\ UNCHANGED <<up, room, member, transports, producers, clientVars>>

\* createWebRtcTransport, produce or consume rejects: the handler answers with
\* an error and has changed nothing.
Refused ==
    /\ Answer({"transport", "produce", "consume"})
    /\ UNCHANGED <<up, roomVars, mediaVars, clientVars>>

\* Mutant: the event carries another name than the handler's.
PausedMisnamed ==
    LET r == Head(channel)
    IN  /\ Answer({"pause", "resume"})
        /\ producers' = [producers EXCEPT ![r.k].paused = (r.op = "pause")]
        /\ heard' = [v \in User |->
               IF v \in inRoom \ {participants[r.p].user}
               THEN [heard[v] EXCEPT ![r.k] = "paused"] ELSE heard[v]]
        /\ UNCHANGED <<up, roomVars, transports, consumers, inRoom, left, known>>

\* Mutant: pause toggles.
PausedToggles ==
    LET r == Head(channel)
    IN  /\ Answer({"pause", "resume"})
        /\ producers' = [producers EXCEPT ![r.k].paused = ~@]
        /\ heard' = [v \in User |->
               IF v \in inRoom \ {participants[r.p].user}
               THEN [heard[v] EXCEPT ![r.k] = r.op] ELSE heard[v]]
        /\ UNCHANGED <<up, roomVars, transports, consumers, inRoom, left, known>>

ProducerPaused ==
    LET r == Head(channel)
    IN  /\ Answer({"pause", "resume"})
        /\ producers' = [producers EXCEPT ![r.k].paused = (r.op = "pause")]
        /\ heard' = [v \in User |->
               IF v \in inRoom \ {participants[r.p].user}
               THEN [heard[v] EXCEPT ![r.k] = r.op] ELSE heard[v]]
        /\ UNCHANGED <<up, roomVars, transports, consumers, inRoom, left, known>>

\* A consumer the worker no longer has makes the call reject, and no handler
\* catches it.
ConsumerPaused ==
    /\ Answer({"consumer"})
    /\ up' = Head(channel).ok
    /\ UNCHANGED <<roomVars, mediaVars, clientVars>>

\* Mutant: the consumer stays in the map.
ConsumersStay ==
    /\ Answer({"closed"})
    /\ UNCHANGED <<up, roomVars, mediaVars, clientVars>>

\* 'producerclose' at every consumer of the closed producers: it leaves its
\* participant's map, and its client is sent consumer:closed.
ConsumersClosed ==
    LET gone == {c \in DOMAIN consumers : consumers[c].k \in Head(channel).ks}
    IN  /\ Answer({"closed"})
        /\ participants' = [p \in DOMAIN participants |->
               [participants[p] EXCEPT !.consumers = @ \ gone]]
        /\ UNCHANGED <<up, room, member, mediaVars, clientVars>>

\* The worker dies: its router, transports and producers close, consumers only
\* see 'transportclose'; every awaited request rejects, and those of the
\* producer:pause ... consumer:resume handlers are caught by nobody.
WorkerDied ==
    LET ks == OnTransports(DOMAIN transports)
    IN  /\ up /\ room = "open"
        /\ room' = "dead"
        /\ Close(DOMAIN transports, ks)
        /\ participants' = Forgotten(ks)
        /\ up' = (\A i \in DOMAIN channel :
                     channel[i].op \notin {"pause", "resume", "consumer"})
        /\ channel' = <<>>
        /\ UNCHANGED <<member, consumers, clientVars>>

-----------------------------------------------------------------------------
ClientStep(u) ==
    \/ Join(u) \/ Leave(u) \/ Reconnect(u) \/ CreateProducer(u)
    \/ \E dir \in Direction : CreateTransport(u, dir)
    \/ \E k \in DOMAIN producers :
           \/ CreateConsumer(u, k)
           \/ \E op \in {"pause", "resume"} : PauseProducer(u, k, op)
    \/ \E c \in DOMAIN consumers : PauseConsumer(u, c)

WorkerStep ==
    \/ TransportCreated \/ ProducerCreated \/ ConsumerCreated \/ Refused
    \/ ProducerPaused \/ ConsumerPaused \/ ConsumersClosed \/ WorkerDied

Next == WorkerStep \/ \E u \in User : ClientStep(u)

Spec == Init /\ [][Next]_vars

-----------------------------------------------------------------------------
(* Properties *)

\* Whoever is in the room has been told of every producer the others have
\* there: by room:joined if it was made before the join, by room:new_producer
\* if its handler was still waiting (videoHandler.ts:240).
EveryProducerIsKnown == \A u \in inRoom : Listed(u) \subseteq known[u]

\* No participant lists a producer that is closed: a room:joined never offers
\* a joiner media that has died with its transport, its router or its worker.
ListedProducersAreOpen ==
    \A u \in Members : \A k \in Of(u).producers : producers[k].open

\* When the worker has answered everything, no participant of a live room has
\* a consumer left whose producer is closed, however the two were interleaved.
DrainedConsumersAreLive ==
    room = "open" /\ channel = <<>> =>
        \A u \in Members : \A c \in Of(u).consumers : producers[consumers[c].k].open

\* What a user in the room last heard of a producer, paused or resumed, is what
\* the worker last made of it, whoever else pauses and resumes meanwhile.
LastWordIsTrue ==
    \A u \in inRoom : \A k \in DOMAIN producers :
        \/ heard[u][k] = "nothing"
        \/ (heard[u][k] = "pause") = producers[k].paused

\* A participant that was never replaced, never had a transport overwritten and
\* was not removed while one was being made leaves no open transport and no
\* open producer behind (removeParticipant).
TidyLeaversLeaveNothing ==
    \A p \in DOMAIN participants :
        LET q == participants[p]
        IN  member[q.user] # p /\ q.tidy =>
                /\ \A t \in {q.send, q.recv} \cap DOMAIN transports : ~transports[t].open
                /\ \A k \in q.producers : ~producers[k].open

-----------------------------------------------------------------------------
(* The room of the registry *)

TheRoom == INSTANCE CallRoom WITH state <- room, members <- Members

\* Joins, leaves and the death of the worker are here what VideoRooms makes them
\* for a room, and no answer of the worker changes who is in it.
ImplementsCallRoom == TheRoom!Spec

=============================================================================
