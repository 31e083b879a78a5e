------------------------------ MODULE VideoRooms ------------------------------
(***************************************************************************)
(* The room registry of the video-calls service (mediasoup/roomManager.ts)  *)
(* and the handlers of sockets/videoHandler.ts that change it: room:join,   *)
(* room:leave, call:end and disconnect.                                     *)
(*                                                                         *)
(* The service is one Node process: a handler runs without interruption    *)
(* from one `await` to the next, and at an `await` any other handler may    *)
(* run.  room:join awaits getOrCreateRoom, which awaits the mediasoup       *)
(* worker when it creates a router, so a join is up to three steps; the     *)
(* other handlers await nothing before they have changed all they change.   *)
(***************************************************************************)
EXTENDS Naturals, FiniteSets

CONSTANTS
    User,       \* user ids, the keys of Room.participants
    Sock,       \* socket ids; a client that reconnects gets a fresh one
    UserOf,     \* socket.data.userId, set once by socketAuthMiddleware
    Room,       \* room ids
    Obj,        \* identities of Room objects, each owning one router
    NoObj,      \* rooms.get(roomId) is undefined
    NoSock,     \* participants.get(userId) is undefined
    MaxPending  \* room:join handlers a socket may have suspended at once

ASSUME ConstantsAssumption ==
    /\ UserOf \in [Sock -> User]
    /\ NoObj \notin Obj
    /\ NoSock \notin Sock
    /\ MaxPending \in Nat

VARIABLES
    \* roomManager.ts
    rooms,         \* the registry: room id -> Room object or NoObj
    participants,  \* participants[o][u]: socketId of u's Participant in Room object o
    router,        \* state of the mediasoup router of every Room object
    \* videoHandler.ts, one closure per socket
    leftRooms,     \* the closure's leftRooms set
    joins,         \* suspended room:join handlers
    \* Socket.IO
    conn,          \* "new", "up" (handlers registered) or "down"
    sioRooms,      \* call rooms the socket is in (socket.rooms without its own ids)
    \* what the clients and the queue are told
    announced,     \* announced[s][r]: users announced to s as being in r
    published      \* published[s][r]: call.completed events s published for r

registryVars == <<rooms, participants, router>>
socketVars == <<conn, sioRooms, leftRooms>>
outputVars == <<announced, published>>
vars == <<registryVars, joins, socketVars, outputVars>>

-----------------------------------------------------------------------------
(* Types *)

RouterState == {"unborn", "creating", "open", "dead", "closed"}

\* A room:join handler at its await: "router" while createRouter runs, "add"
\* once getOrCreateRoom has its result and addParticipant is what comes next.
Join == [sock : Sock, room : Room, obj : Obj, at : {"router", "add"}]

TypeOK ==
    /\ rooms \in [Room -> Obj \cup {NoObj}]
    /\ participants \in [Obj -> [User -> Sock \cup {NoSock}]]
    /\ router \in [Obj -> RouterState]
    /\ leftRooms \in [Sock -> SUBSET Room]
    /\ joins \subseteq Join
    /\ conn \in [Sock -> {"new", "up", "down"}]
    /\ sioRooms \in [Sock -> SUBSET Room]
    /\ announced \in [Sock -> [Room -> SUBSET User]]
    /\ published \in [Sock -> [Room -> Nat]]

Init ==
    /\ rooms = [r \in Room |-> NoObj]
    /\ participants = [o \in Obj |-> [u \in User |-> NoSock]]
    /\ router = [o \in Obj |-> "unborn"]
    /\ leftRooms = [s \in Sock |-> {}]
    /\ joins = {}
    /\ conn = [s \in Sock |-> "new"]
    /\ sioRooms = [s \in Sock |-> {}]
    /\ announced = [s \in Sock |-> [r \in Room |-> {}]]
    /\ published = [s \in Sock |-> [r \in Room |-> 0]]

-----------------------------------------------------------------------------
(* roomManager.ts *)

\* Users with a Participant in the Room object o.
Members(o) == {u \in User : participants[o][u] # NoSock}

\* getRoomParticipants: of an unregistered room there are none.
RoomParticipants(r) == IF rooms[r] = NoObj THEN {} ELSE Members(rooms[r])

\* The entries of the users in gone are deleted; the last one out closes the
\* router and unregisters the room.
DeleteParticipants(r, gone, lastOut) ==
    \/ /\ rooms[r] = NoObj
       /\ UNCHANGED registryVars
    \/ /\ rooms[r] # NoObj
       /\ participants' = [participants EXCEPT ![rooms[r]] =
             [u \in User |-> IF u \in gone THEN NoSock ELSE @[u]]]
       /\ IF lastOut
          THEN /\ router' = [router EXCEPT ![rooms[r]] = "closed"]
               /\ rooms' = [rooms EXCEPT ![r] = NoObj]
          ELSE UNCHANGED <<router, rooms>>

\* Mutants of RemoveParticipant: the size is tested before the delete; the room
\* is closed with one participant left; the map is cleared for everybody.
RemoveTestsTooEarly(r, u) == DeleteParticipants(r, {u}, RoomParticipants(r) = {})
RemoveClosesTooEarly(r, u) ==
    DeleteParticipants(r, {u}, Cardinality(RoomParticipants(r) \ {u}) <= 1)
RemoveClearsAll(r, u) == DeleteParticipants(r, User, TRUE)

\* removeParticipant, by user and not by socket.  The room is closed whenever
\* nobody is left, the user having been there or not.
RemoveParticipant(r, u) ==
    DeleteParticipants(r, {u}, RoomParticipants(r) \subseteq {u})

-----------------------------------------------------------------------------
(* videoHandler.ts *)

Connect(s) ==
    /\ conn[s] = "new"
    /\ conn' = [conn EXCEPT ![s] = "up"]
    /\ UNCHANGED <<registryVars, joins, sioRooms, leftRooms, outputVars>>

Unborn == {o \in Obj : router[o] = "unborn"}

FreshObj == CHOOSE o \in Obj : router[o] = "unborn"

PendingJoins(s) == {j \in joins : j.sock = s}

\* room:join up to the await: getOrCreateRoom returns the registered room, or
\* asks a worker for the router of a new one.
JoinBegin(s, r) ==
    /\ conn[s] = "up"
    /\ Cardinality(PendingJoins(s)) < MaxPending
    /\ \/ /\ rooms[r] # NoObj
          /\ joins' = joins \cup
                {[sock |-> s, room |-> r, obj |-> rooms[r], at |-> "add"]}
          /\ UNCHANGED registryVars
       \/ /\ rooms[r] = NoObj
          /\ Unborn # {}
          /\ router' = [router EXCEPT ![FreshObj] = "creating"]
          /\ joins' = joins \cup
                {[sock |-> s, room |-> r, obj |-> FreshObj, at |-> "router"]}
          /\ UNCHANGED <<rooms, participants>>
    /\ UNCHANGED <<socketVars, outputVars>>

\* createRouter resolves: the new room is registered, whatever is registered
\* under its id by now.
RouterReady(j) ==
    /\ j.at = "router"
    /\ router' = [router EXCEPT ![j.obj] = "open"]
    /\ rooms' = [rooms EXCEPT ![j.room] = j.obj]
    /\ joins' = (joins \ {j}) \cup {[j EXCEPT !.at = "add"]}
    /\ UNCHANGED <<participants, socketVars, outputVars>>

\* createRouter rejects (its worker died) and there is no router: the handler's catch answers "error".
RouterFailed(j) ==
    /\ j.at = "router"
    /\ router' = [router EXCEPT ![j.obj] = "unborn"]
    /\ joins' = joins \ {j}
    /\ UNCHANGED <<rooms, participants, socketVars, outputVars>>

\* What s has been told of room r once it also hears of the users us.
Told(s, r, us) == [announced[s] EXCEPT ![r] = @ \cup us]

\* addParticipant(roomId, userId, socketId) on the room registered now, then
\* socket.join (which Socket.IO makes a no-op on a disconnected socket),
\* room:joined with the others in the room to the socket, and
\* room:participant_joined to every other socket in the room.
Admit(j, socketId, joined, others) ==
    /\ j.at = "add"
    /\ rooms[j.room] # NoObj
    /\ participants' = [participants EXCEPT ![rooms[j.room]][UserOf[j.sock]] = socketId]
    /\ sioRooms' = [sioRooms EXCEPT
          ![j.sock] = IF conn[j.sock] = "up" THEN @ \cup joined ELSE @]
    /\ announced' = [t \in Sock |->
          IF t = j.sock /\ conn[t] = "up"
          THEN Told(t, j.room, others)
          ELSE IF t # j.sock /\ j.room \in sioRooms[t]
          THEN Told(t, j.room, {UserOf[j.sock]})
          ELSE announced[t]]
    /\ joins' = joins \ {j}
    /\ UNCHANGED <<rooms, router, conn, leftRooms, published>>

OthersIn(o, j) == Members(o) \ {UserOf[j.sock]}

\* Mutants of JoinAdmitted: userId stored as socketId; no socket.join; the
\* participants are read off the room getOrCreateRoom returned.
AdmitSwapsIds(j) ==
    Admit(j, UserOf[j.sock], {j.room}, OthersIn(rooms[j.room], j))
AdmitWithoutJoin(j) == Admit(j, j.sock, {}, OthersIn(rooms[j.room], j))
AdmitStaleList(j) == Admit(j, j.sock, {j.room}, OthersIn(j.obj, j))

\* Both addParticipant and getRoomParticipants look the room up again by its
\* id: the participant joins the object registered now, not the one that
\* getOrCreateRoom returned to this handler.
JoinAdmitted(j) == Admit(j, j.sock, {j.room}, OthersIn(rooms[j.room], j))

\* addParticipant throws "Room not found": the room was closed meanwhile.
JoinRejected(j) ==
    /\ j.at = "add"
    /\ rooms[j.room] = NoObj
    /\ joins' = joins \ {j}
    /\ UNCHANGED <<registryVars, socketVars, outputVars>>

\* leaveRoom: removeParticipant, socket.leave, room:participant_left to the
\* other sockets of the room if a participant remains, call.completed to the
\* queue.  The leaving client drops all it knew of the room.
LeaveRoom(s, r) ==
    LET u == UserOf[s]
        remaining == RoomParticipants(r) \ {u}
    IN  /\ RemoveParticipant(r, u)
        /\ sioRooms' = [sioRooms EXCEPT ![s] = @ \ {r}]
        /\ announced' = [t \in Sock |->
              IF t = s
              THEN [announced[t] EXCEPT ![r] = {}]
              ELSE IF remaining # {} /\ r \in sioRooms[t]
              THEN [announced[t] EXCEPT ![r] = @ \ {u}]
              ELSE announced[t]]
        /\ published' = [published EXCEPT ![s][r] = @ + 1]

\* What room:leave and call:end do; alone, the mutant of LeaveOnce that has
\* lost the guard against a double leave.
Leave(s, r) ==
    /\ conn[s] = "up"
    /\ leftRooms' = [leftRooms EXCEPT ![s] = @ \cup {r}]
    /\ LeaveRoom(s, r)
    /\ UNCHANGED <<conn, joins>>

\* The common body of room:leave and call:end.  leftRooms is never cleared, not
\* even when the socket joins the room again.
LeaveOnce(s, r) ==
    /\ r \notin leftRooms[s]
    /\ Leave(s, r)

RoomLeave(s, r) == LeaveOnce(s, r)

CallEnd(s, r) == LeaveOnce(s, r)

\* The disconnect handler ranges over a snapshot of socket.rooms.  Socket.IO
\* has left every room when it emits "disconnect" (they are still there at
\* "disconnecting"), so the snapshot is empty and no room is left.
Disconnect(s) ==
    /\ conn[s] = "up"
    /\ conn' = [conn EXCEPT ![s] = "down"]
    /\ sioRooms' = [sioRooms EXCEPT ![s] = {}]
    /\ announced' = [announced EXCEPT ![s] = [r \in Room |-> {}]]
    /\ UNCHANGED <<registryVars, joins, leftRooms, published>>

\* A mediasoup worker process dies and takes its routers with it.  Nothing in
\* roomManager.ts listens: the rooms stay registered.
WorkerDied(D) ==
    /\ D # {}
    /\ \A o \in D : router[o] = "open"
    /\ router' = [o \in Obj |-> IF o \in D THEN "dead" ELSE router[o]]
    /\ UNCHANGED <<rooms, participants, joins, socketVars, outputVars>>

-----------------------------------------------------------------------------

SocketStep(s) ==
    \/ Connect(s)
    \/ Disconnect(s)
    \/ \E r \in Room : JoinBegin(s, r) \/ RoomLeave(s, r) \/ CallEnd(s, r)

RouterAnswer(j) == RouterReady(j) \/ RouterFailed(j)

JoinFinish(j) == JoinAdmitted(j) \/ JoinRejected(j)

Next ==
    \/ \E s \in Sock : SocketStep(s)
    \/ \E j \in joins : RouterAnswer(j) \/ JoinFinish(j)
    \/ \E D \in SUBSET Obj : WorkerDied(D)

Spec == Init /\ [][Next]_vars

-----------------------------------------------------------------------------
(* What must hold *)

\* getRoom never returns a room whose router the service has closed, or has not
\* got from its worker: whoever finds a room can ask its router for transports,
\* unless the worker itself has died.
RegisteredRoomHasRouter ==
    \A r \in Room : rooms[r] # NoObj => router[rooms[r]] \in {"open", "dead"}

\* removeParticipant closes a router only under an empty room, and no suspended
\* join resumes into the closed one: nobody sits in a room without a router.
NobodyInClosedRoom ==
    \A o \in Obj : router[o] = "closed" => Members(o) = {}

\* An empty room is registered only between rooms.set and addParticipant of a
\* join that is still to come: no leave leaves an empty room (and its router)
\* behind.
EmptyRoomIsBeingJoined ==
    \A r \in Room : rooms[r] # NoObj /\ RoomParticipants(r) = {} =>
        \E j \in joins : j.room = r /\ j.at = "add"

\* A participant whose socket is connected is in the Socket.IO room, so it gets
\* participant_joined, participant_left and the relayed WebRTC messages.
MembersHearTheRoom ==
    \A r \in Room : rooms[r] # NoObj =>
        \A u \in RoomParticipants(r) :
            LET s == participants[rooms[r]][u]
            IN  conn[s] = "up" => r \in sioRooms[s]

\* Every socket in the Socket.IO room of a call, whichever Room object its own
\* participant is in, has been told of every participant of the registered Room,
\* by room:joined or room:participant_joined, with no room:participant_left since:
\* however joins, leaves and the creation of the room interleave, nobody can be
\* found in a call without those who hear it knowing.  (Not the converse: who is
\* in an object that was replaced is known to nobody who joins after that, see
\* OneRouterPerRoom.)
MembersAreKnown ==
    \A r \in Room, s \in Sock : r \in sioRooms[s] =>
        \A v \in RoomParticipants(r) \ {UserOf[s]} : v \in announced[s][r]

\* A socket reports a room as completed at most once, whichever of room:leave
\* and call:end it sends and however often.
CompletedOnce ==
    \A s \in Sock, r \in Room : published[s][r] <= 1

\* A participant disappears from a Room object only when a socket of the same
\* user leaves: no other user's leave, join or disconnect evicts it.
EvictedOnlyByOwnLeave ==
    [][\A o \in Obj, u \in User :
          participants[o][u] # NoSock /\ participants'[o][u] = NoSock =>
              \E s \in Sock : UserOf[s] = u /\ leftRooms'[s] # leftRooms[s]]_vars

-----------------------------------------------------------------------------
(* What the registry promises of a room *)

\* The room as getRoom finds it, and its router.
StateOf(r) == IF rooms[r] = NoObj THEN "none" ELSE router[rooms[r]]

RoomOf(r) == INSTANCE CallRoom WITH state <- StateOf(r), members <- RoomParticipants(r)

\* The second of two first joins that overlapped puts its own Room in the place of
\* the one that was registered while it awaited its router.
RegisteredOver(r) == rooms[r] # NoObj /\ rooms'[r] \notin {rooms[r], NoObj}

\* But for that one step, in which the room loses everybody, each room id is a
\* CallRoom: it is registered when there is none, stays until its last participant
\* has left, participants come and go one at a time, and whatever handlers are
\* suspended, what they do to another room, to an object that is not registered or
\* before their await does not show.
ImplementsCallRoom ==
    /\ \A r \in Room : RoomOf(r)!Init
    /\ [][\A r \in Room : RegisteredOver(r) \/ [RoomOf(r)!Next]_(RoomOf(r)!vars)]_vars

-----------------------------------------------------------------------------
(* What the repository's comments say and the code does not do *)

\* videoHandler.ts:128, in the disconnect handler: "Clean up only call rooms".
\* A socket that has disconnected is no participant of any room, once no join
\* of its own is pending.
DisconnectCleansUp ==
    \A s \in Sock, r \in Room :
        conn[s] = "down" /\ PendingJoins(s) = {} /\ rooms[r] # NoObj =>
            participants[rooms[r]][UserOf[s]] # s

\* workerPool.ts:80: "Create a new Mediasoup Router (one per room)".  Whoever is a
\* participant is so in the Room, and on the router, that its room id finds.
OneRouterPerRoom ==
    \A o \in Obj : Members(o) # {} => \E r \in Room : rooms[r] = o

\* videoHandler.ts:16: "Track which rooms this socket has already left".  A
\* room in leftRooms is one the socket is not in.
LeftMeansLeft ==
    \A s \in Sock : \A r \in leftRooms[s] :
        rooms[r] # NoObj => participants[rooms[r]][UserOf[s]] # s

=============================================================================
