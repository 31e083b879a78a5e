--------------------------- MODULE VideoRoomsProofs ---------------------------
(***************************************************************************)
(* Proofs about the room registry, for any users, sockets, rooms and any    *)
(* supply of Room objects: that what is registered, who is in it, what the   *)
(* clients hear and what they were told agree, and that every room id is a   *)
(* CallRoom.                                                                *)
(***************************************************************************)
EXTENDS VideoRooms, TLAPS

\* The fresh Room object is one that was never used.
LEMMA FreshObjUnborn ==
    ASSUME Unborn # {}
    PROVE  FreshObj \in Obj /\ router[FreshObj] = "unborn"
  BY DEF Unborn, FreshObj

RegistryType ==
    /\ rooms \in [Room -> Obj \cup {NoObj}]
    /\ participants \in [Obj -> [User -> Sock \cup {NoSock}]]
    /\ router \in [Obj -> RouterState]

\* removeParticipant deletes one entry of one Room object, and closes that
\* object exactly when no other entry is in it.
LEMMA RemoveEffect ==
    ASSUME RegistryType, NEW r \in Room, NEW u \in User, RemoveParticipant(r, u)
    PROVE  /\ RegistryType'
           /\ \A o \in Obj, v \in User :
                 participants'[o][v] =
                     IF o = rooms[r] /\ v = u THEN NoSock ELSE participants[o][v]
           /\ \/ /\ rooms' = rooms
                 /\ router' = router
                 /\ rooms[r] # NoObj => RoomParticipants(r) \ {u} # {}
              \/ /\ rooms[r] # NoObj
                 /\ rooms' = [rooms EXCEPT ![r] = NoObj]
                 /\ router' = [router EXCEPT ![rooms[r]] = "closed"]
                 /\ RoomParticipants(r) \ {u} = {}
<1> USE ConstantsAssumption DEF RegistryType
<1>1. CASE rooms[r] = NoObj
  BY <1>1 DEF RemoveParticipant, DeleteParticipants, registryVars
<1>2. CASE rooms[r] # NoObj
  <2>1. PICK o \in Obj : o = rooms[r]
    BY <1>2
  <2>2. participants' = [participants EXCEPT ![o] =
            [v \in User |-> IF v = u THEN NoSock ELSE @[v]]]
    BY <1>2, <2>1 DEF RemoveParticipant, DeleteParticipants
  <2>3. /\ participants' \in [Obj -> [User -> Sock \cup {NoSock}]]
        /\ \A p \in Obj, v \in User :
              participants'[p][v] =
                  IF p = o /\ v = u THEN NoSock ELSE participants[p][v]
    BY <2>2
  <2>4. CASE RoomParticipants(r) \subseteq {u}
    <3>1. /\ rooms' = [rooms EXCEPT ![r] = NoObj]
          /\ router' = [router EXCEPT ![o] = "closed"]
      BY <1>2, <2>1, <2>4 DEF RemoveParticipant, DeleteParticipants
    <3>2. router' \in [Obj -> RouterState]
      BY <3>1 DEF RouterState
    <3> QED
      BY <1>2, <2>1, <2>3, <2>4, <3>1, <3>2
  <2>5. CASE ~(RoomParticipants(r) \subseteq {u})
    <3>1. UNCHANGED <<router, rooms>>
      BY <1>2, <2>5 DEF RemoveParticipant, DeleteParticipants
    <3> QED
      BY <1>2, <2>1, <2>3, <2>5, <3>1
  <2> QED
    BY <2>4, <2>5
<1> QED
  BY <1>1, <1>2

-----------------------------------------------------------------------------
(* Types *)

\* Every variable keeps its type: in particular a participant entry always
\* holds the socket id room:join was called with.
THEOREM TypeCorrect == Spec => []TypeOK
<1> USE ConstantsAssumption
<1>1. Init => TypeOK
  BY DEF Init, TypeOK, RouterState
<1>2. TypeOK /\ [Next]_vars => TypeOK'
  <2> SUFFICES ASSUME TypeOK, [Next]_vars PROVE TypeOK'
    OBVIOUS
  <2>1. ASSUME NEW s \in Sock, Connect(s) PROVE TypeOK'
    BY <2>1 DEF TypeOK, Connect, registryVars, outputVars
  <2>2. ASSUME NEW s \in Sock, Disconnect(s) PROVE TypeOK'
    BY <2>2 DEF TypeOK, Disconnect, registryVars
  <2>3. ASSUME NEW s \in Sock, NEW r \in Room, JoinBegin(s, r) PROVE TypeOK'
    <3>1. CASE rooms[r] # NoObj
      <4>1. [sock |-> s, room |-> r, obj |-> rooms[r], at |-> "add"] \in Join
        BY <3>1 DEF TypeOK, Join
      <4> QED
        BY <2>3, <3>1, <4>1
           DEF TypeOK, JoinBegin, registryVars, socketVars, outputVars
    <3>2. CASE rooms[r] = NoObj
      <4>1. PICK o \in Obj : o = FreshObj
        BY <2>3, <3>2, FreshObjUnborn DEF JoinBegin
      <4>2. [sock |-> s, room |-> r, obj |-> o, at |-> "router"] \in Join
        BY DEF Join
      <4>3. /\ router' = [router EXCEPT ![o] = "creating"]
            /\ joins' = joins \cup
                  {[sock |-> s, room |-> r, obj |-> o, at |-> "router"]}
            /\ UNCHANGED <<rooms, participants, socketVars, outputVars>>
        BY <2>3, <3>2, <4>1 DEF JoinBegin
      <4>4. router' \in [Obj -> RouterState]
        BY <4>3 DEF TypeOK, RouterState
      <4> QED
        BY <4>2, <4>3, <4>4 DEF TypeOK, socketVars, outputVars
    <3> QED BY <3>1, <3>2
  <2>4. ASSUME NEW s \in Sock, NEW r \in Room, LeaveOnce(s, r) PROVE TypeOK'
    <3>1. RegistryType'
      BY <2>4, RemoveEffect DEF TypeOK, RegistryType, LeaveOnce, Leave, LeaveRoom
    <3>2. UNCHANGED <<conn, joins>>
      BY <2>4 DEF LeaveOnce, Leave
    <3>3. leftRooms' \in [Sock -> SUBSET Room] /\ sioRooms' \in [Sock -> SUBSET Room]
      BY <2>4 DEF TypeOK, LeaveOnce, Leave, LeaveRoom
    <3>4. announced' \in [Sock -> [Room -> SUBSET User]]
      BY <2>4 DEF TypeOK, LeaveOnce, Leave, LeaveRoom
    <3>5. published' \in [Sock -> [Room -> Nat]]
      BY <2>4 DEF TypeOK, LeaveOnce, Leave, LeaveRoom
    <3> QED
      BY <3>1, <3>2, <3>3, <3>4, <3>5 DEF TypeOK, RegistryType
  <2>5. ASSUME NEW j \in joins, RouterAnswer(j) PROVE TypeOK'
    BY <2>5 DEF TypeOK, RouterAnswer, RouterReady, RouterFailed, Join, RouterState,
                socketVars, outputVars
  <2>6. ASSUME NEW j \in joins, JoinAdmitted(j) PROVE TypeOK'
    BY <2>6 DEF TypeOK, JoinAdmitted, Admit, OthersIn, Members, Told, Join
  <2>7. ASSUME NEW j \in joins, JoinRejected(j) PROVE TypeOK'
    BY <2>7 DEF TypeOK, JoinRejected, registryVars, socketVars, outputVars
  <2>8. ASSUME NEW D \in SUBSET Obj, WorkerDied(D) PROVE TypeOK'
    BY <2>8 DEF TypeOK, WorkerDied, RouterState, socketVars, outputVars
  <2>9. CASE UNCHANGED vars
    BY <2>9 DEF TypeOK, vars, registryVars, socketVars, outputVars
  <2> QED
    BY <2>1, <2>2, <2>3, <2>4, <2>5, <2>6, <2>7, <2>8, <2>9
       DEF Next, SocketStep, RoomLeave, CallEnd, JoinFinish
<1> QED
  BY <1>1, <1>2, PTL DEF Spec

-----------------------------------------------------------------------------
(* The registry and the routers *)

\* Every suspended creation owns the one object it is creating.
CreatorsOwn ==
    /\ \A j \in joins : j.at = "router" => router[j.obj] = "creating"
    /\ \A j, k \in joins :
          j.at = "router" /\ k.at = "router" /\ j.obj = k.obj => j = k

\* No object is registered under two room ids.
RegisteredOnce ==
    \A r, q \in Room : rooms[r] # NoObj /\ rooms[r] = rooms[q] => r = q

\* An object gets its participants while it is registered, and the last one
\* has left when its router is closed.
OnlyRegisteredFill ==
    \A o \in Obj, u \in User :
        router[o] \in {"unborn", "creating", "closed"} => participants[o][u] = NoSock

RegistryInv ==
    /\ TypeOK
    /\ CreatorsOwn
    /\ RegisteredRoomHasRouter
    /\ RegisteredOnce
    /\ OnlyRegisteredFill

\* What a leave does, in the terms of RemoveEffect.
LEMMA LeaveEffect ==
    ASSUME TypeOK, NEW s \in Sock, NEW r \in Room, LeaveOnce(s, r)
    PROVE  /\ \A o \in Obj, v \in User :
                 participants'[o][v] =
                     IF o = rooms[r] /\ v = UserOf[s]
                     THEN NoSock ELSE participants[o][v]
           /\ \/ /\ rooms' = rooms
                 /\ router' = router
                 /\ rooms[r] # NoObj => RoomParticipants(r) \ {UserOf[s]} # {}
              \/ /\ rooms[r] # NoObj
                 /\ rooms' = [rooms EXCEPT ![r] = NoObj]
                 /\ router' = [router EXCEPT ![rooms[r]] = "closed"]
                 /\ RoomParticipants(r) \ {UserOf[s]} = {}
           /\ r \notin leftRooms[s]
           /\ leftRooms' = [leftRooms EXCEPT ![s] = @ \cup {r}]
           /\ sioRooms' = [sioRooms EXCEPT ![s] = @ \ {r}]
           /\ published' = [published EXCEPT ![s][r] = @ + 1]
           /\ \A t \in Sock, q \in Room :
                 /\ q # r => announced'[t][q] = announced[t][q]
                 /\ t # s => announced[t][q] \ {UserOf[s]} \subseteq announced'[t][q]
           /\ UNCHANGED <<conn, joins>>
<1> USE ConstantsAssumption
<1>1. RemoveParticipant(r, UserOf[s]) /\ RegistryType
  BY DEF LeaveOnce, Leave, LeaveRoom, TypeOK, RegistryType
<1>2. \A t \in Sock, q \in Room :
         /\ q # r => announced'[t][q] = announced[t][q]
         /\ t # s => announced[t][q] \ {UserOf[s]} \subseteq announced'[t][q]
  BY DEF LeaveOnce, Leave, LeaveRoom, TypeOK
<1>3. /\ r \notin leftRooms[s]
      /\ leftRooms' = [leftRooms EXCEPT ![s] = @ \cup {r}]
      /\ sioRooms' = [sioRooms EXCEPT ![s] = @ \ {r}]
      /\ published' = [published EXCEPT ![s][r] = @ + 1]
      /\ UNCHANGED <<conn, joins>>
  BY DEF LeaveOnce, Leave, LeaveRoom
<1> QED
  BY <1>1, <1>2, <1>3, RemoveEffect

\* What completing a join does, in the same terms.
LEMMA AdmitEffect ==
    ASSUME TypeOK, NEW j \in joins, JoinAdmitted(j)
    PROVE  /\ j.sock \in Sock /\ j.room \in Room /\ j.obj \in Obj
           /\ j.at = "add"
           /\ rooms[j.room] \in Obj
           /\ \A o \in Obj, v \in User :
                 participants'[o][v] =
                     IF o = rooms[j.room] /\ v = UserOf[j.sock]
                     THEN j.sock ELSE participants[o][v]
           /\ \A t \in Sock : sioRooms[t] \subseteq sioRooms'[t]
           /\ \A t \in Sock : t # j.sock \/ conn[t] # "up" => sioRooms'[t] = sioRooms[t]
           /\ \A t \in Sock : sioRooms'[t] \subseteq sioRooms[t] \cup {j.room}
           /\ conn[j.sock] = "up" => j.room \in sioRooms'[j.sock]
           /\ \A t \in Sock, q \in Room : announced[t][q] \subseteq announced'[t][q]
           /\ conn[j.sock] = "up" =>
                 RoomParticipants(j.room) \ {UserOf[j.sock]}
                     \subseteq announced'[j.sock][j.room]
           /\ \A t \in Sock : t # j.sock /\ j.room \in sioRooms[t] =>
                 UserOf[j.sock] \in announced'[t][j.room]
           /\ joins' = joins \ {j}
           /\ UNCHANGED <<rooms, router, conn, leftRooms, published>>
<1> USE ConstantsAssumption
<1>1. /\ j.sock \in Sock /\ j.room \in Room /\ j.obj \in Obj
      /\ j.at = "add"
      /\ rooms[j.room] \in Obj
      /\ joins' = joins \ {j}
      /\ UNCHANGED <<rooms, router, conn, leftRooms, published>>
  BY DEF JoinAdmitted, Admit, TypeOK, Join
<1>2. \A o \in Obj, v \in User :
         participants'[o][v] =
             IF o = rooms[j.room] /\ v = UserOf[j.sock]
             THEN j.sock ELSE participants[o][v]
  BY <1>1 DEF JoinAdmitted, Admit, TypeOK
<1>3. /\ \A t \in Sock : sioRooms[t] \subseteq sioRooms'[t]
      /\ \A t \in Sock : t # j.sock \/ conn[t] # "up" => sioRooms'[t] = sioRooms[t]
      /\ \A t \in Sock : sioRooms'[t] \subseteq sioRooms[t] \cup {j.room}
      /\ conn[j.sock] = "up" => j.room \in sioRooms'[j.sock]
  BY <1>1 DEF JoinAdmitted, Admit, TypeOK
<1>4. \A t \in Sock : announced'[t] =
         IF t = j.sock /\ conn[t] = "up"
         THEN [announced[t] EXCEPT
                  ![j.room] = @ \cup (RoomParticipants(j.room) \ {UserOf[j.sock]})]
         ELSE IF t # j.sock /\ j.room \in sioRooms[t]
         THEN [announced[t] EXCEPT ![j.room] = @ \cup {UserOf[j.sock]}]
         ELSE announced[t]
  BY DEF JoinAdmitted, Admit, OthersIn, Told, RoomParticipants
<1>5. announced \in [Sock -> [Room -> SUBSET User]]
  BY DEF TypeOK
<1>6. \A t \in Sock, q \in Room : announced[t][q] \subseteq announced'[t][q]
  BY ZenonT(60), <1>1, <1>4, <1>5
<1>7. conn[j.sock] = "up" =>
         RoomParticipants(j.room) \ {UserOf[j.sock]}
             \subseteq announced'[j.sock][j.room]
  BY ZenonT(60), <1>1, <1>4, <1>5
<1>8. \A t \in Sock : t # j.sock /\ j.room \in sioRooms[t] =>
         UserOf[j.sock] \in announced'[t][j.room]
  BY ZenonT(60), <1>1, <1>4, <1>5
<1> QED
  BY <1>1, <1>2, <1>3, <1>6, <1>7, <1>8

LEMMA RegistryInit == Init => RegistryInv
<1> SUFFICES ASSUME Init PROVE RegistryInv
  OBVIOUS
<1>1. TypeOK
  BY ConstantsAssumption DEF Init, TypeOK, RouterState
<1> QED
  BY <1>1 DEF Init, RegistryInv, CreatorsOwn, RegisteredRoomHasRouter, RegisteredOnce,
              OnlyRegisteredFill

LEMMA RegistryStep == RegistryInv /\ TypeOK' /\ [Next]_vars => RegistryInv'
<1> USE ConstantsAssumption
<1> SUFFICES ASSUME RegistryInv, TypeOK', [Next]_vars PROVE RegistryInv'
  OBVIOUS
<1> USE DEF RegistryInv
<1>1. ASSUME UNCHANGED <<registryVars, joins>> PROVE RegistryInv'
  BY <1>1 DEF registryVars, CreatorsOwn, RegisteredRoomHasRouter, RegisteredOnce,
              OnlyRegisteredFill
<1>2. ASSUME NEW s \in Sock, NEW r \in Room, JoinBegin(s, r) PROVE RegistryInv'
  <2>1. CASE rooms[r] # NoObj
    <3>1. /\ UNCHANGED registryVars
          /\ joins' = joins \cup
                {[sock |-> s, room |-> r, obj |-> rooms[r], at |-> "add"]}
      BY <1>2, <2>1 DEF JoinBegin
    <3> QED
      BY <3>1 DEF registryVars, CreatorsOwn, RegisteredRoomHasRouter, RegisteredOnce,
                  OnlyRegisteredFill
  <2>2. CASE rooms[r] = NoObj
    <3>1. PICK o \in Obj : o = FreshObj /\ router[o] = "unborn"
      BY <1>2, <2>2, FreshObjUnborn DEF JoinBegin
    <3>2. /\ router' = [router EXCEPT ![o] = "creating"]
          /\ joins' = joins \cup
                {[sock |-> s, room |-> r, obj |-> o, at |-> "router"]}
          /\ UNCHANGED <<rooms, participants>>
      BY <1>2, <2>2, <3>1 DEF JoinBegin
    <3>3. /\ router'[o] = "creating"
          /\ \A p \in Obj : p # o => router'[p] = router[p]
      BY <3>2 DEF TypeOK
    <3>4. CreatorsOwn'
      BY <3>1, <3>2, <3>3 DEF CreatorsOwn, TypeOK, Join
    <3>5. RegisteredRoomHasRouter' /\ RegisteredOnce'
      BY <3>1, <3>2, <3>3 DEF RegisteredRoomHasRouter, RegisteredOnce, TypeOK
    <3>6. OnlyRegisteredFill'
      BY <3>1, <3>2, <3>3 DEF OnlyRegisteredFill
    <3> QED
      BY <3>4, <3>5, <3>6
  <2> QED
    BY <2>1, <2>2
<1>3. ASSUME NEW s \in Sock, NEW r \in Room, LeaveOnce(s, r) PROVE RegistryInv'
  <2>1. CASE rooms' = rooms /\ router' = router
    BY <1>3, <2>1, LeaveEffect
       DEF CreatorsOwn, RegisteredRoomHasRouter, RegisteredOnce, OnlyRegisteredFill
  <2>2. CASE ~(rooms' = rooms /\ router' = router)
    <3>1. PICK o \in Obj : o = rooms[r]
      BY <1>3, <2>2, LeaveEffect DEF TypeOK
    <3>2. /\ rooms' = [rooms EXCEPT ![r] = NoObj]
          /\ router' = [router EXCEPT ![o] = "closed"]
          /\ \A v \in User : participants'[o][v] = NoSock
          /\ \A p \in Obj, v \in User :
                p # o => participants'[p][v] = participants[p][v]
          /\ joins' = joins
      BY <1>3, <2>2, <3>1, LeaveEffect DEF RoomParticipants, Members
    <3>3. router[o] \in {"open", "dead"}
      BY <3>1 DEF RegisteredRoomHasRouter, TypeOK
    <3>4. CreatorsOwn'
      BY <3>2, <3>3 DEF CreatorsOwn, TypeOK, Join
    <3>5. RegisteredRoomHasRouter' /\ RegisteredOnce'
      BY <3>1, <3>2 DEF RegisteredRoomHasRouter, RegisteredOnce, TypeOK
    <3>6. OnlyRegisteredFill'
      BY <3>2 DEF OnlyRegisteredFill, TypeOK
    <3> QED
      BY <3>4, <3>5, <3>6
  <2> QED
    BY <2>1, <2>2
<1>4. ASSUME NEW j \in joins, RouterReady(j) PROVE RegistryInv'
  <2>1. /\ j.at = "router" /\ j.obj \in Obj /\ j.room \in Room
        /\ router[j.obj] = "creating"
        /\ router' = [router EXCEPT ![j.obj] = "open"]
        /\ rooms' = [rooms EXCEPT ![j.room] = j.obj]
        /\ joins' = (joins \ {j}) \cup {[j EXCEPT !.at = "add"]}
        /\ participants' = participants
    BY <1>4 DEF RouterReady, CreatorsOwn, TypeOK, Join
  <2>2. ASSUME NEW q \in Room, rooms[q] = j.obj PROVE FALSE
    <3>1. rooms[q] # NoObj
      BY <2>1, <2>2
    <3>2. router[j.obj] \in {"open", "dead"}
      BY <2>2, <3>1 DEF RegisteredRoomHasRouter
    <3> QED
      BY <2>1, <3>2
  <2>3. CreatorsOwn'
    BY <2>1 DEF CreatorsOwn, TypeOK, Join
  <2>4. RegisteredRoomHasRouter' /\ RegisteredOnce'
    BY <2>1, <2>2 DEF RegisteredRoomHasRouter, RegisteredOnce, TypeOK
  <2>5. OnlyRegisteredFill'
    BY <2>1 DEF OnlyRegisteredFill, TypeOK
  <2> QED
    BY <2>3, <2>4, <2>5
<1>5. ASSUME NEW j \in joins, RouterFailed(j) PROVE RegistryInv'
  <2>1. /\ j.at = "router" /\ j.obj \in Obj
        /\ router[j.obj] = "creating"
        /\ router' = [router EXCEPT ![j.obj] = "unborn"]
        /\ joins' = joins \ {j}
        /\ UNCHANGED <<rooms, participants>>
    BY <1>5 DEF RouterFailed, CreatorsOwn, TypeOK, Join
  <2>2. CreatorsOwn'
    BY <2>1 DEF CreatorsOwn, TypeOK, Join
  <2>3. RegisteredRoomHasRouter' /\ RegisteredOnce' /\ OnlyRegisteredFill'
    BY <2>1 DEF RegisteredRoomHasRouter, RegisteredOnce, OnlyRegisteredFill, TypeOK
  <2> QED
    BY <2>2, <2>3
<1>6. ASSUME NEW j \in joins, JoinAdmitted(j) PROVE RegistryInv'
  <2>1. router[rooms[j.room]] \in {"open", "dead"}
    BY <1>6, AdmitEffect DEF RegisteredRoomHasRouter, TypeOK
  <2>2. OnlyRegisteredFill'
    BY <1>6, <2>1, AdmitEffect DEF OnlyRegisteredFill
  <2> QED
    BY <1>6, <2>2, AdmitEffect
       DEF CreatorsOwn, RegisteredRoomHasRouter, RegisteredOnce, TypeOK
<1>7. ASSUME NEW j \in joins, JoinRejected(j) PROVE RegistryInv'
  BY <1>7 DEF JoinRejected, registryVars, CreatorsOwn, RegisteredRoomHasRouter,
              RegisteredOnce, OnlyRegisteredFill
<1>8. ASSUME NEW D \in SUBSET Obj, WorkerDied(D) PROVE RegistryInv'
  <2>1. \A o \in Obj : router'[o] = router[o] \/ (router[o] = "open" /\ router'[o] = "dead")
    BY <1>8 DEF WorkerDied
  <2>2. UNCHANGED <<rooms, participants, joins>>
    BY <1>8 DEF WorkerDied
  <2> QED
    BY <2>1, <2>2 DEF CreatorsOwn, RegisteredRoomHasRouter, RegisteredOnce,
                      OnlyRegisteredFill, TypeOK, Join
<1>9. ASSUME NEW s \in Sock, Connect(s) \/ Disconnect(s) PROVE RegistryInv'
  BY <1>1, <1>9 DEF Connect, Disconnect
<1> QED
  BY <1>1, <1>2, <1>3, <1>4, <1>5, <1>6, <1>7, <1>8, <1>9
     DEF Next, SocketStep, RoomLeave, CallEnd, RouterAnswer, JoinFinish, vars

\* A registered room has the router it was created with, which the service has
\* not closed.
THEOREM RegistryHasRouters == Spec => []RegisteredRoomHasRouter
<1>1. RegistryInv => RegisteredRoomHasRouter
  BY DEF RegistryInv
<1> QED
  BY <1>1, RegistryInit, RegistryStep, TypeCorrect, PTL DEF Spec

\* Nobody is a participant of a room whose router the service has closed.
THEOREM ClosedRoomsAreEmpty == Spec => []NobodyInClosedRoom
<1>1. RegistryInv => NobodyInClosedRoom
  BY DEF RegistryInv, OnlyRegisteredFill, NobodyInClosedRoom, Members
<1> QED
  BY <1>1, RegistryInit, RegistryStep, TypeCorrect, PTL DEF Spec

-----------------------------------------------------------------------------
(* The participants and what they are told *)

\* An entry is the entry of its socket's user.
EntryOfUser ==
    \A o \in Obj, u \in User :
        participants[o][u] # NoSock => UserOf[participants[o][u]] = u

\* A socket that has not connected yet has no join pending and no entry.
NewcomersAbsent ==
    /\ \A j \in joins : conn[j.sock] # "new"
    /\ \A o \in Obj, u \in User :
          participants[o][u] # NoSock => conn[participants[o][u]] # "new"

\* Only a connected socket is in a Socket.IO room.
UpInRooms == \A s \in Sock : conn[s] # "up" => sioRooms[s] = {}

\* A socket reports nothing before it has left.
NotYetCompleted ==
    \A s \in Sock, r \in Room : r \notin leftRooms[s] => published[s][r] = 0

RoomInv ==
    /\ RegistryInv
    /\ EntryOfUser
    /\ NewcomersAbsent
    /\ EmptyRoomIsBeingJoined
    /\ MembersHearTheRoom
    /\ UpInRooms
    /\ MembersAreKnown
    /\ NotYetCompleted
    /\ CompletedOnce

LEMMA RoomInit == Init => RoomInv
<1> SUFFICES ASSUME Init PROVE RoomInv
  OBVIOUS
<1> QED
  BY RegistryInit DEF Init, RoomInv, EntryOfUser, NewcomersAbsent, EmptyRoomIsBeingJoined,
     MembersHearTheRoom, UpInRooms, MembersAreKnown, NotYetCompleted, CompletedOnce

\* A step that leaves every registered room that has members as it is, and the
\* connected participants with all they hear and know.
LEMMA QuietStep ==
    ASSUME RoomInv, RegistryInv',
           UNCHANGED <<participants, leftRooms, published>>,
           \A r \in Room : rooms'[r] # rooms[r] =>
               /\ rooms'[r] \in Obj
               /\ \A u \in User : participants[rooms'[r]][u] = NoSock
               /\ \E j \in joins' : j.room = r /\ j.at = "add",
           \A j \in joins : j.at = "add" => j \in joins' \/ rooms'[j.room] = NoObj,
           \A j \in joins' : conn'[j.sock] # "new",
           \A s \in Sock : conn[s] # "new" => conn'[s] # "new",
           \A s \in Sock : conn[s] # "new" /\ conn'[s] = "up" =>
               /\ conn[s] = "up"
               /\ sioRooms'[s] = sioRooms[s]
               /\ announced'[s] = announced[s],
           \A s \in Sock :
               /\ sioRooms'[s] \subseteq sioRooms[s]
               /\ conn'[s] # "up" => conn[s] # "up" \/ sioRooms'[s] = {}
               /\ sioRooms'[s] # {} => announced'[s] = announced[s]
    PROVE  RoomInv'
<1> USE ConstantsAssumption
<1>1. TypeOK /\ TypeOK'
  BY DEF RoomInv, RegistryInv
<1>2. EntryOfUser' /\ NotYetCompleted' /\ CompletedOnce'
  BY DEF RoomInv, EntryOfUser, NotYetCompleted, CompletedOnce
<1>3. NewcomersAbsent'
  BY <1>1 DEF RoomInv, NewcomersAbsent, TypeOK
<1>4. EmptyRoomIsBeingJoined'
  BY <1>1 DEF RoomInv, EmptyRoomIsBeingJoined, RoomParticipants, Members
<1>5. ASSUME NEW r \in Room, NEW u \in User,
             rooms'[r] # NoObj, participants'[rooms'[r]][u] # NoSock,
             conn'[participants'[rooms'[r]][u]] = "up"
      PROVE  /\ rooms'[r] = rooms[r]
             /\ LET s == participants[rooms[r]][u]
                IN  /\ s \in Sock
                    /\ conn[s] = "up"
                    /\ sioRooms'[s] = sioRooms[s]
  <2>1. rooms'[r] = rooms[r]
    BY <1>5
  <2>2. PICK s \in Sock : s = participants[rooms[r]][u]
    BY <1>1, <1>5, <2>1 DEF TypeOK
  <2>3. conn[s] # "new"
    BY <1>1, <1>5, <2>1, <2>2 DEF RoomInv, NewcomersAbsent, TypeOK
  <2> QED
    BY <1>5, <2>1, <2>2, <2>3
<1>6. MembersHearTheRoom'
  BY <1>5 DEF RoomInv, MembersHearTheRoom, RoomParticipants, Members
<1>7. UpInRooms'
  BY DEF RoomInv, UpInRooms
<1>8. MembersAreKnown'
  <2> SUFFICES ASSUME NEW r \in Room, NEW s \in Sock, r \in sioRooms'[s],
                      NEW v \in User, v # UserOf[s],
                      rooms'[r] # NoObj, participants'[rooms'[r]][v] # NoSock
               PROVE  v \in announced'[s][r]
    BY DEF MembersAreKnown, RoomParticipants, Members
  <2>1. rooms'[r] = rooms[r]
    OBVIOUS
  <2>2. r \in sioRooms[s] /\ announced'[s] = announced[s]
    OBVIOUS
  <2> QED
    BY <2>1, <2>2 DEF RoomInv, MembersAreKnown, RoomParticipants, Members
<1> QED
  BY <1>2, <1>3, <1>4, <1>6, <1>7, <1>8 DEF RoomInv

LEMMA LeaveStep ==
    ASSUME RoomInv, RegistryInv', NEW s \in Sock, NEW r \in Room, LeaveOnce(s, r)
    PROVE  RoomInv'
<1> USE ConstantsAssumption
<1>1. TypeOK /\ TypeOK'
  BY DEF RoomInv, RegistryInv
<1> DEFINE u0 == UserOf[s]
<1>2. u0 \in User
  OBVIOUS
<1>3. \A o \in Obj, v \in User :
         /\ participants'[o][v] \in {NoSock, participants[o][v]}
         /\ o = rooms[r] /\ v = u0 => participants'[o][v] = NoSock
         /\ o # rooms[r] \/ v # u0 => participants'[o][v] = participants[o][v]
  BY <1>1, LeaveEffect
<1>4. \A q \in Room : rooms'[q] # NoObj => rooms'[q] = rooms[q] /\ rooms[q] \in Obj
  <2>1. rooms \in [Room -> Obj \cup {NoObj}]
    BY <1>1 DEF TypeOK
  <2>2. rooms' = rooms \/ rooms' = [rooms EXCEPT ![r] = NoObj]
    BY <1>1, LeaveEffect
  <2>3. ASSUME NEW q \in Room, rooms'[q] # NoObj
        PROVE  rooms'[q] = rooms[q]
    BY <2>1, <2>2, <2>3
  <2> QED
    BY <2>1, <2>3
<1>5. UNCHANGED <<conn, joins>>
  BY <1>1, LeaveEffect
<1>6. EntryOfUser' /\ NewcomersAbsent'
  BY <1>3, <1>5 DEF RoomInv, EntryOfUser, NewcomersAbsent
<1>7. NotYetCompleted' /\ CompletedOnce'
  <2>1. /\ published[s][r] = 0
        /\ published' = [published EXCEPT ![s][r] = @ + 1]
        /\ leftRooms' = [leftRooms EXCEPT ![s] = @ \cup {r}]
    BY <1>1, LeaveEffect DEF RoomInv, NotYetCompleted
  <2> QED
    BY <1>1, <2>1 DEF RoomInv, NotYetCompleted, CompletedOnce, TypeOK
\* The entry of another registered room, or of another user, is what it was,
\* and it is not the entry of s.
<1>8. ASSUME NEW q \in Room, NEW v \in User,
             rooms'[q] # NoObj, participants'[rooms'[q]][v] # NoSock
      PROVE  /\ rooms'[q] = rooms[q] /\ rooms[q] \in Obj
             /\ participants'[rooms'[q]][v] = participants[rooms[q]][v]
             /\ participants[rooms[q]][v] \in Sock
             /\ q = r => v # u0 /\ participants[rooms[q]][v] # s
  <2>1. PICK o \in Obj : o = rooms[q] /\ o = rooms'[q]
    BY <1>4, <1>8
  <2>2. participants'[o][v] = participants[o][v] /\ participants[o][v] # NoSock
    BY <1>3, <1>8, <2>1
  <2>3. participants[o][v] \in Sock /\ UserOf[participants[o][v]] = v
    BY <1>1, <2>2 DEF RoomInv, EntryOfUser, TypeOK
  <2>4. q = r => v # u0
    BY ZenonT(60), <1>3, <1>8, <2>1
  <2> QED
    BY <2>1, <2>2, <2>3, <2>4
<1>9. EmptyRoomIsBeingJoined'
  <2> SUFFICES ASSUME NEW q \in Room, rooms'[q] # NoObj,
                      \A v \in User : participants'[rooms'[q]][v] = NoSock
               PROVE  \E j \in joins' : j.room = q /\ j.at = "add"
    BY DEF EmptyRoomIsBeingJoined, RoomParticipants, Members
  <2>1. CASE q = r
    BY <1>1, <1>3, <1>4, <2>1, LeaveEffect DEF RoomParticipants, Members, TypeOK
  <2>2. CASE q # r
    <3>1. rooms[q] # rooms[r]
      BY <1>4, <2>2 DEF RoomInv, RegistryInv, RegisteredOnce
    <3>2. \A v \in User : participants[rooms[q]][v] = NoSock
      BY <1>3, <1>4, <3>1
    <3> QED
      BY <1>4, <1>5, <3>2 DEF RoomInv, EmptyRoomIsBeingJoined, RoomParticipants, Members
  <2> QED
    BY <2>1, <2>2
<1>10. MembersHearTheRoom'
  <2> SUFFICES ASSUME NEW q \in Room, NEW v \in User,
                      rooms'[q] # NoObj, participants'[rooms'[q]][v] # NoSock,
                      conn'[participants'[rooms'[q]][v]] = "up"
               PROVE  q \in sioRooms'[participants'[rooms'[q]][v]]
    BY DEF MembersHearTheRoom, RoomParticipants, Members
  <2>1. PICK t \in Sock : t = participants[rooms[q]][v]
    BY <1>8
  <2>2. q \in sioRooms[t]
    BY <1>5, <1>8, <2>1 DEF RoomInv, MembersHearTheRoom, RoomParticipants, Members
  <2>3. sioRooms' = [sioRooms EXCEPT ![s] = @ \ {r}]
    BY <1>1, LeaveEffect
  <2> QED
    BY <1>1, <1>8, <2>1, <2>2, <2>3 DEF TypeOK
<1>11. UpInRooms'
  <2>1. sioRooms' = [sioRooms EXCEPT ![s] = @ \ {r}] /\ sioRooms \in [Sock -> SUBSET Room]
    BY <1>1, LeaveEffect DEF TypeOK
  <2>2. \A t \in Sock : sioRooms'[t] \subseteq sioRooms[t]
    BY <2>1
  <2> QED
    BY <1>5, <2>2 DEF RoomInv, UpInRooms
<1>12. MembersAreKnown'
  <2> SUFFICES ASSUME NEW q \in Room, NEW t \in Sock, q \in sioRooms'[t],
                      NEW v \in User, v # UserOf[t],
                      rooms'[q] # NoObj, participants'[rooms'[q]][v] # NoSock
               PROVE  v \in announced'[t][q]
    BY DEF MembersAreKnown, RoomParticipants, Members
  <2>1. sioRooms' = [sioRooms EXCEPT ![s] = @ \ {r}]
    BY <1>1, LeaveEffect
  <2>2. q \in sioRooms[t] /\ ~(t = s /\ q = r)
    BY <1>1, <2>1 DEF TypeOK
  <2>3. v \in announced[t][q]
    BY <1>8, <2>2 DEF RoomInv, MembersAreKnown, RoomParticipants, Members
  <2>4. /\ q # r => announced'[t][q] = announced[t][q]
        /\ t # s => announced[t][q] \ {u0} \subseteq announced'[t][q]
    BY <1>1, LeaveEffect
  <2> QED
    BY <1>8, <2>2, <2>3, <2>4
<1> QED
  BY <1>6, <1>7, <1>9, <1>10, <1>11, <1>12 DEF RoomInv

LEMMA AdmitStep ==
    ASSUME RoomInv, RegistryInv', NEW j \in joins, JoinAdmitted(j)
    PROVE  RoomInv'
<1> USE ConstantsAssumption
<1>1. TypeOK /\ TypeOK'
  BY DEF RoomInv, RegistryInv
<1>2. PICK s0 \in Sock, u0 \in User, r \in Room, o \in Obj :
         s0 = j.sock /\ u0 = UserOf[s0] /\ r = j.room /\ o = rooms[r]
  BY <1>1, AdmitEffect
<1>3. /\ UNCHANGED <<rooms, conn, leftRooms, published>>
      /\ joins' = joins \ {j}
      /\ j.at = "add"
  BY <1>1, AdmitEffect
<1>4. \A p \in Obj, v \in User :
         participants'[p][v] = IF p = o /\ v = u0 THEN s0 ELSE participants[p][v]
  BY <1>1, <1>2, AdmitEffect
<1>5. EntryOfUser' /\ NotYetCompleted' /\ CompletedOnce' /\ NewcomersAbsent'
  BY <1>1, <1>2, <1>3, <1>4
     DEF RoomInv, EntryOfUser, NotYetCompleted, CompletedOnce, NewcomersAbsent
<1>6. ASSUME NEW q \in Room, rooms[q] # NoObj, q # r
      PROVE  \A v \in User : participants'[rooms[q]][v] = participants[rooms[q]][v]
  BY <1>1, <1>2, <1>4, <1>6 DEF RoomInv, RegistryInv, RegisteredOnce, TypeOK
<1>7. EmptyRoomIsBeingJoined'
  <2> SUFFICES ASSUME NEW q \in Room, rooms[q] # NoObj,
                      \A v \in User : participants'[rooms[q]][v] = NoSock
               PROVE  \E k \in joins' : k.room = q /\ k.at = "add"
    BY <1>3 DEF EmptyRoomIsBeingJoined, RoomParticipants, Members
  <2>1. q # r
    BY <1>2, <1>4
  <2>2. \E k \in joins : k.room = q /\ k.at = "add"
    BY <1>6, <2>1 DEF RoomInv, EmptyRoomIsBeingJoined, RoomParticipants, Members
  <2> QED
    BY <1>2, <1>3, <2>1, <2>2
<1>8. MembersHearTheRoom'
  <2> SUFFICES ASSUME NEW q \in Room, NEW v \in User,
                      rooms[q] # NoObj, participants'[rooms[q]][v] # NoSock,
                      conn[participants'[rooms[q]][v]] = "up"
               PROVE  q \in sioRooms'[participants'[rooms[q]][v]]
    BY <1>3 DEF MembersHearTheRoom, RoomParticipants, Members
  <2>1. /\ \A t \in Sock : sioRooms[t] \subseteq sioRooms'[t]
        /\ conn[s0] = "up" => r \in sioRooms'[s0]
    BY <1>1, <1>2, AdmitEffect
  <2>2. CASE q = r /\ v = u0
    BY <1>2, <1>4, <2>1, <2>2
  <2>3. CASE ~(q = r /\ v = u0)
    <3>1. participants'[rooms[q]][v] = participants[rooms[q]][v]
      BY <1>2, <1>4, <1>6, <2>3
    <3>2. participants[rooms[q]][v] \in Sock
      BY <1>1, <3>1 DEF TypeOK
    <3> QED
      BY <2>1, <3>1, <3>2 DEF RoomInv, MembersHearTheRoom, RoomParticipants, Members
  <2> QED
    BY <2>2, <2>3
<1>9. UpInRooms'
  BY <1>1, <1>2, <1>3, AdmitEffect DEF RoomInv, UpInRooms
<1>10. MembersAreKnown'
  <2> SUFFICES ASSUME NEW q \in Room, NEW t \in Sock, q \in sioRooms'[t],
                      NEW v \in User, v # UserOf[t],
                      rooms[q] # NoObj, participants'[rooms[q]][v] # NoSock
               PROVE  v \in announced'[t][q]
    BY <1>3 DEF MembersAreKnown, RoomParticipants, Members
  <2>1. /\ \A q2 \in Room : announced[t][q2] \subseteq announced'[t][q2]
        /\ conn[s0] = "up" => RoomParticipants(r) \ {u0} \subseteq announced'[s0][r]
        /\ t # s0 /\ r \in sioRooms[t] => u0 \in announced'[t][r]
        /\ t # s0 \/ conn[t] # "up" => sioRooms'[t] = sioRooms[t]
        /\ sioRooms'[t] \subseteq sioRooms[t] \cup {r}
    BY <1>1, <1>2, AdmitEffect
  <2>2. conn[t] = "up"
    BY <1>3, <1>9 DEF UpInRooms
  <2>3. ASSUME q \in sioRooms[t], participants'[rooms[q]][v] = participants[rooms[q]][v]
        PROVE  v \in announced'[t][q]
    BY <2>1, <2>3 DEF RoomInv, MembersAreKnown, RoomParticipants, Members
  <2>4. CASE q # r
    BY <1>6, <2>1, <2>3, <2>4
  <2>5. CASE q = r /\ t = s0
    <3>1. v # u0 /\ participants'[o][v] = participants[o][v]
      BY <1>2, <1>4, <2>5
    <3>2. v \in RoomParticipants(r) \ {u0}
      BY <1>2, <2>5, <3>1 DEF RoomParticipants, Members
    <3> QED
      BY <2>1, <2>2, <2>5, <3>2
  <2>6. CASE q = r /\ t # s0
    <3>1. CASE v = u0
      BY <2>1, <2>6, <3>1
    <3>2. CASE v # u0
      BY <1>2, <1>4, <2>1, <2>3, <2>6, <3>2
    <3> QED
      BY <3>1, <3>2
  <2> QED
    BY <2>4, <2>5, <2>6
<1> QED
  BY <1>5, <1>7, <1>8, <1>9, <1>10 DEF RoomInv

LEMMA RoomStep == RoomInv /\ RegistryInv' /\ [Next]_vars => RoomInv'
<1> USE ConstantsAssumption
<1> SUFFICES ASSUME RoomInv, RegistryInv', [Next]_vars
             PROVE  RoomInv'
  OBVIOUS
<1>1. /\ TypeOK /\ TypeOK'
      /\ RegistryInv
      /\ \A j \in joins : j.sock \in Sock /\ conn[j.sock] # "new"
  BY DEF RoomInv, RegistryInv, NewcomersAbsent, TypeOK, Join
<1>2. CASE UNCHANGED vars
  BY <1>1, <1>2, QuietStep DEF vars, registryVars, socketVars, outputVars
<1>3. ASSUME NEW s \in Sock, Connect(s) PROVE RoomInv'
  <2>1. /\ conn[s] = "new"
        /\ conn' = [conn EXCEPT ![s] = "up"]
        /\ UNCHANGED <<rooms, participants, joins, sioRooms, leftRooms, announced, published>>
    BY <1>3 DEF Connect, registryVars, outputVars
  <2>2. \A t \in Sock : conn[t] # "new" => conn'[t] = conn[t]
    BY <1>1, <2>1 DEF TypeOK
  <2> QED
    BY <1>1, <2>1, <2>2, QuietStep
<1>4. ASSUME NEW s \in Sock, Disconnect(s) PROVE RoomInv'
  <2>1. /\ conn' = [conn EXCEPT ![s] = "down"]
        /\ sioRooms' = [sioRooms EXCEPT ![s] = {}]
        /\ announced' = [announced EXCEPT ![s] = [r \in Room |-> {}]]
        /\ UNCHANGED <<rooms, participants, joins, leftRooms, published>>
    BY <1>4 DEF Disconnect, registryVars
  <2>2. conn'[s] = "down" /\ \A t \in Sock \ {s} :
           /\ conn'[t] = conn[t]
           /\ sioRooms'[t] = sioRooms[t]
           /\ announced'[t] = announced[t]
    BY <1>1, <2>1 DEF TypeOK
  <2>3. sioRooms'[s] = {}
    BY <1>1, <2>1 DEF TypeOK
  <2>4. \A t \in Sock :
           /\ sioRooms'[t] \subseteq sioRooms[t]
           /\ conn'[t] # "up" => conn[t] # "up" \/ sioRooms'[t] = {}
           /\ sioRooms'[t] # {} => announced'[t] = announced[t]
    BY <2>2, <2>3
  <2>5. \A t \in Sock : conn[t] # "new" => conn'[t] # "new"
    BY <2>2
  <2>6. \A i \in joins' : conn'[i.sock] # "new"
    BY <1>1, <2>1, <2>5
  <2>7. \A t \in Sock : conn[t] # "new" /\ conn'[t] = "up" =>
           conn[t] = "up" /\ sioRooms'[t] = sioRooms[t] /\ announced'[t] = announced[t]
    BY <2>2
  <2> QED
    BY <1>1, <2>1, <2>4, <2>5, <2>6, <2>7, QuietStep
<1>5. ASSUME NEW s \in Sock, NEW r \in Room, JoinBegin(s, r) PROVE RoomInv'
  <2>1. /\ conn[s] = "up"
        /\ joins \subseteq joins'
        /\ \A j \in joins' \ joins : j.sock = s
        /\ UNCHANGED <<rooms, participants, conn, sioRooms, leftRooms, announced, published>>
    BY <1>5 DEF JoinBegin, registryVars, socketVars, outputVars
  <2>2. \A j \in joins' : conn'[j.sock] # "new"
    BY <1>1, <2>1
  <2> QED
    BY <1>1, <2>1, <2>2, QuietStep
<1>6. ASSUME NEW j \in joins, RouterReady(j) PROVE RoomInv'
  <2> DEFINE k == [j EXCEPT !.at = "add"]
  <2>1. /\ j.at = "router" /\ j.room \in Room /\ j.obj \in Obj /\ j.sock \in Sock
        /\ router[j.obj] = "creating"
        /\ rooms' = [rooms EXCEPT ![j.room] = j.obj]
        /\ joins' = (joins \ {j}) \cup {k}
        /\ k.at = "add" /\ k.room = j.room /\ k.sock = j.sock
        /\ UNCHANGED <<participants, conn, sioRooms, leftRooms, announced, published>>
    BY <1>1, <1>6 DEF RouterReady, socketVars, outputVars, RegistryInv, CreatorsOwn,
                      TypeOK, Join
  <2>2. \A u \in User : participants[j.obj][u] = NoSock
    BY <1>1, <2>1 DEF RegistryInv, OnlyRegisteredFill, RegisteredRoomHasRouter, TypeOK
  <2>3. \A r \in Room : rooms'[r] # rooms[r] => r = j.room /\ rooms'[r] = j.obj
    BY <1>1, <2>1 DEF TypeOK
  <2>4. \A i \in joins : i.at = "add" => i \in joins'
    BY <2>1
  <2>5. \A i \in joins' : conn'[i.sock] # "new"
    BY <1>1, <2>1
  <2> HIDE DEF k
  <2> QED
    BY <2>1, <2>2, <2>3, <2>4, <2>5, QuietStep
<1>7. ASSUME NEW j \in joins, RouterFailed(j) \/ JoinRejected(j) PROVE RoomInv'
  <2>1. /\ j.at = "add" => rooms[j.room] = NoObj
        /\ joins' = joins \ {j}
        /\ UNCHANGED <<rooms, participants, conn, sioRooms, leftRooms, announced, published>>
    BY <1>7 DEF RouterFailed, JoinRejected, registryVars, socketVars, outputVars
  <2>2. \A i \in joins : i.at = "add" => i \in joins' \/ rooms'[i.room] = NoObj
    BY <2>1
  <2> QED
    BY <1>1, <2>1, <2>2, QuietStep
<1>8. ASSUME NEW D \in SUBSET Obj, WorkerDied(D) PROVE RoomInv'
  <2>1. UNCHANGED <<rooms, participants, joins, conn, sioRooms, leftRooms, announced, published>>
    BY <1>8 DEF WorkerDied, socketVars, outputVars
  <2> QED
    BY <1>1, <2>1, QuietStep
<1> QED
  BY <1>2, <1>3, <1>4, <1>5, <1>6, <1>7, <1>8, LeaveStep, AdmitStep
     DEF Next, SocketStep, RoomLeave, CallEnd, RouterAnswer, JoinFinish

LEMMA RoomInvariant == Spec => []RoomInv
<1>1. Spec => []RegistryInv
  BY RegistryInit, RegistryStep, TypeCorrect, PTL DEF Spec
<1> QED
  BY <1>1, RoomInit, RoomStep, PTL DEF Spec

\* No leave leaves an empty room behind: an empty registered room waits for the
\* addParticipant of a join that is already past its await.
THEOREM NoRoomLeftBehind == Spec => []EmptyRoomIsBeingJoined
<1>1. RoomInv => EmptyRoomIsBeingJoined
  BY DEF RoomInv
<1> QED
  BY <1>1, RoomInvariant, PTL

\* A connected participant hears everything that is sent to its room.
THEOREM Hearing == Spec => []MembersHearTheRoom
<1>1. RoomInv => MembersHearTheRoom
  BY DEF RoomInv
<1> QED
  BY <1>1, RoomInvariant, PTL

\* Whoever is in the Socket.IO room of a call knows every participant of its Room.
THEOREM Awareness == Spec => []MembersAreKnown
<1>1. RoomInv => MembersAreKnown
  BY DEF RoomInv
<1> QED
  BY <1>1, RoomInvariant, PTL

\* No socket reports the same room as completed twice.
THEOREM ReportedOnce == Spec => []CompletedOnce
<1>1. RoomInv => CompletedOnce
  BY DEF RoomInv
<1> QED
  BY <1>1, RoomInvariant, PTL

\* A participant's entry is deleted by a leave of its own user and by no other
\* step of any handler.
THEOREM Eviction == Spec => EvictedOnlyByOwnLeave
<1> DEFINE A == \A o \in Obj, u \in User :
          participants[o][u] # NoSock /\ participants'[o][u] = NoSock =>
              \E s \in Sock : UserOf[s] = u /\ leftRooms'[s] # leftRooms[s]
<1>1. TypeOK /\ [Next]_vars => A \/ UNCHANGED vars
  <2> USE ConstantsAssumption
  <2> SUFFICES ASSUME TypeOK, Next PROVE A
    BY DEF vars
  <2>1. ASSUME NEW s \in Sock, NEW r \in Room, LeaveOnce(s, r) PROVE A
    <3>1. leftRooms'[s] # leftRooms[s]
      BY <2>1, LeaveEffect DEF TypeOK
    <3>2. \A o \in Obj, u \in User : u # UserOf[s] => participants'[o][u] = participants[o][u]
      BY <2>1, LeaveEffect
    <3> QED
      BY <3>1, <3>2
  <2>2. ASSUME NEW j \in joins, JoinAdmitted(j) PROVE A
    BY <2>2, AdmitEffect
  <2>3. CASE UNCHANGED participants
    BY <2>3
  <2>4. ASSUME NEW s \in Sock, Connect(s) \/ Disconnect(s) PROVE UNCHANGED participants
    BY <2>4 DEF Connect, Disconnect, registryVars
  <2>5. ASSUME NEW s \in Sock, NEW r \in Room, JoinBegin(s, r) PROVE UNCHANGED participants
    BY <2>5 DEF JoinBegin, registryVars
  <2>6. ASSUME NEW j \in joins, RouterAnswer(j) \/ JoinRejected(j) PROVE UNCHANGED participants
    BY <2>6 DEF RouterAnswer, RouterReady, RouterFailed, JoinRejected, registryVars
  <2>7. ASSUME NEW D \in SUBSET Obj, WorkerDied(D) PROVE UNCHANGED participants
    BY <2>7 DEF WorkerDied
  <2> QED
    BY <2>1, <2>2, <2>3, <2>4, <2>5, <2>6, <2>7
       DEF Next, SocketStep, RoomLeave, CallEnd, JoinFinish
<1> QED
  BY <1>1, TypeCorrect, PTL DEF Spec, EvictedOnlyByOwnLeave

-----------------------------------------------------------------------------
(* Every room id is a CallRoom *)

\* What does not touch the object registered under r does not show in r.
LEMMA RoomUntouched ==
    ASSUME NEW r \in Room, rooms'[r] = rooms[r],
           rooms[r] # NoObj =>
               /\ router'[rooms[r]] = router[rooms[r]]
               /\ \A u \in User : participants'[rooms[r]][u] = participants[rooms[r]][u]
    PROVE  UNCHANGED RoomOf(r)!vars
  BY DEF RoomOf!vars, StateOf, RoomParticipants, Members

\* A suspended creation owns an object that no room id has.
LEMMA CreatedUnregistered ==
    ASSUME RegistryInv, NEW j \in joins, j.at = "router", NEW r \in Room
    PROVE  rooms[r] # j.obj /\ j.obj \in Obj /\ j.room \in Room
<1>1. j.obj \in Obj /\ j.room \in Room /\ router[j.obj] = "creating"
  BY DEF RegistryInv, TypeOK, Join, CreatorsOwn
<1> QED
  BY <1>1, ConstantsAssumption DEF RegistryInv, RegisteredRoomHasRouter

LEMMA LeaveShows ==
    ASSUME RegistryInv, NEW s \in Sock, NEW q \in Room, LeaveOnce(s, q), NEW r \in Room
    PROVE  [RoomOf(r)!Next]_(RoomOf(r)!vars)
<1> USE ConstantsAssumption DEF RegistryInv
<1> DEFINE u == UserOf[s]
<1>1. u \in User
  OBVIOUS
<1>2. CASE r # q \/ rooms[r] = NoObj
  <2>1. rooms[r] # NoObj => rooms[r] \in Obj /\ rooms[r] # rooms[q]
    BY <1>2 DEF RegisteredOnce, TypeOK
  <2>2. \/ rooms' = rooms /\ router' = router
        \/ /\ rooms[q] # NoObj
           /\ rooms' = [rooms EXCEPT ![q] = NoObj]
           /\ router' = [router EXCEPT ![rooms[q]] = "closed"]
    BY LeaveEffect
  <2>3. rooms'[r] = rooms[r] /\ (rooms[r] # NoObj => router'[rooms[r]] = router[rooms[r]])
    BY <1>2, <2>1, <2>2 DEF TypeOK
  <2>4. rooms[r] # NoObj =>
            \A v \in User : participants'[rooms[r]][v] = participants[rooms[r]][v]
    BY <2>1, LeaveEffect
  <2> QED
    BY <2>3, <2>4, RoomUntouched
<1>3. CASE r = q /\ rooms[r] # NoObj
  <2>1. PICK o \in Obj : o = rooms[r]
    BY <1>3 DEF TypeOK
  <2>2. \A v \in User :
            participants'[o][v] = IF v = u THEN NoSock ELSE participants[o][v]
    BY <1>3, <2>1, LeaveEffect
  <2>3. RoomParticipants(r) = Members(o) /\ Members(o)' = Members(o) \ {u}
    BY <1>3, <2>1, <2>2 DEF RoomParticipants, Members
  <2>4. StateOf(r) # "none"
    BY <1>3, <2>1 DEF StateOf, RegisteredRoomHasRouter
  <2>5. CASE rooms' = rooms /\ router' = router /\ Members(o) \ {u} # {}
    <3>1. RoomParticipants(r)' = Members(o) \ {u} /\ StateOf(r)' = StateOf(r)
      BY <1>3, <2>1, <2>3, <2>5 DEF RoomParticipants, StateOf
    <3>2. RoomOf(r)!Leave(u)
      BY <2>3, <2>4, <2>5, <3>1 DEF RoomOf!Leave
    <3> QED
      BY <1>1, <3>2 DEF RoomOf!Next
  <2>6. CASE rooms'[r] = NoObj /\ Members(o) \ {u} = {}
    <3>1. RoomParticipants(r)' = {} /\ StateOf(r)' = "none"
      BY <2>6 DEF RoomParticipants, StateOf
    <3>2. RoomOf(r)!Leave(u)
      BY <2>3, <2>4, <2>6, <3>1 DEF RoomOf!Leave
    <3> QED
      BY <1>1, <3>2 DEF RoomOf!Next
  <2> QED
    BY <1>3, <2>3, <2>5, <2>6, LeaveEffect DEF TypeOK
<1> QED
  BY <1>2, <1>3

LEMMA AdmitShows ==
    ASSUME RegistryInv, NEW j \in joins, JoinAdmitted(j), NEW r \in Room
    PROVE  [RoomOf(r)!Next]_(RoomOf(r)!vars)
<1> USE ConstantsAssumption DEF RegistryInv
<1> DEFINE u == UserOf[j.sock]
<1>1. /\ u \in User /\ j.sock \in Sock /\ rooms[j.room] \in Obj /\ j.room \in Room
      /\ rooms' = rooms /\ router' = router
      /\ \A o \in Obj, v \in User :
             participants'[o][v] = IF o = rooms[j.room] /\ v = u
                                  THEN j.sock ELSE participants[o][v]
  BY AdmitEffect
<1>2. CASE r # j.room
  <2>1. rooms[r] # NoObj => rooms[r] # rooms[j.room]
    BY <1>1, <1>2 DEF RegisteredOnce
  <2>2. rooms[r] # NoObj =>
            \A v \in User : participants'[rooms[r]][v] = participants[rooms[r]][v]
    BY <1>1, <2>1 DEF TypeOK
  <2> QED
    BY <1>1, <2>2, RoomUntouched
<1>3. CASE r = j.room
  <2>1. rooms[r] # NoObj
    BY <1>1, <1>3
  <2>2. StateOf(r) # "none" /\ StateOf(r)' = StateOf(r)
    BY <1>1, <2>1 DEF StateOf, RegisteredRoomHasRouter
  <2>3. RoomParticipants(r)' = RoomParticipants(r) \cup {u}
    BY <1>1, <1>3, <2>1 DEF RoomParticipants, Members
  <2>4. RoomOf(r)!Enter(u)
    BY <2>2, <2>3 DEF RoomOf!Enter
  <2> QED
    BY <1>1, <2>4 DEF RoomOf!Next
<1> QED
  BY <1>2, <1>3

LEMMA RegistrationShows ==
    ASSUME RegistryInv, NEW j \in joins, RouterReady(j), NEW r \in Room
    PROVE  RegisteredOver(r) \/ [RoomOf(r)!Next]_(RoomOf(r)!vars)
<1> USE ConstantsAssumption DEF RegistryInv
<1>1. /\ j.at = "router"
      /\ router' = [router EXCEPT ![j.obj] = "open"]
      /\ rooms' = [rooms EXCEPT ![j.room] = j.obj]
      /\ participants' = participants
  BY DEF RouterReady
<1>2. j.obj \in Obj /\ j.room \in Room /\ rooms[r] # j.obj
  BY <1>1, CreatedUnregistered
<1>3. CASE r # j.room
  <2>1. rooms'[r] = rooms[r] /\ (rooms[r] # NoObj => router'[rooms[r]] = router[rooms[r]])
    BY <1>1, <1>2, <1>3 DEF TypeOK
  <2> QED
    BY <1>1, <2>1, RoomUntouched
<1>4. CASE r = j.room
  <2>1. rooms'[r] = j.obj /\ j.obj # NoObj /\ router'[j.obj] = "open"
    BY <1>1, <1>2, <1>4 DEF TypeOK
  <2>2. \A u \in User : participants[j.obj][u] = NoSock
    BY <1>1, <1>2 DEF CreatorsOwn, OnlyRegisteredFill
  <2>3. StateOf(r)' = "open" /\ RoomParticipants(r)' = {}
    BY <1>1, <2>1, <2>2 DEF StateOf, RoomParticipants, Members
  <2>4. rooms[r] = NoObj => StateOf(r) = "none" /\ RoomParticipants(r) = {}
    BY DEF StateOf, RoomParticipants
  <2>5. rooms[r] # NoObj => RegisteredOver(r)
    BY <1>2, <1>4, <2>1 DEF RegisteredOver
  <2> QED
    BY <2>3, <2>4, <2>5 DEF RoomOf!Next, RoomOf!Register
<1> QED
  BY <1>3, <1>4

LEMMA DeathShows ==
    ASSUME RegistryInv, NEW D \in SUBSET Obj, WorkerDied(D), NEW r \in Room
    PROVE  [RoomOf(r)!Next]_(RoomOf(r)!vars)
<1>1. /\ \A o \in D : router[o] = "open"
      /\ router' = [o \in Obj |-> IF o \in D THEN "dead" ELSE router[o]]
      /\ UNCHANGED <<rooms, participants>>
  BY DEF WorkerDied
<1>2. rooms[r] # NoObj => rooms[r] \in Obj
  BY DEF RegistryInv, TypeOK
<1>3. CASE rooms[r] = NoObj \/ rooms[r] \notin D
  BY <1>1, <1>2, <1>3, RoomUntouched
<1>4. CASE rooms[r] # NoObj /\ rooms[r] \in D
  <2>1. StateOf(r) = "open" /\ StateOf(r)' = "dead"
    BY <1>1, <1>2, <1>4 DEF StateOf
  <2>2. RoomParticipants(r)' = RoomParticipants(r)
    BY <1>1 DEF RoomParticipants, Members
  <2> QED
    BY <2>1, <2>2 DEF RoomOf!Next, RoomOf!Die
<1> QED
  BY <1>3, <1>4

\* A join before its await, and the one that fails at it, touch an object that
\* is not registered.
LEMMA CreationHidden ==
    ASSUME RegistryInv, NEW r \in Room,
           \/ \E s \in Sock, q \in Room : JoinBegin(s, q)
           \/ \E j \in joins : RouterFailed(j)
    PROVE  UNCHANGED RoomOf(r)!vars
<1> USE ConstantsAssumption DEF RegistryInv
<1>1. ASSUME NEW s \in Sock, NEW q \in Room, JoinBegin(s, q) PROVE UNCHANGED RoomOf(r)!vars
  <2>1. CASE rooms[q] # NoObj
    BY <1>1, <2>1, RoomUntouched DEF JoinBegin, registryVars
  <2>2. CASE rooms[q] = NoObj
    <3>1. PICK o \in Obj : o = FreshObj /\ router[o] = "unborn"
      BY <1>1, <2>2, FreshObjUnborn DEF JoinBegin
    <3>2. router' = [router EXCEPT ![o] = "creating"] /\ UNCHANGED <<rooms, participants>>
      BY <1>1, <2>2, <3>1 DEF JoinBegin
    <3>3. rooms[r] # o
      BY <3>1 DEF RegisteredRoomHasRouter
    <3> QED
      BY <3>2, <3>3, RoomUntouched DEF TypeOK
  <2> QED
    BY <2>1, <2>2
<1>2. ASSUME NEW j \in joins, RouterFailed(j) PROVE UNCHANGED RoomOf(r)!vars
  <2>1. /\ j.at = "router" /\ router' = [router EXCEPT ![j.obj] = "unborn"]
        /\ UNCHANGED <<rooms, participants>>
    BY <1>2 DEF RouterFailed
  <2>2. rooms[r] # j.obj /\ j.obj \in Obj
    BY <2>1, CreatedUnregistered
  <2> QED
    BY <2>1, <2>2, RoomUntouched DEF TypeOK
<1> QED
  BY <1>1, <1>2

\* Every room id is a CallRoom, for any number of rooms, objects and suspended
\* joins: a step of the service is a step of each room, or does not show in it, or
\* is the one in which an overlapping first join replaces the Room.
THEOREM RoomsAreCallRooms == Spec => ImplementsCallRoom
<1>1. Init => \A r \in Room : RoomOf(r)!Init
  BY DEF Init, RoomOf!Init, StateOf, RoomParticipants
<1>2. RegistryInv /\ [Next]_vars =>
          [\A r \in Room : RegisteredOver(r) \/ [RoomOf(r)!Next]_(RoomOf(r)!vars)]_vars
  <2> SUFFICES ASSUME RegistryInv, Next, NEW r \in Room
               PROVE  RegisteredOver(r) \/ [RoomOf(r)!Next]_(RoomOf(r)!vars)
    OBVIOUS
  <2>1. ASSUME UNCHANGED registryVars PROVE [RoomOf(r)!Next]_(RoomOf(r)!vars)
    BY <2>1, RoomUntouched DEF registryVars
  <2>2. ASSUME NEW s \in Sock, SocketStep(s) PROVE [RoomOf(r)!Next]_(RoomOf(r)!vars)
    BY <2>1, <2>2, LeaveShows, CreationHidden
       DEF SocketStep, Connect, Disconnect, RoomLeave, CallEnd
  <2>3. ASSUME NEW j \in joins, RouterAnswer(j)
        PROVE  RegisteredOver(r) \/ [RoomOf(r)!Next]_(RoomOf(r)!vars)
    BY <2>3, RegistrationShows, CreationHidden DEF RouterAnswer
  <2>4. ASSUME NEW j \in joins, JoinFinish(j) PROVE [RoomOf(r)!Next]_(RoomOf(r)!vars)
    BY <2>1, <2>4, AdmitShows DEF JoinFinish, JoinRejected
  <2> QED
    BY <2>2, <2>3, <2>4, DeathShows DEF Next
<1> QED
  BY <1>1, <1>2, RegistryInit, RegistryStep, TypeCorrect, PTL DEF Spec, ImplementsCallRoom

=============================================================================
