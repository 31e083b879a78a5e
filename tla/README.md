# CallWave: specifications of the calling core

This directory holds TLA+ modules about CallWave (`src/`), a self-hosted video
and audio calling system: Node services (`src/callwave-backend`) and a Flutter
client (`src/videocall`). The modules are translated from the code; what the code
takes from libraries (Socket.IO, Redis, mediasoup, libwebrtc) is modelled from how
the code uses it.

## The system

| Component | State | Operations | Hard because | Modelled in |
|---|---|---|---|---|
| Room registry and room handlers of video-calls (`mediasoup/roomManager.ts`, `sockets/videoHandler.ts`) | `rooms` (room id to Room object with its router and participants), one `leftRooms` set per socket, Socket.IO rooms | `room:join`, `room:leave`, `call:end`, `disconnect`, `getOrCreateRoom`, `addParticipant`, `removeParticipant` | a join awaits the worker, other handlers run meanwhile; rooms are looked up again by id after the await; participants are keyed by user and a user has several sockets | `VideoRooms`, `CallRoom` |
| SFU path (`createWebRtcTransport`, `transport:*`, `producer:*`, `consumer:*`) | transports, producers and consumers of a participant object | eight handlers | every one awaits mediasoup and then uses the participant it read before | `VideoMedia` |
| Worker pool (`mediasoup/workerPool.ts`) | `workers`, `workerIndex` | launch, replacement of a dead worker, round robin | indices shift when a worker dies; replacements have no listener | `WorkerPool` |
| Presence of video-calls (`server.ts`, Redis) | the set `video:presence:<user>` and the hash `video:presence` | connection and disconnect handlers, three Redis commands each | handlers of several sockets interleave command by command; crashes leave keys behind | `VideoPresence`, `Presence` |
| Call invitation (`call:invite`, `call:decline`) | none but presence | reads presence, then emits | the callee may come or go between the two | `Presence` is what it reads |
| WebRTC relay (`webrtc:*`) | none | emits to the user's room and to the call room | the target gets everything twice | `Negotiation` |
| Flutter call engine (`webrtc_call_service.dart`), negotiation | peer connections, descriptions, candidate buffers, `_makingOffer`, watchdogs | offers, answers, candidates, ICE restarts, reconnection | Dart handlers interleave at every await; two clients negotiate at once; messages are lost with sockets | `Negotiation`, `OfferAnswer` |
| audio-calls (`sockets/callHandler.ts`) | the hash `audio:presence`, Socket.IO rooms | registration, `call:initiate`, `accept`, `reject`, `end` | `hget`, await, `hdel`; `hget`, await, ring | `AudioCalls` |
| user-management: accounts and sessions (`auth.controller.ts`, `changePassword`) | users and four tables beside, sessions, a pool of clients | register (a transaction), login, refresh, logout, changePassword | requests interleave statement by statement; a check before a bcrypt hash; failures inside the transaction; waits for clients and for rows | `Accounts` |
| user-management: call logs and contacts | `user_contacts`, `call_logs`, `call_participants` | upsert, update, delete; a transaction per log, end, mark as read | several devices; a transaction that fails in the middle | `Directory` |
| user-management: presence, settings, profile | the user's own row | single statements | nothing | not modelled |
| background-processes | none | `/health` | nothing | not modelled |
| Flutter signaling, call set-up and call lifecycle | one incoming-call slot, flags, call state, alone timer | invite, accept, decline, ring, `endCall` | flags are global and cleared by timers | not modelled |
| Flutter accounts, contacts, pages; website; infrastructure | preferences, layout | REST calls, rendering | nothing a model would add | not modelled |

Interactions: a client connects a Socket.IO socket to video-calls with a JWT; the
connection handler adds it to the Redis presence and registers the handlers.
`call:invite` looks a callee up in the presence and rings it. Both clients then
`room:join`; the server tells the newcomer who is there (`room:joined`) and the
others who came (`room:participant_joined`). On `room:participant_joined` a client
offers a peer connection, and offers, answers and candidates go through the relay.
Hanging up sends `call:end` and `room:leave`, which empty the room and close its
router; `call.completed` goes to RabbitMQ.

What makes each part correct: a room has one live router and nobody sits in a
closed one; who enters a call is made known to all who hear it; leaving once counts once, and
only a user's own leave removes the user; a reachable user is online and the last
socket to go takes the user offline; a negotiation ends with the two ends of a
connection in the same session and never leaves one side unable to negotiate; a
call that is said to ring rings; an account is whole and unique, what a request was
answered stays true, and a logout is final; a call log is all or nothing; the pool of
workers comes back, and media that has ended is offered to nobody.

## The modules

Three modules are abstract: `CallRoom`, `Presence` and `OfferAnswer` say what a
component promises, and the modules that implement them are compared with them. Every
other module has an MC module that gives its constants values, a
configuration per run, and a module of proofs (`VideoRoomsProofs`, `VideoMediaProofs`,
`WorkerPoolProofs`, `VideoPresenceProofs`, `NegotiationProofs`, `AudioCallsProofs`,
`AccountsProofs`, `DirectoryProofs`). Definitions marked "Mutant" in the modules are
plausible bugs of the definition they precede; no specification uses them.

### VideoRooms (`roomManager.ts`, `videoHandler.ts`)

One Node process: a handler runs from one `await` to the next without interruption.
Of the handlers only `room:join` awaits before it changes anything, so a join is up
to three steps, and every other handler is one action.

| Code | Model |
|---|---|
| `rooms` | `rooms`: room id to an object identity in `Obj`, or `NoObj` |
| `Room.participants` | `participants[o][u]`: the `socketId` of the entry; keyed by object, because a closed object may still be held by a suspended join |
| `Room.router` | `router[o]`: `unborn`, `creating` (awaiting the worker), `open`, `dead` (its worker died), `closed` |
| the closure's `leftRooms` | `leftRooms[s]` |
| a suspended `room:join` | an element of `joins`, at `"router"` or at `"add"` |
| `socket.rooms`, connection | `sioRooms`, `conn` |
| what clients were told | `announced[s][r]`: from `room:joined`, `room:participant_joined`, `room:participant_left` |
| `call.completed` | `published[s][r]` |

`JoinBegin`, `RouterReady`, `RouterFailed`, `JoinAdmitted`, `JoinRejected` are the
pieces of `room:join`; `RoomLeave` and `CallEnd` are the two handlers with the same
body (`LeaveOnce`, `LeaveRoom`, `RemoveParticipant`); `Disconnect` is the disconnect
handler; `WorkerDied` is the environment. Socket.IO: a disconnecting socket has left
its rooms when `disconnect` is emitted, `socket.join` on a disconnected socket does
nothing, and a reconnecting client is a new socket.

Run `rooms`: two devices of one user and one of another, one room, two Room objects,
one pending join per socket. These are the smallest numbers with which a user has two
entries competing, two joins race for the creation of a room, a closed object is
still referred to, and a third party must be told of it all. Sockets do not come back
from `down` (fresh ones do), so a run ends when all are used up: deadlock is not
checked.

- `ImplementsCallRoom`: seen by its id, a room is a `CallRoom`: registered when there is
  none, entered and left by one participant at a time, closed with its last one. With
  `RoomOf(r) == INSTANCE CallRoom`, `state <- StateOf(r)` is what `getRoom` finds and
  `members <- RoomParticipants(r)`. One step is excepted by name, `RegisteredOver`: when
  two first joins overlap, the second `rooms.set` replaces the Room of the first, with
  its router and whoever has entered it. This is no step of a `CallRoom`; run
  `rooms_overlap` shows where it leads.
- `EmptyRoomIsBeingJoined`: an empty room is registered only for a join that is past its
  await. `NobodyInClosedRoom`, which also speaks of objects no longer registered, is
  proved and not run.
- `MembersHearTheRoom`: connected participants are in the Socket.IO room.
  `MembersAreKnown`: every socket in the Socket.IO room, whichever Room object its own
  participant is in, has been told of every participant of the registered Room. The
  converse does not hold after a `RegisteredOver`: a participant of the replaced object
  hears of the newcomers, and they are not told of it by their `room:joined`.
- `CompletedOnce`: one event per socket and room.
- `EvictedOnlyByOwnLeave`: no other user's step removes a participant. The leave of the
  user's other device does, and the property permits it: `participants` has one entry
  per user.

### VideoMedia (`videoHandler.ts` from `transport:create` on, `roomManager.ts`)

The SFU side of one room. A Participant object, a transport, a producer and a
consumer are the positions of `participants`, `transports`, `producers`, `consumers`;
`member` is the `Map` of the room. `channel` is the mediasoup worker's channel, which
it serves in order: a handler up to its await appends a request (`CreateTransport`,
`CreateProducer`, `CreateConsumer`, `PauseProducer`, `PauseConsumer`), and the rest of
it takes the head (`TransportCreated`, `ProducerCreated`, `ConsumerCreated`,
`ProducerPaused`, `ConsumerPaused`, or `Refused` when the request is rejected). The
closing of a producer reaches its consumers through the same channel
(`ConsumersClosed`). A transport that is being made when its router is closed comes
back closed: `RouterClosed` marks its request (`live`). `known` is what a client learnt from `room:joined` and
`room:new_producer`, `heard` the last `producer:paused` or `producer:resumed`.
`Join` is `room:join` from `addParticipant` on; what two first joins do to the
registry is in `VideoRooms`. The room here and a room there implement the same
`CallRoom` (`TheRoom`, with `state <- room`, `members <- Members`). A rejected `producer:pause` ... `consumer:resume` is
caught by nobody and ends the process (`up`).

Run `media`: two users, three Participant objects, so that one user rejoins (a
rejoin replaces the object without closing what it holds); two transports, so that
one can be overwritten or outlive its participant; one producer and one consumer;
two requests under way, so that one is overtaken. Exchanging the users changes
nothing (symmetry).

- `EveryProducerIsKnown`: a participant joins while a producer is being made, and
  hears of it by one way or the other.
- `ListedProducersAreOpen`, `DrainedConsumersAreLive`: what participants hold is
  alive, but for the time a closing is under way.
- `LastWordIsTrue`: pause and resume overtake each other; what a participant last heard
  of a producer is how it is.
- `TidyLeaversLeaveNothing`: a leave closes everything, except what was replaced,
  overwritten or made too late (`tidy` records these three, in which the code
  leaves transports open).

### WorkerPool (`workerPool.ts`)

`workers` is the array, holes included; `Put` is the assignment to an index that may
be beyond the end, `Filter` the filter (by the positions that are kept, which can be
reasoned about; `MCWorkerPool` has TLC check that it is `SelectSeq`). Workers are numbered by the index they were
made with, a replacement comes after. `Launch` is a turn of `initWorkerPool`,
`OriginalDied` the `'died'` listener, `Replaced` the end of `createWorker`,
`CreateRouter` the round robin; a failed replacement ends the process.

Run `workers` uses the largest pool the code makes: `NUM_WORKERS` is at most four.
`workerIndex` is kept modulo 12, a multiple of every length the array can have, so
nothing is cut off: the run is exhaustive for the code as it is. `PoolRecovers` and
`RoundRobinFindsTheLiving` say that, for all the shifting of places, the pool has a
running worker again and the round robin reaches it in fewer tries than there are
places. The death of a replacement is excepted by `PoolRecovers`: no listener is set
on it and nothing replaces it.

### Presence and VideoPresence (`server.ts`, `packages/redis`)

`Presence` is the promise `call:invite` relies on: a served user is online. A user
goes offline only when nobody of that user is served. `VideoPresence` is the Redis
protocol: every process has one connection to Redis, on which commands are executed
and answered in order; a handler sends its next command when the reply to the last
one arrives. `pc[s]` is where the handlers of a socket are, `requests` and `replies`
are the two directions of the connection, `RedisExec` is Redis, `SaddDone` to
`HdelDone` are the continuations, `Crash` loses a process with all it had not sent.

Run `presence`: one process that may crash, three connections of one user and, for
the first disconnect of one to overlap with the arrival of the next and the departure
of a third, one connection of another user who must not be touched. `NoFalseOffline`,
`OnlineIsBacked`, the liveness property `LastOneOutGoesOffline`, and
`ImplementsPresence`: `VideoPresence` refines `Presence` with `served <- Served`,
`online <- hash`. With one process this holds although `scard`, the await and `hdel`
are not atomic, because the commands of all sockets share one first-in first-out
connection: a `sadd` sent after the `scard` was answered has its `hset` executed after
the `hdel`. With several processes that serve one user it does not hold, which is why
the theorems have the hypothesis `Sticky`.

Fairness: `FairSpec` asks that Redis executes what it is sent (`RedisExec`) and that
Node runs the continuation of a command that was answered (`HandleReply`). No
connection, disconnection or crash is fair. All other specifications are without
fairness: their properties are about what must not happen, and those that say that
something is not stuck (`NobodyWaitsInVain`, `SomebodyProceeds`) are invariants.

### Negotiation (`webrtc_call_service.dart`, relays of `videoHandler.ts`)

Two clients of a call and the relay between them. A Dart handler runs from await to
await; what it awaits is an operation of a peer connection. libwebrtc runs the
operations of a connection in the order requested, so `ops[p][i]` is a queue, and
the completion of an operation and the continuation of its handler are one step.
Creating a connection (which first waits up to three seconds for the camera) is an
await of its own, and several handlers may be in it: `creating[p]`. `conns` has the
pending and the negotiated descriptions of every connection; `current` is the entry
of `_peerConnections`; an offer is identified by its sender and a number, and an
answer by the offer it answers. The relay delivers every offer and answer twice.

`ParticipantJoined`, `WatchdogFires`, `RestartIce` and `Reconnect` start offers;
`CreateOffer`, `SetOffer` are the rest of `_createOffer`; `OfferArrives`,
`ConnectionCreated`, `Rollback`, `SetRemoteOffer`, `CreateAnswer`, `SetAnswer` are
`_handleOffer`; `AnswerArrives`, `SetRemoteAnswer` the `webrtc:answer` handler.

A candidate is handled in two steps. `CandidateArrives` buffers it without a connection,
and else awaits the remote description of the connection it found
(`looking[p][i]`, while `current[p]` may become another); `CandidateLookedUp` adds it to
that connection, and buffers it if that has no remote description (`"early"`) or if
`addCandidate` throws although it has one (`"refused"`). `Drain` is
`_drainPendingCandidates`: the buffer is emptied first, then its candidates go to the
connection the peer has by then, which may refuse them without anybody hearing of it.
So an empty buffer does not mean that its candidates were accepted, and
`NoCandidateStranded` says more than that it is empty.

Abstractions: the call is between two, so `_peerConnections` has at most one entry;
the await on `pc.restartIce()` and on `addTrack` is merged with what follows, and the
await on `addCandidate` with the lookup before it; one candidate stands for the
candidates of a description and is sent after it, and of the buffer it is kept which kinds
of candidates are in it; the limit of three restarts and the removal of a peer that
leaves are not in this module. A request for a remote description is taken to be answered
before an operation of a connection created later ends (`LookupsDone`): the plugin
answers it at once, and its answers come in the order of the requests.
libwebrtc is taken with implicit rollback off, its default outside browsers: a
remote offer is rejected while a local one is pending.

Run `negotiation`: three offers in all, two connections per client, one candidate under
way at a time (`MaxCandidates`), one lost socket. Three offers are a first negotiation,
an ICE restart and one offer that collides with either. `calm` records whether an offer
was ever started while another was going on: `CalmAgrees` says negotiations that do not
collide end with one session (that they never build a second connection,
`CalmConnectsOnce`, is proved and not run). `MakingOfferIsBacked` and
`NobodyWaitsInVain` hold with collisions and all. The first is about one direction only:
an offer that overlaps another may reset the flag early. The second says that an idle
system has no connection left in `have-local-offer`: without it `_createOffer` would
skip every later offer. Every behaviour of the instance is finite, so this safety
property says that negotiations end, and no fairness is needed. It excepts the loss of a
socket, after which the code may stay in `have-local-offer`.

`NoCandidateStranded` has two parts. With collisions and all, once things are settled no
early candidate stays in the buffer of a connection that could take it. As long as offers
do not meet, a candidate is only looked up for the connection in use, and an early one
leaves the buffer only for that connection when it has its remote description. Not
covered: candidates that a connection refuses, which stay in the buffer until the next
negotiation drains it, and, when connections replace one another, candidates drained
into one that has no remote description, which are lost.

`OfferAnswer` is what the two clients promise the call: one offer at a time, answered
at most once although it comes twice, whose session reaches first the end that answers
and then the end that offered. `Negotiation` refines it (`ImplementsOfferAnswer`) with
`open <- Open`, the offers that a side has pending and waits on, and
`session <- Sessions`, what the current connections have negotiated; `answered` and
`calm` are the same in both. Only `SetOffer` (`MakeOffer`), `SetAnswer`
(`SendAnswer`) and `SetRemoteAnswer` (`Conclude`) show; all else is a stutter. When
`calm` goes, nothing more is promised. That no offer is answered twice (`AnsweredOnce`)
is part of it.

The promise needs `calm`: when one side starts three offers in a row, the
`createAnswer` of one handler answers the offer that another has set meanwhile, and
the answer to the second is set again on top of the third. It takes a fourth offer, so
three would have hidden it. The instances with four offers and two connections
without a lost socket, and with a lost socket and one connection fewer, satisfy all
the properties too.

### AudioCalls (`audio-calls/src/sockets/callHandler.ts`)

`presence` is the hash `audio:presence`, in which a user has one socket. As in
`VideoPresence`, `commands` and `replies` are the one connection to Redis. `Connect`
sends `hset` and does not wait; `Disconnect` sends `hget`, and `Deregister`, with the
reply, sends `hdel` when the entry is the socket's own. `Initiate` and `Ring` are
`call:initiate` before and after its `hget`; `Accept`, `Reject` and `End` are handlers
without an await. `publishCallEvent` swallows failures: `Published` may lose an event.
Of a call, `online`, `gone` and `left` are history.

Run `audio`: one caller and two devices of the callee, one call; two devices are
what it takes for one to overwrite and to delete the other's entry, and calls do not
interact. A user may call itself, as in the code.

- `EntryIsBacked`: no entry outlives its socket.
- `RingingRingsSomewhere`: a call answered `call:ringing` rang somewhere, unless the
  registered device went while it was looked up.
- `MissedNeedsDeparture`: a call is published as missed only if no device of the callee
  was registered and connected from its beginning to the event, or a disconnect handler
  of the callee has finished. It permits what the code does with two
  devices: a disconnecting device reads its own entry, the entry of the user's other
  device is written, and the first deletes it. With the other device connected
  throughout, calls to the user then fail and are published as missed. What it
  excludes is that anything but a departure of a device of that user does this.

### Accounts (`auth.controller.ts`, `changePassword` of `users.controller.ts`)

A request is a handler that runs SQL statements (`req[r].at` names the one it is
at); an action is one statement, executed, and what the handler does with its result.
`tx[r]` is what an open transaction has inserted and `clients` the requests that hold
a client of the pool: `pool.query` needs an idle client for the statement only,
`register` holds one from `pool.connect` to the release in `finally`. An INSERT that
clashes with an uncommitted row waits for it (`InsertUser`), one that clashes with a
committed row is a unique violation (`InsertUserClashes`). Any statement may fail
(`Fail`), the answer of an executed one may be lost, the process may die (`Crash`),
sessions expire (`Expire`). Hashes and tokens are what they stand for: a password, a
session id.

Run `accounts`: three requests, one account there before, two clients, two passwords
and three identities of which two share a username. Two registrations race and a third
request of any kind meets them, with one client fewer than requests. Requests and
passwords are symmetric.

- `UniqueAccounts`, `WholeAccounts`: although `register` looks, awaits a hash, and
  inserts five rows.
- `AnswersStayTrue`: a 201 means that the account is there from then on, a 409 that
  nothing was created. `RevokedStaysOut`: no refresh sent after a logout gets a token.
- `SomebodyProceeds`: clients and rows are never waited for in a circle. It has two
  parts: while a request waits, one has a client and no row to wait for
  (`NobodyStuck`), and such a request does have a statement to run (`ENABLED`).

### Directory (`contacts.controller.ts`, `calls.controller.ts`)

Requests as in `Accounts`, on contacts and call logs; the pool is left to `Accounts`.
`createCallLog` is a transaction of two inserts (`InsertLog`, `InsertParticipants`,
`Commit`), where the second fails for an unknown participant or one named twice; the
other handlers are one or two statements.

Run `directory`: three requests of two users, with lists of participants that name
nobody, one, two, one twice, and one unknown. Three requests are a contact that is
added, blocked and added again, or a log that is created, ended and read.
`LogsAreWhole`: all or nothing. `BlockedStaysBlocked`: the upsert of `addContact`
never lifts a block.

### How they compose

`VideoRooms` gives `VideoMedia` its joins and leaves, `WorkerPool` the death of a
worker that both have as `WorkerDied`; `Presence` is what call invitation sees of
`VideoPresence`; `Negotiation` starts where the `room:joined` and
`room:participant_joined` of `VideoRooms` arrive (`MembersAreKnown` says they
do); `Directory` shares the pool of `Accounts`. `VideoRooms` and `VideoMedia` meet in
`CallRoom`, which both implement: whoever looks at the state of a room and at who is in
it cannot tell them apart, except that in `VideoMedia` a room is registered and entered
in one step (`Found`), and that in `VideoRooms` a room may be registered over another
(`RegisteredOver`), which `CallRoom` does not allow. `Presence` and `OfferAnswer` are
composed with their implementations by `INSTANCE` too: the others meet in single events,
and each has its neighbour's behaviour in full as nondeterminism.

## The runs

| Run | Instance | Shows |
|---|---|---|
| `rooms` | 3 sockets, 2 Room objects; 659,811 states | registry, routers, Socket.IO rooms and what clients were told agree; but for overlapping first joins the room implements `CallRoom` |
| `media` | 2 users, 3 Participant objects; 4,716,115 states | transports, producers and consumers across every await |
| `workers` | 4 workers; 52,067 states | the pool recovers and the round robin finds the living |
| `presence` | 4 sockets, crash; 480,735 states | presence, its liveness, its refinement |
| `negotiation` | 3 offers, 1 lost socket; 5,505,897 states | negotiations end, implement `OfferAnswer`, and leave no side stuck |
| `audio` | 3 sockets, 1 call; 154,163 states | entries and rings are backed by devices, and a call is missed only after a departure |
| `accounts` | 3 requests, 2 clients; 1,278,899 states | accounts and sessions under failures and races |
| `directory` | 3 requests; 617,765 states | call logs and blocks |
| `rooms_disconnect`, `rooms_left`, `rooms_overlap`, `negotiation_glare` | as above or smaller | a counterexample to what the repository says, below |

No run checks deadlock: every model has a legal end (sockets, requests or offers are
used up, or the process has died).

### What the code does not do

- `rooms_disconnect`: the disconnect handler ranges over `socket.rooms`, which
  Socket.IO has emptied by then (it still has the rooms at `disconnecting`). A
  participant whose connection drops stays registered, and the room and its router
  are never closed unless the user comes back and leaves.
- `rooms_left`: `leftRooms` is never cleared by a join. A client that ends a call
  while `joinCallRoom` awaits the camera sends `call:end` before `room:join`; the
  join then completes, and every leave after that is ignored. So are the leaves of
  a client that joins the room again on the same socket.
- `rooms_overlap`: the comment of `createRouter` says "one per room"
  (`workerPool.ts:80`). Two users who join first at the same time both find no room and
  await a router each; the second `rooms.set` replaces the Room in which the first has
  become a participant meanwhile. That participant stays in the Socket.IO room, on a
  router nobody else is on, is missing from the `room:joined` of those who come after
  (unless it joins again), and its leave does not close that router.
- `negotiation_glare`: both peers are polite. When offers collide both roll back
  and answer, and both answers meet a stable connection and are skipped; each end
  is left with the session it answered. A lost socket that comes back starts an
  offer on both sides at once, so this is an ordinary event.

## What is proved

All proofs are for every value of the constants, under the `ConstantsAssumption` of
the module (types of the constants; null values distinct from values), and rest on no
bound of the runs.

`VideoRoomsProofs`, for any users, sockets, rooms, objects and pending joins:

- `TypeCorrect`: `Spec => []TypeOK`.
- `RegistryHasRouters`, `ClosedRoomsAreEmpty`: by the inductive invariant
  `RegistryInv`. The two properties are not inductive: `RouterReady` registers an
  object whatever is registered already, so one has to know that a join in creation
  owns its object (`CreatorsOwn`), that no object is registered twice
  (`RegisteredOnce`, or closing it under one id would leave it open under another)
  and that only an open or dead object ever has members (`OnlyRegisteredFill`).
- `NoRoomLeftBehind`, `Hearing`, `Awareness`, `ReportedOnce`: by `RoomInv`, which adds
  that an entry belongs to its socket's user (`EntryOfUser`: the leave that deletes an
  entry is that user's, and one socket is not two users' entry), that a socket not
  yet connected is nowhere (`NewcomersAbsent`) and that a report implies a leave
  (`NotYetCompleted`). `Awareness` (`MembersAreKnown`) is about the Socket.IO room, to
  which a newcomer is announced, and about the registered object, whose participants a
  newcomer is given: a registration over another only takes participants out of it.
- `RoomsAreCallRooms` (`ImplementsCallRoom`): the refinement of `CallRoom` for every room
  id but for the step `RegisteredOver`, from `RegistryInv`. A room is touched only through the object registered under its
  id (`RoomUntouched`): `RegisteredOnce` keeps the steps of other rooms away, and what a
  suspended creation owns is registered nowhere (`CreatedUnregistered`) and empty when it
  is. The last one out closes the room because no other id shares the object.
- `Eviction`: the action property `EvictedOnlyByOwnLeave`, from the type invariant and
  the effect of each action on the participants.

`VideoPresenceProofs`, for any users, sockets and processes, crashes included:

- `TypeCorrect`; `Counting` (a served socket is in its user's set) and
  `NobodyForgotten` (`OnlineIsBacked`), wherever the sockets connect. `CountedInv` says
  that each item on the wire is the one its handler awaits (`Wire`) and that a socket
  is in its set from the execution of `sadd` to that of `srem` (`Counted`); `Backed`
  names, for a user online behind an empty set, the command or reply that will delete
  the field.
- `SingleProcessPresence` and `PresenceImplemented`: `NoFalseOffline`, and the
  refinement of `Presence`, under the hypothesis `Sticky`: all sockets of a user connect
  to one process (one process in all, or routing by user). `PresenceInv` orders the
  wire: behind a `scard` that found the set empty every socket now in the set has its
  `sadd` reply (`ZeroIsOld`), so behind an `hdel` it has its `hset` or is about to send
  it (`HdelIsOvertaken`), and an `hdel` is never executed after the `hset` of a socket
  that is in the set (`Online`). In the refinement `hdel` is `GoOffline`, the reply to
  `hset` is `Serve` unless the socket is gone by then, and a crash is `Stop`.

`VideoMediaProofs`, for any number of users and any bounds on objects and requests
(`BoundsAssumption`: they are numbers). One invariant, `Inv`, carries all theorems,
because a request goes on with what it read before its await: it has to say what
every request in the channel may still do.

- `TypeCorrect`, with `RequestsBacked`: what a request names exists and belongs to the
  user who sent it (`SlotsOwned`, `ProducersOwned`).
- `ProducersAreKnown`, `ListsAreOpen`: by `MembersUsable`, a current participant's send
  transport is open, and what is being made for a current participant will be open when
  it comes; a request of a replaced or removed one may come back closed, and is listed
  where nobody is told.
- `Announcements`: the announcement of a pause goes to all but its owner, so the owner
  has to be known not to rely on it (`OwnersHearNothing`).
- `Drained`: by `ClosesPending`, a close is in the channel behind every consumer, made
  or being made, whose producer is closed, as long as the room is open.
- `Tidiness`: inductive with the others; `tidy` also says that a request to produce is
  on the transport the participant holds.
- `MediaRoom`: the refinement of `CallRoom` (the `ImplementsCallRoom` of `VideoMedia`), by
  `MembersUsable`: without a room there are no members. It is proved and not run.

`WorkerPoolProofs`, for any number of workers and any `Cycle` that every length divides:
`TypeCorrect`; `Recovery` (`PoolRecovers`), by what the filter and the assignment beyond
the end do to the set of workers (`FilterEffect`), `OriginalsRun` and `Held`; and
`RoundRobin` (`RoundRobinFindsTheLiving`), by `FailedInARow`: calls that failed in a
row looked at successive places modulo the length, so if there were as many as places,
one looked at the worker that runs. Arithmetic about remainders is lemmas of its own
(`RestOfRest`, `RestOfSuccessor`, `EveryRest`).

`NegotiationProofs`, for any bounds and two peers (`NoSdpAssumption`: no description is
not a description):

- `TypeCorrect`, by the effect of a request (`RequestEffect`), of a handler that goes on
  (`ProceedEffect`) and of one that ends (`FinishEffect`) on the queue of a connection.
- `MakingIsBacked` (`MakingOfferIsBacked`), inductive with the types: the flag is set
  together with a suspended handler or a requested `createOffer`, the handler becomes a
  request, `createOffer` becomes `setOffer`, and with `setOffer` the flag goes. No other
  step removes one of these, although any step may shift them in the queue.
- `Answers`, `Agreement`, `Connections` (`AnsweredOnce`, `CalmAgrees`,
  `CalmConnectsOnce`), by `CalmInv`: a calm negotiation is in one of the stages
  `Offering`, `Offered`, `Answering`, `Answered`, `Concluded` of the latest offer, each of
  which says where the handlers of both sides are, what their connections have, and
  that nothing but copies of one description is on the way. A stage lasts while copies
  arrive, sockets are lost and offers are skipped; the next offer of either side needs
  `Settled`, which only the last stage satisfies.
- `Negotiates` (`ImplementsOfferAnswer`): the refinement of `OfferAnswer`, step by step.
  By the stages of `CalmInv` only the side that offers waits and only for the offer under
  negotiation (`HeldStage`), so at most one offer is open (`OneOpen`) and none when the
  next is set; the answerer has its half of the session before the answer is on the way.
  Every other step leaves the connection a side has, or what it has negotiated and
  waits for, as it was (`HeldKept`), or ends `calm`.
- `Candidates` (`NoCandidateStranded`), by `CandidatesWait`, collisions and all: an early
  candidate is in the buffer only while the current connection has no remote description
  (`EarlyWaits`); while a candidate is looked up for a connection no later one has a
  description (`LookupsFirst`), so a late lookup on a replaced connection does not break
  this, and the drain that follows a description finds its candidate; a connection not yet
  created has no description (`Untouched`). The second part, under `calm`, is an action property, from
  `CalmInv`: there is one connection to look up and to drain into. Refused candidates are
  not in the claim.
- `Waits` (`NobodyWaitsInVain`), collisions and all, by `LifeInv` and `WaitInv`. `LifeInv`
  follows the number of an offer, whose handlers may be in any queue and any order: it is
  made by one handler (`MadeOnce`), sent once it is made (`SentFirst`), arrives in order
  (`InOrder`, so a second copy is always recognised), is handled by one handler and
  answered by one connection (`TakenOnce`), an answer one has had was sent
  (`AnswersSent`), and whoever has the offer of the other is about to answer
  (`RemoteIsAnswered`). `WaitInv` names, for a connection that waits, what ends the wait
  (`AnswerNears`, `OfferNears`, `Handling`). The hard case is an answer on which the wait
  depends and which the waiting side would skip as a copy: `AnswerMade` only counts on an
  operation that has no answer with the last number behind it, and by `LifeInv` no new
  one gets that number. A lost socket takes with it what was to end a wait, so all this
  holds until the first `Reconnect`.

`AudioCallsProofs`, for any users, devices and number of calls: `TypeCorrect` (with
`Lookups`: every `hget` of a call is that of a call there is); `EntriesBacked` by
`OrderInv`, which says what a socket has on the wire at each place of its handlers: its
`hset` comes before all else and is executed before its `hget` (`CommandOrder`), and a
reply that names another socket is still right when it arrives (`ReplyOrder`), so that
neither a finished handler nor a late `hset` leaves an entry behind; `CallsRing` by `RingInv`, which adds
that a cleaned-up socket stays so (`GoneStay`) and that a lookup answers a socket of
the callee that had not been cleaned up when the call began (`LookupsFresh`); and
`MissesNeedDepartures` (`MissedNeedsDeparture`) by `MissInv`: a user who is in the hash, or
had a disconnect handler finish, stays so (`Found`, which only the `hdel` of a finishing
handler could end), whoever is up is found once its `hset` is executed (`UpIsFound`),
and so is the callee of a call that has an `online` device (`OnlineIsFound`).

`AccountsProofs`, for any requests, accounts from before and size of the pool.
`RequestShape` ties the place of a handler to its operation and to what its transaction
has inserted; it is inductive with `TypeOK`, and the
others are inductive relative to the two:

- `TypeCorrect`; `AccountsAreUnique`, by `Reserved`: what open transactions have
  inserted clashes neither with an account nor with each other.
- `AccountsAreWhole`, by `RowsWithAccount` and `SessionsWithAccount`: rows only come
  with a commit, and a commit has inserted into all five tables.
- `AnswersHold`, by `OwnRow`: what row of its own a request has, place by place.
- `LogoutsAreFinal`, by `Revocations`: the session of an answered logout is revoked
  and no step makes it valid again.
- `ClientsComeBack`: a client is held exactly by the requests inside their transaction,
  so every way out of `register` releases it. With it `NoneIsStuck` (`NobodyStuck`): a
  request that holds a client and is past its first INSERT waits for nothing; if there
  is none, no uncommitted row is there to wait for, and a client is free or its
  holder may insert.

`DirectoryProofs`, for any users, requests and lists: `TypeCorrect`;
`LogsAreAllOrNothing`, by `Shape` (what a transaction has inserted at each place) and
`Whole` (a request that is not done has no row, no participant is twice in a call, and
the rows of a log are those of its list). That there are as many rows as names is a
bijection between the positions of an acceptable list and the rows (`OneRowEach`).
`BlocksHold`: the action property `BlockedStaysBlocked`, one lemma for every action.

Lemmas on queues by position (`AppendEffect`, `TailEffect`, `Appended`, `Popped`) carry
the cases of all commands in `VideoPresenceProofs` and `AudioCallsProofs`.

Only model-checked:

- Liveness (`LastOneOutGoesOffline`), and that a request that may run has an enabled
  statement, the `ENABLED` in `SomebodyProceeds`: out of the prover's reach. The rest of
  `SomebodyProceeds` is `NoneIsStuck`.

## Not modelled

- `call:invite` and `call:decline` change no state of the service: they read the
  presence, emit and publish. What they read is `Presence`. The same holds of
  `call:cancel`, `keep_alive` and the `webrtc:*` relays of audio-calls.
- `transport:connect` moves only the DTLS state inside mediasoup.
- The client's call lifecycle (call state, alone timer, the limit of three ICE
  restarts, `endCall`, the removal of peers) and call set-up (the slot for an incoming
  call, its flags and screens) are timers and interface state of one isolate. What of
  them reaches the server is in `VideoRooms` as any order of `room:join`, `room:leave`
  and `call:end`. A first participant that loses its socket while it waits alone and
  does not rejoin (`webrtc_call_service.dart:267`) is therefore in no run.
- Events a client sends before its handlers are registered (`server.ts:68`) are
  dropped without a trace in the state.
- Several processes behind the Redis adapter are in `VideoPresence` (`Node`) and its
  theorems, in no run; the other modules have one process.
- Presence, settings, profile and the reads of user-management, the HTTP routes,
  authentication, event publishing, background-processes, configuration packages,
  pages, website, generated runners and infrastructure keep no state that a property
  would be about.
