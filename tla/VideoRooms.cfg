\* Two devices of one user and one of another meet in one room.
CONSTANTS
    alice = alice
    bob = bob
    a1 = a1
    a2 = a2
    b1 = b1
    User = {alice, bob}
    Sock = {a1, a2, b1}
    UserOf <- MCUserOf
    Room = {r1}
    Obj = {o1, o2}
    NoObj = NoObj
    NoSock = NoSock
    MaxPending = 1
SPECIFICATION Spec
INVARIANTS
    TypeOK
    EmptyRoomIsBeingJoined
    MembersHearTheRoom
    MembersAreKnown
    CompletedOnce
PROPERTIES
    ImplementsCallRoom
    EvictedOnlyByOwnLeave
CHECK_DEADLOCK FALSE
