\* A socket leaves while its join is pending, or joins again after leaving.
CONSTANTS
    alice = alice
    bob = bob
    a1 = a1
    a2 = a2
    b1 = b1
    User = {alice, bob}
    Sock = {a1, b1}
    UserOf <- MCUserOf
    Room = {r1}
    Obj = {o1, o2}
    NoObj = NoObj
    NoSock = NoSock
    MaxPending = 1
SPECIFICATION Spec
INVARIANT LeftMeansLeft
CHECK_DEADLOCK FALSE
