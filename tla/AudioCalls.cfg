\* One caller, two devices of the callee that come and go, one call.
CONSTANTS
    alice = alice
    bob = bob
    a1 = a1
    b1 = b1
    b2 = b2
    User = {alice, bob}
    Sock = {a1, b1, b2}
    UserOf <- MCUserOf
    NoSock = NoSock
    MaxCalls = 1
SPECIFICATION Spec
INVARIANTS
    TypeOK
    EntryIsBacked
    RingingRingsSomewhere
    MissedNeedsDeparture
CHECK_DEADLOCK FALSE
