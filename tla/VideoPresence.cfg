\* One process, which may crash; three connections of one user, one of another.
CONSTANTS
    alice = alice
    bob = bob
    a1 = a1
    a2 = a2
    a3 = a3
    b1 = b1
    n1 = n1
    User = {alice, bob}
    Sock = {a1, a2, a3, b1}
    UserOf <- MCUserOf
    Node = {n1}
    NodeOf <- MCNodeOf
    MayCrash = TRUE
SPECIFICATION FairSpec
INVARIANTS
    TypeOK
    NoFalseOffline
    OnlineIsBacked
PROPERTIES
    LastOneOutGoesOffline
    ImplementsPresence
CHECK_DEADLOCK FALSE
