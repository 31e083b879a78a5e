\* Three requests of two users.
CONSTANTS
    alice = alice
    bob = bob
    User = {alice, bob}
    Stranger = Stranger
    Request = {r1, r2, r3}
    Lists <- MCLists
    None = None
SYMMETRY RequestSymmetry
SPECIFICATION Spec
INVARIANTS
    TypeOK
    LogsAreWhole
PROPERTY
    BlockedStaysBlocked
CHECK_DEADLOCK FALSE
