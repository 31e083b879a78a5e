\* Three requests, one account there before, two clients.
CONSTANTS
    r1 = r1
    r2 = r2
    r3 = r3
    old = old
    n1 = n1
    n2 = n2
    m1 = m1
    m2 = m2
    m3 = m3
    p1 = p1
    p2 = p2
    Request = {r1, r2, r3}
    Seed = {old}
    SeedIdentity <- MCSeedIdentity
    Identity <- MCIdentity
    Password = {p1, p2}
    PoolSize = 2
    None = None
SYMMETRY Symmetric
SPECIFICATION Spec
INVARIANTS
    TypeOK
    UniqueAccounts
    WholeAccounts
    AnswersStayTrue
    RevokedStaysOut
    SomebodyProceeds
CHECK_DEADLOCK FALSE
