\* The first negotiation, ICE restarts on either side and a lost socket.
CONSTANTS
    alice = alice
    bob = bob
    Peer = {alice, bob}
    First = alice
    NoSdp = NoSdp
    MaxOffers = 3
    MaxConns = 2
    MaxCandidates = 1
    MaxReconnects = 1
SPECIFICATION Spec
INVARIANTS
    TypeOK
    MakingOfferIsBacked
    CalmAgrees
    NobodyWaitsInVain
PROPERTIES
    NoCandidateStranded
    ImplementsOfferAnswer
CHECK_DEADLOCK FALSE
