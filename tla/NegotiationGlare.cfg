\* Offers of both sides collide.
CONSTANTS
    alice = alice
    bob = bob
    Peer = {alice, bob}
    First = alice
    NoSdp = NoSdp
    MaxOffers = 3
    MaxConns = 2
    MaxCandidates = 1
    MaxReconnects = 0
SPECIFICATION Spec
INVARIANT GlareResolved
CHECK_DEADLOCK FALSE
