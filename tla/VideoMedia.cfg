\* Two users, one of whom may rejoin; one producer, one consumer.
CONSTANTS
    alice = alice
    bob = bob
    User = {alice, bob}
    MaxParticipants = 3
    MaxTransports = 2
    MaxProducers = 1
    MaxConsumers = 1
    MaxRequests = 2
SPECIFICATION Spec
INVARIANTS
    TypeOK
    EveryProducerIsKnown
    ListedProducersAreOpen
    DrainedConsumersAreLive
    LastWordIsTrue
    TidyLeaversLeaveNothing
SYMMETRY UserSymmetry
CHECK_DEADLOCK FALSE
