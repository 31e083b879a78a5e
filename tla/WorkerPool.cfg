\* The largest pool the code makes: NUM_WORKERS is at most 4.
CONSTANTS
    NumWorkers = 4
    Cycle = 12
SPECIFICATION Spec
INVARIANTS
    TypeOK
    PoolRecovers
    RoundRobinFindsTheLiving
CHECK_DEADLOCK FALSE
