------------------------------ MODULE WorkerPool ------------------------------
(***************************************************************************)
(* mediasoup/workerPool.ts: the array of mediasoup workers, the replacement *)
(* of a worker process that died, and the round robin that gives every new  *)
(* room's router a worker.                                                  *)
(*                                                                         *)
(* `workers` is the JavaScript array, one place up: workers[i + 1] stands    *)
(* for the code's workers[i], and NoWorker for a hole that an assignment     *)
(* beyond the end has left.                                                 *)
(***************************************************************************)
EXTENDS Naturals, Sequences, FiniteSets

CONSTANTS
    NumWorkers,  \* NUM_WORKERS: at most 4, one per core
    Cycle        \* workerIndex is kept modulo Cycle

\* Every length the array can have divides Cycle, so that taking workerIndex
\* modulo Cycle first changes no choice.
ASSUME ConstantsAssumption ==
    /\ NumWorkers \in Nat \ {0} /\ Cycle \in Nat \ {0}
    /\ \A n \in 1..NumWorkers : Cycle % n = 0

\* The worker initWorkerPool makes with index w - 1, and its replacement.
Original == 1..NumWorkers
Replacement(w) == NumWorkers + w
Worker == 1..(2 * NumWorkers)
NoWorker == 0

VARIABLES
    up,           \* the process has not died of a failed replacement
    workers,      \* the array
    workerIndex,
    launched,     \* workers initWorkerPool has made so far
    alive,        \* worker processes that run
    pending,      \* originals that died and whose createWorker is under way
    failures      \* history: createRouter calls that failed in a row, since the
                  \* array and its workers last changed
vars == <<up, workers, workerIndex, launched, alive, pending, failures>>

TypeOK ==
    /\ up \in BOOLEAN
    /\ workers \in Seq(Worker \cup {NoWorker})
    /\ workerIndex \in 0..(Cycle - 1)
    /\ launched \in 0..NumWorkers
    /\ alive \subseteq Worker
    /\ pending \subseteq 1..launched
    /\ failures \in 0..NumWorkers

Init ==
    /\ up = TRUE
    /\ workers = <<>> /\ workerIndex = 0
    /\ launched = 0 /\ alive = {} /\ pending = {} /\ failures = 0

-----------------------------------------------------------------------------
\* array.filter((w) => w !== worker), which skips holes too: place n of the
\* result is the place of the array that is the n-th to be kept.
Filter(array, worker) ==
    LET kept == {i \in DOMAIN array : array[i] \notin {worker, NoWorker}}
        Place(n) == CHOOSE i \in kept : Cardinality({j \in kept : j <= i}) = n
    IN  [n \in 1..Cardinality(kept) |-> array[Place(n)]]

\* Mutant: no place beyond the end.
PutInPlace(w, worker) ==
    [i \in DOMAIN workers |-> IF i = w THEN worker ELSE workers[i]]

\* workers[w - 1] = worker: within the array or beyond its end.
Put(w, worker) ==
    [i \in 1..(IF w > Len(workers) THEN w ELSE Len(workers)) |->
        IF i = w THEN worker
        ELSE IF i <= Len(workers) THEN workers[i] ELSE NoWorker]

\* Mutant: the worker is known by the count before it.
LaunchOffByOne ==
    /\ up /\ launched < NumWorkers
    /\ launched' = launched + 1
    /\ workers' = Append(workers, launched)
    /\ alive' = alive \cup {launched}
    /\ failures' = 0
    /\ UNCHANGED <<up, workerIndex, pending>>

\* One turn of initWorkerPool's loop.
Launch ==
    /\ up /\ launched < NumWorkers
    /\ launched' = launched + 1
    /\ workers' = Append(workers, launched + 1)
    /\ alive' = alive \cup {launched + 1}
    /\ failures' = 0
    /\ UNCHANGED <<up, workerIndex, pending>>

\* The 'died' listener, which only the workers of initWorkerPool have.
OriginalDied(w) ==
    /\ up /\ w \in Original \cap alive
    /\ alive' = alive \ {w}
    /\ workers' = Filter(workers, w)
    /\ pending' = pending \cup {w}
    /\ failures' = 0
    /\ UNCHANGED <<up, workerIndex, launched>>

\* A replacement has no listener: it stays in the array.
ReplacementDied(w) ==
    /\ up /\ Replacement(w) \in alive
    /\ alive' = alive \ {Replacement(w)}
    /\ failures' = 0
    /\ UNCHANGED <<up, workers, workerIndex, launched, pending>>

\* createWorker(w - 1) after its await.
Replaced(w) ==
    /\ up /\ w \in pending
    /\ pending' = pending \ {w}
    /\ alive' = alive \cup {Replacement(w)}
    /\ workers' = Put(w, Replacement(w))
    /\ failures' = 0
    /\ UNCHANGED <<up, workerIndex, launched>>

\* createWorker rejects; the listener does not wait for it, so nothing catches
\* the rejection and Node ends the process.
ReplacementFailed(w) ==
    /\ up /\ w \in pending
    /\ up' = FALSE
    /\ UNCHANGED <<workers, workerIndex, launched, alive, pending, failures>>

\* getNextWorker: undefined when the array is empty (the index is NaN).
NextWorker ==
    IF workers = <<>> THEN NoWorker ELSE workers[(workerIndex % Len(workers)) + 1]

\* Mutant: the index moves on only when the router was made.
CreateRouterStays ==
    /\ up /\ launched = NumWorkers
    /\ workerIndex' = IF NextWorker \in alive THEN (workerIndex + 1) % Cycle ELSE workerIndex
    /\ failures' = IF NextWorker \in alive THEN 0
                   ELSE IF failures < NumWorkers THEN failures + 1 ELSE failures
    /\ UNCHANGED <<up, workers, launched, alive, pending>>

\* createRouter: it throws on a hole, rejects on a dead worker, and has moved
\* on either way.  The server listens once the pool is complete.
CreateRouter ==
    /\ up /\ launched = NumWorkers
    /\ workerIndex' = (workerIndex + 1) % Cycle
    /\ failures' = IF NextWorker \in alive THEN 0
                   ELSE IF failures < NumWorkers THEN failures + 1 ELSE failures
    /\ UNCHANGED <<up, workers, launched, alive, pending>>

Next ==
    \/ Launch \/ CreateRouter
    \/ \E w \in Original :
           OriginalDied(w) \/ ReplacementDied(w) \/ Replaced(w) \/ ReplacementFailed(w)

Spec == Init /\ [][Next]_vars

-----------------------------------------------------------------------------
(* Properties *)

InPool == {workers[i] : i \in DOMAIN workers}

\* Short of the death of a replacement, which nothing replaces, the pool always
\* comes back: once no replacement is under way it holds a running worker, for
\* all the shifting and overwriting of its places (workerPool.ts:51 and 66).
PoolRecovers ==
    (launched > 0 /\ pending = {}
        /\ \A w \in Original : Replacement(w) \in InPool => Replacement(w) \in alive)
    => InPool \cap alive # {}

\* As long as one worker of the pool runs, holes and dead workers fail fewer
\* joins in a row than the pool has places: the round robin moves on whatever
\* becomes of its choice (workerPool.ts:75).
RoundRobinFindsTheLiving == InPool \cap alive # {} => failures < Len(workers)

=============================================================================
