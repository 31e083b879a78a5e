--------------------------- MODULE WorkerPoolProofs ---------------------------
(***************************************************************************)
(* Proofs about WorkerPool: for every number of workers, the pool recovers   *)
(* from the deaths of its workers, and the round robin reaches one that      *)
(* runs in as many calls as the pool has places.                            *)
(*                                                                         *)
(* The second is an argument about remainders: calls that fail in a row look *)
(* at successive places modulo the length of the array, so as many calls as  *)
(* places have looked at every place.                                       *)
(***************************************************************************)
EXTENDS WorkerPool, Integers, FiniteSetTheorems, TLAPS

-----------------------------------------------------------------------------
(* Remainders *)

\* Division with remainder.
LEMMA Division ==
    ASSUME NEW a \in Nat, NEW n \in Nat \ {0}
    PROVE  \E k \in Nat, r \in 0..(n - 1) : a = n * k + r /\ a % n = r
PROOF
<1>1. /\ a % n \in 0..(n - 1)
      /\ a \div n \in Int
    BY SMTT(60)
<1>2. ASSUME NEW k, NEW r, k = a \div n, r = a % n
      PROVE  a = n * k + r
    BY <1>2, SMTT(60)
<1>3. a \div n \in Nat
    BY <1>1, SMTT(60)
<1>. QED BY <1>1, <1>2, <1>3

\* What is left of a multiple and a rest is the rest.
LEMMA RestIsLeft ==
    ASSUME NEW n \in Nat \ {0}, NEW k \in Nat, NEW r \in 0..(n - 1)
    PROVE  (n * k + r) % n = r
PROOF OBVIOUS

\* A remainder of a remainder by a multiple.
LEMMA RestOfRest ==
    ASSUME NEW a \in Nat, NEW c \in Nat \ {0}, NEW n \in Nat \ {0}, c % n = 0
    PROVE  (a % c) % n = a % n
PROOF
<1>1. PICK k \in Nat, r \in 0..(c - 1) : a = c * k + r /\ a % c = r
    BY Division
<1>2. PICK m \in Nat, z \in 0..(n - 1) : c = n * m + z /\ c % n = z
    BY Division
<1>3. c = n * m
    BY <1>2
<1>4. PICK j \in Nat, s \in 0..(n - 1) : r = n * j + s /\ r % n = s
  <2>1. r \in Nat
      OBVIOUS
  <2>. QED BY <2>1, Division
<1>5. m * k \in Nat /\ m * k + j \in Nat
    OBVIOUS
<1>6. a = n * (m * k) + (n * j + s)
  <2>1. (n * m) * k = n * (m * k)
      OBVIOUS
  <2>. QED BY <1>1, <1>3, <1>4, <2>1
<1>7. a = n * (m * k + j) + s
  <2>1. n * (m * k + j) = n * (m * k) + n * j
      OBVIOUS
  <2>2. n * (m * k) \in Int /\ n * j \in Int
      OBVIOUS
  <2>. QED BY <1>6, <2>1, <2>2
<1>8. a % n = s
    BY <1>5, <1>7, RestIsLeft
<1>. QED BY <1>1, <1>4, <1>8

\* A counter kept modulo c counts modulo c.
LEMMA RestOfSuccessor ==
    ASSUME NEW a \in Nat, NEW c \in Nat \ {0}
    PROVE  ((a % c) + 1) % c = (a + 1) % c
PROOF
<1>1. PICK k \in Nat, r \in 0..(c - 1) : a = c * k + r /\ a % c = r
    BY Division
<1>2. CASE r = c - 1
  <2>1. c * (k + 1) = c * k + c
      OBVIOUS
  <2>2. c * k \in Int
      OBVIOUS
  <2>3. a + 1 = c * (k + 1) + 0
      BY <1>1, <1>2, <2>1, <2>2
  <2>4. (a + 1) % c = 0
    <3>1. k + 1 \in Nat /\ 0 \in 0..(c - 1)
        OBVIOUS
    <3>2. (c * (k + 1) + 0) % c = 0
        BY <3>1, RestIsLeft
    <3>. QED BY <2>3, <3>2
  <2>5. c * 1 + 0 = c /\ (c * 1 + 0) % c = 0
      BY RestIsLeft
  <2>6. (a % c) + 1 = c
      BY <1>1, <1>2
  <2>. QED BY <2>4, <2>5, <2>6
<1>3. CASE r # c - 1
  <2>1. r + 1 \in 0..(c - 1)
      BY <1>3
  <2>2. c * k \in Int
      OBVIOUS
  <2>3. a + 1 = c * k + (r + 1)
      BY <1>1, <2>2
  <2>4. (a + 1) % c = r + 1
      BY <2>1, <2>3, RestIsLeft
  <2>5. c * 0 + (r + 1) = r + 1 /\ (c * 0 + (r + 1)) % c = r + 1
      BY <2>1, RestIsLeft
  <2>. QED BY <1>1, <2>4, <2>5
<1>. QED BY <1>2, <1>3

\* As many successive numbers as n leave every remainder.
LEMMA EveryRest ==
    ASSUME NEW b \in Nat, NEW n \in Nat \ {0}, NEW p \in 0..(n - 1)
    PROVE  \E j \in 0..(n - 1) : (b + j) % n = p
PROOF
<1>1. PICK k \in Nat, r \in 0..(n - 1) : b = n * k + r /\ b % n = r
    BY Division
<1>2. n * k \in Int
    OBVIOUS
<1>3. CASE r <= p
  <2>1. p - r \in 0..(n - 1)
      BY <1>3
  <2>2. b + (p - r) = n * k + p
      BY <1>1, <1>2
  <2>3. (b + (p - r)) % n = p
      BY <2>2, RestIsLeft
  <2>. QED BY <2>1, <2>3
<1>4. CASE ~(r <= p)
  <2>1. (p + n) - r \in 0..(n - 1)
      BY <1>4
  <2>2. n * (k + 1) = n * k + n
      OBVIOUS
  <2>3. b + ((p + n) - r) = n * (k + 1) + p
      BY <1>1, <1>2, <2>2
  <2>4. (n * (k + 1) + p) % n = p
    <3>1. k + 1 \in Nat
        OBVIOUS
    <3>. QED BY <3>1, RestIsLeft
  <2>. QED BY <2>1, <2>3, <2>4
<1>. QED BY <1>3, <1>4

-----------------------------------------------------------------------------
(* The array *)

\* Filter is a sequence, no longer than the array, of what the array holds
\* other than the worker and holes.
LEMMA FilterEffect ==
    ASSUME NEW S, NEW array \in Seq(S), NEW worker
    PROVE  /\ Filter(array, worker) \in Seq(S)
           /\ Len(Filter(array, worker)) <= Len(array)
           /\ \A n \in DOMAIN Filter(array, worker) : \E i \in DOMAIN array :
                  /\ Filter(array, worker)[n] = array[i]
                  /\ array[i] \notin {worker, NoWorker}
PROOF
<1>. DEFINE kept == {i \in DOMAIN array : array[i] \notin {worker, NoWorker}}
            UpTo(i) == {j \in kept : j <= i}
            rank == [i \in kept |-> Cardinality(UpTo(i))]
            Place(n) == CHOOSE i \in kept : Cardinality(UpTo(i)) = n
            N == Cardinality(kept)
<1>1. Filter(array, worker) = [n \in 1..N |-> array[Place(n)]]
    BY DEF Filter
<1>2. /\ IsFiniteSet(DOMAIN array) /\ Cardinality(DOMAIN array) = Len(array)
  <2>1. DOMAIN array = 1..Len(array) /\ Len(array) \in Nat
      OBVIOUS
  <2>. QED BY <2>1, FS_Interval
<1>3. IsFiniteSet(kept) /\ N <= Len(array) /\ N \in Nat
  <2>1. kept \in SUBSET DOMAIN array
      OBVIOUS
  <2>2. IsFiniteSet(kept) /\ N <= Len(array)
      BY <1>2, <2>1, FS_Subset
  <2>. QED BY <2>2, FS_CardinalityType
<1>4. ASSUME NEW i \in kept
      PROVE  IsFiniteSet(UpTo(i)) /\ Cardinality(UpTo(i)) \in 1..N
  <2>1. UpTo(i) \in SUBSET kept
      OBVIOUS
  <2>2. IsFiniteSet(UpTo(i)) /\ Cardinality(UpTo(i)) <= N
      BY <1>3, <2>1, FS_Subset
  <2>3. i \in UpTo(i)
      OBVIOUS
  <2>4. Cardinality(UpTo(i)) # 0
      BY <2>2, <2>3, FS_EmptySet
  <2>5. Cardinality(UpTo(i)) \in Nat
      BY <2>2, FS_CardinalityType
  <2>. HIDE DEF N, UpTo
  <2>. QED BY <1>3, <2>2, <2>4, <2>5
<1>5. ASSUME NEW i \in kept, NEW k \in kept, i < k
      PROVE  Cardinality(UpTo(i)) # Cardinality(UpTo(k))
  <2>1. UpTo(i) \in SUBSET UpTo(k)
      BY <1>5
  <2>2. k \in UpTo(k) /\ k \notin UpTo(i)
      BY <1>5
  <2>. QED BY <1>4, <2>1, <2>2, FS_Subset
<1>6. rank \in Injection(kept, 1..N)
  <2>1. rank \in [kept -> 1..N]
      BY <1>4
  <2>2. \A i, k \in kept : i # k => i < k \/ k < i
      OBVIOUS
  <2>3. ASSUME NEW i \in kept, NEW k \in kept, rank[i] = rank[k]
        PROVE  i = k
    <3>1. rank[i] = Cardinality(UpTo(i)) /\ rank[k] = Cardinality(UpTo(k))
        OBVIOUS
    <3>. QED BY <1>5, <2>2, <2>3, <3>1
  <2>4. IsInjective(rank)
    <3>1. DOMAIN rank = kept
        OBVIOUS
    <3>. HIDE DEF rank
    <3>. QED BY <2>3, <3>1 DEF IsInjective
  <2>. QED BY <2>1, <2>4 DEF Injection
<1>7. rank \in Surjection(kept, 1..N)
  <2>1. IsFiniteSet(1..N) /\ Cardinality(1..N) = N
      BY <1>3, FS_Interval
  <2>. HIDE DEF rank, kept
  <2>. QED BY <1>6, <2>1, FS_Injection
<1>8. ASSUME NEW n \in 1..N
      PROVE  Place(n) \in kept
  <2>1. \E i \in kept : rank[i] = n
      BY <1>7 DEF Surjection
  <2>2. \E i \in kept : Cardinality(UpTo(i)) = n
      BY <2>1
  <2>. QED BY <2>2
<1>9. \A n \in 1..N : /\ Place(n) \in DOMAIN array
                      /\ array[Place(n)] \notin {worker, NoWorker}
    BY <1>8
<1>10. \A n \in 1..N : array[Place(n)] \in S
  <2>1. \A i \in DOMAIN array : array[i] \in S
      OBVIOUS
  <2>. HIDE DEF N, Place
  <2>. QED BY <1>9, <2>1
<1>11. /\ [n \in 1..N |-> array[Place(n)]] \in Seq(S)
       /\ Len([n \in 1..N |-> array[Place(n)]]) = N
  <2>. HIDE DEF N, Place
  <2>. QED BY <1>3, <1>10
<1>. HIDE DEF N, Place, kept
<1>. QED BY <1>1, <1>3, <1>9, <1>11

-----------------------------------------------------------------------------
(* The invariants *)

\* The array has no more places than workers were made.
Short == Len(workers) <= launched

\* The originals of the array run.
OriginalsRun ==
    /\ alive \cap Original \subseteq 1..launched
    /\ InPool \cap Original \subseteq alive

\* Once the pool was begun and nothing is under way, it holds a worker.
Held == launched > 0 /\ pending = {} => \E i \in DOMAIN workers : workers[i] # NoWorker

\* The calls that failed looked at successive places, and none of them held a
\* worker that runs.
LookedAt(b, j) == workers # <<>> => workers[((b + j) % Len(workers)) + 1] \notin alive
FailedInARow ==
    \E b \in Nat :
        /\ workerIndex = (b + failures) % Cycle
        /\ \A j \in 0..(failures - 1) : LookedAt(b, j)

Inv == TypeOK /\ Short /\ OriginalsRun /\ Held /\ FailedInARow

LEMMA InitInv == Init => Inv
PROOF
<1>. SUFFICES ASSUME Init PROVE Inv
    OBVIOUS
<1>1. TypeOK
  <2>1. <<>> \in Seq(Worker \cup {NoWorker})
      OBVIOUS
  <2>. QED BY <2>1, ConstantsAssumption DEF Init, TypeOK
<1>2. Short /\ OriginalsRun /\ Held
    BY DEF Init, Short, OriginalsRun, Held, InPool
<1>3. FailedInARow
  <2>1. (Cycle * 0 + 0) % Cycle = 0
    <3>1. 0 \in 0..(Cycle - 1)
        BY ConstantsAssumption
    <3>. QED BY <3>1, RestIsLeft, ConstantsAssumption
  <2>2. 0 % Cycle = 0
      BY <2>1, ConstantsAssumption
  <2>. QED BY <2>2 DEF Init, FailedInARow
<1>. QED BY <1>1, <1>2, <1>3 DEF Inv

\* A row of failures begins anew wherever the index stands.
LEMMA RowBegins ==
    ASSUME failures' = 0, workerIndex' \in 0..(Cycle - 1)
    PROVE  FailedInARow'
PROOF
<1>1. ASSUME NEW w \in 0..(Cycle - 1) PROVE w \in Nat /\ w = (w + 0) % Cycle
  <2>1. (Cycle * 0 + w) % Cycle = w
      BY RestIsLeft, ConstantsAssumption
  <2>2. Cycle * 0 + w = w + 0 /\ w \in Nat
      BY ConstantsAssumption
  <2>. QED BY <2>1, <2>2
<1>2. workerIndex' \in Nat /\ workerIndex' = (workerIndex' + failures') % Cycle
    BY <1>1
<1>3. 0..(failures' - 1) = {}
    OBVIOUS
<1>. QED BY <1>2, <1>3 DEF FailedInARow

LEMMA LaunchInv == ASSUME Inv, Launch PROVE Inv'
PROOF
<1>. USE ConstantsAssumption
<1>1. TypeOK'
  <2>1. launched + 1 \in Worker
      BY DEF Inv, TypeOK, Launch, Worker
  <2>2. workers' \in Seq(Worker \cup {NoWorker})
      BY <2>1 DEF Inv, TypeOK, Launch
  <2>3. launched' \in 0..NumWorkers /\ pending' \subseteq 1..launched'
      BY DEF Inv, TypeOK, Launch
  <2>. QED BY <2>1, <2>2, <2>3 DEF Inv, TypeOK, Launch
<1>2. workers \in Seq(Worker \cup {NoWorker}) /\ Len(workers) \in Nat
    BY DEF Inv, TypeOK
<1>3. /\ Len(workers') = Len(workers) + 1
      /\ DOMAIN workers' = 1..(Len(workers) + 1)
      /\ workers'[Len(workers) + 1] = launched + 1
      /\ \A i \in DOMAIN workers : workers'[i] = workers[i]
    BY <1>2 DEF Launch
<1>4. Short'
    BY <1>2, <1>3 DEF Inv, TypeOK, Short, Launch
<1>5. OriginalsRun'
  <2>1. alive' \cap Original \subseteq 1..launched'
      BY DEF Inv, OriginalsRun, TypeOK, Launch, Original
  <2>2. ASSUME NEW i \in DOMAIN workers', workers'[i] \in Original
        PROVE  workers'[i] \in alive'
    <3>1. CASE i = Len(workers) + 1
        BY <1>3, <3>1 DEF Launch
    <3>2. CASE i \in DOMAIN workers
        BY <1>3, <2>2, <3>2 DEF Inv, OriginalsRun, InPool, Launch
    <3>. QED BY <1>2, <1>3, <3>1, <3>2
  <2>. QED BY <2>1, <2>2 DEF OriginalsRun, InPool
<1>6. Held'
  <2>1. launched + 1 # NoWorker
      BY DEF Inv, TypeOK, NoWorker
  <2>2. Len(workers) + 1 \in DOMAIN workers'
      BY <1>2, <1>3
  <2>. QED BY <1>3, <2>1, <2>2 DEF Held
<1>7. FailedInARow'
    BY <1>1, RowBegins DEF Launch, TypeOK
<1>. QED BY <1>1, <1>4, <1>5, <1>6, <1>7 DEF Inv

LEMMA OriginalDiedInv ==
    ASSUME Inv, NEW w \in Original, OriginalDied(w) PROVE Inv'
PROOF
<1>. USE ConstantsAssumption
<1>1. workers \in Seq(Worker \cup {NoWorker}) /\ Len(workers) \in Nat
    BY DEF Inv, TypeOK
<1>2. /\ workers' \in Seq(Worker \cup {NoWorker})
      /\ Len(workers') <= Len(workers)
      /\ \A n \in DOMAIN workers' : \E i \in DOMAIN workers :
             workers'[n] = workers[i] /\ workers[i] \notin {w, NoWorker}
    BY <1>1, FilterEffect DEF OriginalDied
<1>3. w \in 1..launched
    BY DEF Inv, OriginalsRun, OriginalDied
<1>4. TypeOK'
    BY <1>2, <1>3 DEF Inv, TypeOK, OriginalDied
<1>5. Short'
  <2>1. Len(workers') \in Nat /\ launched' = launched /\ launched \in Nat
      BY <1>2 DEF OriginalDied, Inv, TypeOK
  <2>. QED BY <1>1, <1>2, <2>1 DEF Inv, Short
<1>6. OriginalsRun'
  <2>1. alive' \cap Original \subseteq 1..launched'
      BY DEF Inv, OriginalsRun, OriginalDied
  <2>2. \A n \in DOMAIN workers' : workers'[n] \in InPool /\ workers'[n] # w
      BY <1>2 DEF InPool
  <2>. QED BY <2>1, <2>2 DEF Inv, OriginalsRun, InPool, OriginalDied
<1>7. Held'
    BY DEF Held, OriginalDied
<1>8. FailedInARow'
    BY <1>4, RowBegins DEF OriginalDied, TypeOK
<1>. QED BY <1>4, <1>5, <1>6, <1>7, <1>8 DEF Inv

LEMMA ReplacementDiedInv ==
    ASSUME Inv, NEW w \in Original, ReplacementDied(w) PROVE Inv'
PROOF
<1>. USE ConstantsAssumption
<1>1. TypeOK'
    BY DEF Inv, TypeOK, ReplacementDied
<1>2. Short' /\ Held'
    BY DEF Inv, Short, Held, ReplacementDied
<1>3. OriginalsRun'
  <2>1. Replacement(w) \notin Original
      BY DEF Replacement, Original
  <2>2. InPool' = InPool
      BY DEF InPool, ReplacementDied
  <2>. QED BY <2>1, <2>2 DEF Inv, OriginalsRun, ReplacementDied
<1>4. FailedInARow'
    BY <1>1, RowBegins DEF ReplacementDied, TypeOK
<1>. QED BY <1>1, <1>2, <1>3, <1>4 DEF Inv

LEMMA ReplacedInv ==
    ASSUME Inv, NEW w \in Original, Replaced(w) PROVE Inv'
PROOF
<1>. USE ConstantsAssumption
<1>1. workers \in Seq(Worker \cup {NoWorker}) /\ Len(workers) \in Nat
    BY DEF Inv, TypeOK
<1>2. w \in 1..launched /\ launched \in 0..NumWorkers
    BY DEF Inv, TypeOK, Replaced
<1>3. Replacement(w) \in Worker /\ Replacement(w) \notin Original /\ Replacement(w) # NoWorker
    BY <1>2 DEF Replacement, Worker, Original, NoWorker
<1>4. PICK n \in Nat : /\ n = IF w > Len(workers) THEN w ELSE Len(workers)
                       /\ n >= w /\ n >= Len(workers) /\ (n = w \/ n = Len(workers))
    BY <1>1, <1>2
<1>5. workers' = [i \in 1..n |-> IF i = w THEN Replacement(w)
                                 ELSE IF i <= Len(workers) THEN workers[i] ELSE NoWorker]
    BY <1>4 DEF Replaced, Put
<1>6. \A i \in 1..n :
          \/ i = w /\ workers'[i] = Replacement(w)
          \/ i \in DOMAIN workers /\ workers'[i] = workers[i]
          \/ workers'[i] = NoWorker
    BY <1>1, <1>5
<1>7. \A i \in DOMAIN workers : workers[i] \in Worker \cup {NoWorker}
    BY <1>1
<1>8. workers' \in Seq(Worker \cup {NoWorker}) /\ Len(workers') = n /\ DOMAIN workers' = 1..n
  <2>1. \A i \in 1..n : workers'[i] \in Worker \cup {NoWorker}
      BY <1>3, <1>6, <1>7
  <2>. QED BY <1>5, <2>1
<1>9. TypeOK'
    BY <1>3, <1>8 DEF Inv, TypeOK, Replaced
<1>10. Short'
    BY <1>1, <1>2, <1>4, <1>8 DEF Inv, Short, Replaced
<1>11. OriginalsRun'
  <2>1. alive' \cap Original \subseteq 1..launched'
      BY <1>3 DEF Inv, OriginalsRun, Replaced
  <2>2. NoWorker \notin Original
      BY DEF NoWorker, Original
  <2>3. \A i \in DOMAIN workers' : workers'[i] \in Original => workers'[i] \in InPool
      BY <1>3, <1>6, <1>8, <2>2 DEF InPool
  <2>. QED BY <2>1, <2>3 DEF Inv, OriginalsRun, InPool, Replaced
<1>12. Held'
  <2>1. w \in DOMAIN workers' /\ workers'[w] = Replacement(w)
      BY <1>2, <1>4, <1>5, <1>8
  <2>. QED BY <1>3, <2>1 DEF Held
<1>13. FailedInARow'
    BY <1>9, RowBegins DEF Replaced, TypeOK
<1>. QED BY <1>9, <1>10, <1>11, <1>12, <1>13 DEF Inv

\* The call a row of failures is continued with looks at the next place.
LEMMA NextPlace ==
    ASSUME Inv, NEW b \in Nat, workerIndex = (b + failures) % Cycle
    PROVE  NextWorker \notin alive <=> LookedAt(b, failures)
PROOF
<1>. USE ConstantsAssumption
<1>1. CASE workers = <<>>
  <2>1. NoWorker \notin alive
      BY DEF Inv, TypeOK, NoWorker, Worker
  <2>. QED BY <1>1, <2>1 DEF NextWorker, LookedAt
<1>2. CASE workers # <<>>
  <2>1. Len(workers) \in 1..NumWorkers
      BY <1>2 DEF Inv, TypeOK, Short
  <2>2. Cycle % Len(workers) = 0
      BY <2>1
  <2>3. b + failures \in Nat
      BY DEF Inv, TypeOK
  <2>4. workerIndex % Len(workers) = (b + failures) % Len(workers)
    <3>1. Len(workers) \in Nat \ {0}
        BY <2>1
    <3>. QED BY <2>2, <2>3, <3>1, RestOfRest
  <2>. QED BY <1>2, <2>4 DEF NextWorker, LookedAt
<1>. QED BY <1>1, <1>2

LEMMA CreateRouterInv == ASSUME Inv, CreateRouter PROVE Inv'
PROOF
<1>. USE ConstantsAssumption
<1>1. workerIndex' \in 0..(Cycle - 1)
  <2>1. workerIndex + 1 \in Nat
      BY DEF Inv, TypeOK
  <2>2. PICK k \in Nat, r \in 0..(Cycle - 1) : (workerIndex + 1) % Cycle = r
      BY <2>1, Division
  <2>. QED BY <2>2 DEF CreateRouter
<1>2. failures' \in 0..NumWorkers
    BY DEF Inv, TypeOK, CreateRouter
<1>3. TypeOK' /\ Short' /\ Held'
    BY <1>1, <1>2 DEF Inv, TypeOK, Short, Held, CreateRouter
<1>4. OriginalsRun'
  <2>1. InPool' = InPool
      BY DEF InPool, CreateRouter
  <2>. QED BY <2>1 DEF Inv, OriginalsRun, CreateRouter
<1>5. FailedInARow'
  <2>1. CASE NextWorker \in alive
      BY <1>1, <2>1, RowBegins DEF CreateRouter
  <2>2. CASE NextWorker \notin alive
    <3>1. PICK b \in Nat : /\ workerIndex = (b + failures) % Cycle
                           /\ \A j \in 0..(failures - 1) : LookedAt(b, j)
        BY DEF Inv, FailedInARow
    <3>2. LookedAt(b, failures)
        BY <2>2, <3>1, NextPlace
    <3>3. failures \in 0..NumWorkers
        BY DEF Inv, TypeOK
    <3>4. \A j \in 0..failures : LookedAt(b, j)
        BY <3>1, <3>2, <3>3
    <3>5. workerIndex' = (b + failures + 1) % Cycle
      <4>1. b + failures \in Nat
          BY <3>3
      <4>. QED BY <3>1, <4>1, RestOfSuccessor DEF CreateRouter
    <3>6. ASSUME NEW c, NEW j PROVE LookedAt(c, j)' <=> LookedAt(c, j)
        BY DEF LookedAt, CreateRouter
    <3>7. CASE failures < NumWorkers
      <4>1. failures' = failures + 1
          BY <2>2, <3>7 DEF CreateRouter
      <4>2. b + failures' = b + failures + 1 /\ 0..(failures' - 1) = 0..failures
          BY <3>3, <4>1
      <4>3. workerIndex' = (b + failures') % Cycle
          BY <3>5, <4>2
      <4>4. \A j \in 0..(failures' - 1) : LookedAt(b, j)'
          BY <3>4, <3>6, <4>2
      <4>. QED BY <4>3, <4>4 DEF FailedInARow
    <3>8. CASE ~(failures < NumWorkers)
      <4>1. failures' = failures
          BY <2>2, <3>8 DEF CreateRouter
      <4>2. (b + 1) + failures' = b + failures + 1 /\ b + 1 \in Nat
          BY <3>3, <4>1
      <4>3. workerIndex' = ((b + 1) + failures') % Cycle
          BY <3>5, <4>2
      <4>4. ASSUME NEW j \in 0..(failures' - 1) PROVE LookedAt(b + 1, j)'
        <5>1. j + 1 \in 0..failures /\ (b + 1) + j = b + (j + 1)
            BY <3>3, <4>1
        <5>2. LookedAt(b, j + 1)
            BY <3>4, <5>1
        <5>3. LookedAt(b + 1, j)
            BY <5>1, <5>2 DEF LookedAt
        <5>. QED BY <3>6, <5>3
      <4>. QED BY <4>2, <4>3, <4>4 DEF FailedInARow
    <3>. QED BY <3>7, <3>8
  <2>. QED BY <2>1, <2>2
<1>. QED BY <1>3, <1>4, <1>5 DEF Inv

LEMMA NextInv == Inv /\ [Next]_vars => Inv'
PROOF
<1>. SUFFICES ASSUME Inv, [Next]_vars PROVE Inv'
    OBVIOUS
<1>1. CASE Launch
    BY <1>1, LaunchInv
<1>2. CASE CreateRouter
    BY <1>2, CreateRouterInv
<1>3. ASSUME NEW w \in Original, OriginalDied(w) PROVE Inv'
    BY <1>3, OriginalDiedInv
<1>4. ASSUME NEW w \in Original, ReplacementDied(w) PROVE Inv'
    BY <1>4, ReplacementDiedInv
<1>5. ASSUME NEW w \in Original, Replaced(w) PROVE Inv'
    BY <1>5, ReplacedInv
<1>6. ASSUME NEW w \in Original, ReplacementFailed(w) PROVE Inv'
    BY <1>6 DEF ReplacementFailed, Inv, TypeOK, Short, OriginalsRun, InPool, Held,
                FailedInARow, LookedAt
<1>7. CASE UNCHANGED vars
    BY <1>7 DEF vars, Inv, TypeOK, Short, OriginalsRun, InPool, Held, FailedInARow, LookedAt
<1>. QED BY <1>1, <1>2, <1>3, <1>4, <1>5, <1>6, <1>7 DEF Next

-----------------------------------------------------------------------------
(* The theorems *)

LEMMA SpecInv == Spec => []Inv
PROOF
<1>. QED BY InitInv, NextInv, PTL DEF Spec

\* The array holds workers and holes, and nothing runs or is under way that was
\* not made (workerPool.ts: initWorkerPool, createWorker).
THEOREM TypeCorrect == Spec => []TypeOK
PROOF
<1>1. Inv => TypeOK
    BY DEF Inv
<1>. QED BY <1>1, SpecInv, PTL

\* However the deaths of originals shift the array and replacements overwrite
\* its places, the pool comes back (workerPool.ts:51 and 66).
THEOREM Recovery == Spec => []PoolRecovers
PROOF
<1>1. Inv => PoolRecovers
  <2>. SUFFICES ASSUME Inv, launched > 0, pending = {},
                       \A w \in Original : Replacement(w) \in InPool => Replacement(w) \in alive
                PROVE  InPool \cap alive # {}
      BY DEF PoolRecovers
  <2>1. PICK i \in DOMAIN workers : workers[i] # NoWorker
      BY DEF Inv, Held
  <2>2. workers[i] \in Worker /\ workers[i] \in InPool
      BY <2>1 DEF Inv, TypeOK, InPool
  <2>3. CASE workers[i] \in Original
      BY <2>2, <2>3 DEF Inv, OriginalsRun
  <2>4. CASE workers[i] \notin Original
    <3>1. /\ workers[i] - NumWorkers \in Original
          /\ Replacement(workers[i] - NumWorkers) = workers[i]
        BY <2>2, <2>4, ConstantsAssumption DEF Worker, Original, Replacement
    <3>. QED BY <2>2, <3>1
  <2>. QED BY <2>3, <2>4
<1>. QED BY <1>1, SpecInv, PTL

\* While a worker of the pool runs, fewer joins fail in a row than the pool has
\* places, for every number of workers (workerPool.ts:73 to 77).
THEOREM RoundRobin == Spec => []RoundRobinFindsTheLiving
PROOF
<1>1. Inv => RoundRobinFindsTheLiving
  <2>. SUFFICES ASSUME Inv, ~(failures < Len(workers)), NEW i \in DOMAIN workers,
                       workers[i] \in alive
                PROVE  FALSE
      BY DEF RoundRobinFindsTheLiving, InPool
  <2>1. /\ Len(workers) \in Nat \ {0} /\ i - 1 \in 0..(Len(workers) - 1)
        /\ workers # <<>> /\ failures \in Nat /\ i \in Nat
      BY DEF Inv, TypeOK
  <2>2. PICK b \in Nat : \A j \in 0..(failures - 1) : LookedAt(b, j)
      BY DEF Inv, FailedInARow
  <2>3. PICK j \in 0..(Len(workers) - 1) : (b + j) % Len(workers) = i - 1
      BY <2>1, EveryRest
  <2>4. j \in 0..(failures - 1)
      BY <2>1
  <2>5. workers[((b + j) % Len(workers)) + 1] \notin alive
      BY <2>1, <2>2, <2>4 DEF LookedAt
  <2>6. ((b + j) % Len(workers)) + 1 = i
      BY <2>1, <2>3
  <2>. QED BY <2>5, <2>6
<1>. QED BY <1>1, SpecInv, PTL

=============================================================================
