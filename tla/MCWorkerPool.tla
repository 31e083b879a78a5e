----------------------------- MODULE MCWorkerPool -----------------------------
(***************************************************************************)
(* The instance of WorkerPool that TLC checks: four workers.                *)
(***************************************************************************)
EXTENDS WorkerPool

\* Filter is the filter of a sequence, whatever the array and the worker.
ASSUME FilterAssumption ==
    \A n \in 0..4 : \A array \in [1..n -> 0..3], worker \in 1..3 :
        Filter(array, worker) = SelectSeq(array, LAMBDA w : w # worker /\ w # NoWorker)

=============================================================================
