---------------------------- MODULE MCDeployment ----------------------------
(* Deployment for TLC: the processes are interchangeable.                  *)
EXTENDS Deployment, TLC

ProcSymmetry == Permutations(Procs)

\* Three records with faults, and cancellations as long as there are but two.
CancelsEarly ==
    \/ Cardinality(Recorded) <= 2
    \/ /\ markers = {}
       /\ \A p \in Procs : pc[p] \notin CancelPhases
       /\ \A d \in Ids : db[d].status # "cancelling"
=============================================================================
