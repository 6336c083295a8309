------------------------- MODULE MCApplicationStore -------------------------
(* ApplicationStore for TLC: processes, applications and domains are       *)
(* interchangeable, except where a CHOOSE fixes one of them.               *)
EXTENDS ApplicationStore, TLC

ProcSymmetry == Permutations(Procs)

\* Secret names are all different.
Pairs == Apps \X Names
DistinctNames == [r \in Pairs |-> r]

UpdateRequests == {"create", "set_repository", "set_health_check"}
=============================================================================
