------------------------------ MODULE MCStore ------------------------------
(* Store for TLC: two processes, two applications and domains, one variable. *)
EXTENDS Store

Both == RecordRequests \cup SingleRequests

\* Secret names are all different.
Pairs == Apps \X Names
DistinctNames == [r \in Pairs |-> r]
=============================================================================
