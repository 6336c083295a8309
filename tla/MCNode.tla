------------------------------- MODULE MCNode -------------------------------
(* A small instance of Node: two processes, one of them with two threads.     *)
EXTENDS Node, FiniteSets, TLC

CONSTANTS t1, t2, t3

\* Each process is named after one of its threads.
OfThread == [t \in {t1, t2, t3} |-> IF t = t3 THEN t2 ELSE t]

Alike == Permutations(Procs) \cup Permutations(Contents) \cup Permutations(Workers)

\* Nothing is claimed once two updates overlapped, or once a journal line follows
\* a torn one; nor once two threads of a process wrote one file at once, which is
\* followed no further than their first call on a file that is not there.
Claimed ==
    /\ ~overlapped /\ ~torn
    /\ shared => use = "free" /\ stopped = 0 /\ at[t1] = "idle" /\ entry["path"] = None

\* Integration: two snapshots, two faults, kills and edits in all, and one of
\* the calls undisturbed.
Few ==
    /\ Cardinality(snapshots) <= 2
    /\ faults + edits + (IF about = "integration" THEN killed ELSE 0) <= 2
    /\ about = "integration" => \E p \in Procs : pc[p] = "idle" \/ p \notin disturbed

=============================================================================
