---------------------------- MODULE MCWebHost ----------------------------
(* WebHost for TLC: the processes are interchangeable.                    *)
EXTENDS WebHost, TLC

ProcSymmetry == Permutations(Procs)
=============================================================================
