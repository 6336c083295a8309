------------------------------- MODULE Store -------------------------------
(* applications.json in two situations: several processes create and deploy  *)
(* one application beside each other, or one process does everything.  Which *)
(* of them a behaviour is about is chosen at its start.                      *)
EXTENDS ApplicationStore

CONSTANTS OneProc, OneApp, OneDomain
ASSUME StoreAssumption == OneProc \in Procs

VARIABLE about      \* "records" of one application, or a "single" process

RecordRequests == {"create", "set_repository", "deploy", "cancel"}
SingleRequests == {"create", "delete", "set_secret", "set_reference", "rotate_secret",
                   "delete_secret", "import", "apply_manifest", "deploy",
                   "cancel", "rollback"}

\* An import brings everything portable, a repository with it; what an operator
\* changes one reference at a time, is changed in one of the applications.
Coarse == {"create", "delete", "import", "deploy", "cancel"}
AskedHere(p) ==
    IF about = "single"
    THEN /\ p = OneProc /\ job'[p].op \in SingleRequests
         /\ job'[p].op = "import" => job'[p].set = Portable
         /\ job'[p].app = OneApp \/ job'[p].op \in Coarse
    ELSE job'[p].op \in RecordRequests /\ job'[p].app = OneApp /\ job'[p].domain = OneDomain

StoreInit == Init /\ about \in {"records", "single"}
StoreNext ==
    /\ \E p \in Procs :
         \/ Ask(p) /\ AskedHere(p)
         \/ Step(p)
         \/ Crash(p)
    /\ UNCHANGED about
StoreSpec == StoreInit /\ [][StoreNext]_<<vars, about>> /\ Fairness

\* Whatever fails half way in one process, the file's references, deployments
\* and directories hang together (two processes lose updates of each other).
RecordsResolveAlone == about = "single" => RecordsResolve
=============================================================================
