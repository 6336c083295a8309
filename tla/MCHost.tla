------------------------------- MODULE MCHost -------------------------------
(* A small instance of Host: four services, one of each sort of driver.       *)
EXTENDS Host, TLC

CONSTANTS db, cache, search, other

KindOf == [s \in Services |->
    CASE s = db -> "mysql" [] s = cache -> "redis" [] s = search -> "typesense"
      [] s = other -> "native"]

Alike == Permutations(Procs)

\* Repositories: a fault or a crash; two mutations of one repository until the
\* lock refuses one of them.
Few ==
    /\ faults + crashes <= 1
    /\ raced => /\ faults = 0 /\ crashes = 0
                /\ \E p \in Procs : pc[p] = "lock" /\ lock[job[p].repo] # NoProc
                /\ \A r \in Repos : recs[r].remotes = {} /\ ~recs[r].configured

\* Web hosts: a fault or a crash, and no crash once a stale save was.
FewWeb == webFaults + webCrashes <= 1 /\ (clobbered => webCrashes = 0)

\* Services: one at a time, or one beside a service the view does not hold while
\* there is neither data nor a user; backups and users apart, a second
\* configuration only of a service without them, and with backups either an
\* application's references or a crash.
OneAtATime ==
    LET present == {s \in Services : s \in host.packages \cup resources.services} IN
    \/ /\ Cardinality(present) <= 1
       /\ Cardinality({s \in Services : host.file[s] # 0}) <= 1
       /\ dumps = {} \/ (host.users = {} /\ \A s \in Services : host.file[s] <= 1)
       /\ dumps = {} \/ app = {} \/ serviceCrashes = 0
    \/ /\ present \subseteq {other, search, db}
       /\ Cardinality(present) = 2 /\ other \in present
       /\ dumps = {} /\ host.databases = {} /\ host.users = {} /\ serviceCrashes = 0
       /\ \A s \in Services : host.data[s] = "old" /\ host.file[s] <= 1
=============================================================================
