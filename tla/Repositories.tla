--------------------------- MODULE Repositories ---------------------------
(***************************************************************************)
(* The registry of hosted Git repositories (repository.rs): repositories.json *)
(* and the bare directories it names, changed by several processes.  A      *)
(* mutation reads the record without a lock, may take the repository's      *)
(* try-lock to run git, and saves under the registry lock; delete saves      *)
(* without it.                                                              *)
(***************************************************************************)
EXTENDS Naturals, FiniteSets

CONSTANTS
    Procs, Repos,
    Remotes,        \* names of remotes
    NoProc,
    MaxFaults, MaxCrashes

ASSUME RepositoriesAssumption ==
    /\ NoProc \notin Procs
    /\ MaxFaults \in Nat /\ MaxCrashes \in Nat

VARIABLES
    recs,       \* repositories.json: the record of each identifier
    dir,        \* the managed path of each: "none", "partial" or "bare"
    lock,       \* the try-lock of each repository
    registry,   \* the blocking lock of repositories.json
    pc, job, faults, crashes,
    want,       \* history: the records if every mutation had run alone
    raced       \* history: two mutations of one repository, or a delete, overlapped

vars == <<recs, dir, lock, registry, pc, job, faults, crashes, want, raced>>

-----------------------------------------------------------------------------
NoRecord == [kind |-> "none", remotes |-> {}, configured |-> FALSE]

Record(kind, remotes) == [kind |-> kind, remotes |-> remotes, configured |-> FALSE]

Records == [kind : {"none", "managed", "external"}, remotes : SUBSET Remotes,
            configured : BOOLEAN]

NoJob == [op |-> "none"]

Init ==
    /\ recs = [r \in Repos |-> NoRecord] /\ want = recs
    /\ dir = [r \in Repos |-> "none"]
    /\ lock = [r \in Repos |-> NoProc] /\ registry = NoProc
    /\ pc = [p \in Procs |-> "idle"] /\ job = [p \in Procs |-> NoJob]
    /\ faults = 0 /\ crashes = 0 /\ raced = FALSE

Fault == faults < MaxFaults /\ faults' = faults + 1
NoFault == UNCHANGED faults

Registered(r) == recs[r].kind # "none"

Goto(p, label) == pc' = [pc EXCEPT ![p] = label]

\* A mutation starts with what it read of the repository.
Begin(p, r, op, rec, label) ==
    /\ pc[p] = "idle"
    /\ job' = [job EXCEPT ![p] = [op |-> op, repo |-> r, rec |-> rec,
                                  found |-> dir[r]]]
    /\ Goto(p, label)
    /\ raced' = (raced \/ \E q \in Procs \ {p} :
                     pc[q] # "idle" /\ (job[q].repo = r \/ "delete" \in {op, job[q].op}))
    /\ UNCHANGED <<recs, dir, lock, registry, faults, crashes, want>>

\* The call returns and drops its locks.
Return(p) ==
    /\ Goto(p, "idle")
    /\ job' = [job EXCEPT ![p] = NoJob]
    /\ lock' = [r \in Repos |-> IF lock[r] = p THEN NoProc ELSE lock[r]]
    /\ registry' = IF registry = p THEN NoProc ELSE registry

-----------------------------------------------------------------------------
(* What each mutation reads and checks before it locks.                    *)

\* create and import refuse a registered identifier and an existing path.
Create(p, r) ==
    /\ ~Registered(r) /\ dir[r] = "none"
    /\ Begin(p, r, "create", Record("managed", {}), "lock")

\* Mutant: the destination may exist.
ImportAnyway(p, r) ==
    /\ ~Registered(r)
    /\ \E m \in Remotes :
         Begin(p, r, "import", Record("managed", {m}), "lock")

Import(p, r) ==
    /\ ~Registered(r) /\ dir[r] = "none"
    /\ \E m \in Remotes :
         Begin(p, r, "import", Record("managed", {m}), "lock")

\* register_external leaves the repository alone and takes no repository lock.
RegisterExternal(p, r) ==
    /\ ~Registered(r)
    /\ Begin(p, r, "register", Record("external", {}), "persist")

Adopt(p, r) ==
    /\ recs[r].kind = "external" /\ dir[r] = "none"
    /\ Begin(p, r, "adopt", [recs[r] EXCEPT !.kind = "managed"], "lock")

Delete(p, r) ==
    /\ Registered(r)
    /\ Begin(p, r, "delete", recs[r], "lock")

\* The record read here is the one persisted, with this change made to it.
ConfigureDeployment(p, r) ==
    /\ Registered(r)
    /\ Begin(p, r, "configure", [recs[r] EXCEPT !.configured = TRUE], "persist")

AddRemote(p, r, m) ==
    /\ Registered(r) /\ m \notin recs[r].remotes
    /\ Begin(p, r, "add", [recs[r] EXCEPT !.remotes = @ \cup {m}], "persist")

RemoveRemote(p, r, m) ==
    /\ Registered(r) /\ m \in recs[r].remotes
    /\ Begin(p, r, "remove", [recs[r] EXCEPT !.remotes = @ \ {m}], "persist")

\* fetch and push run git under the lock and change neither record nor path.
RemoteOperation(p, r) ==
    /\ Registered(r) /\ recs[r].remotes # {}
    /\ Begin(p, r, "transfer", recs[r], "lock")

-----------------------------------------------------------------------------
TakeLock(p) ==
    LET r == job[p].repo IN
    /\ pc[p] = "lock" /\ lock[r] = NoProc
    /\ lock' = [lock EXCEPT ![r] = p]
    /\ Goto(p, CASE job[p].op = "create" -> "init"
                 [] job[p].op \in {"import", "adopt"} -> "clone"
                 [] job[p].op = "transfer" -> "transfer"
                 [] OTHER -> "trash")
    /\ UNCHANGED <<recs, dir, registry, job, faults, crashes, want, raced>>

\* try_acquire_repository refuses a busy repository.
Refused(p) ==
    /\ pc[p] = "lock" /\ lock[job[p].repo] # NoProc
    /\ Return(p)
    /\ UNCHANGED <<recs, dir, faults, crashes, want, raced>>

RunGit(p, now, next) ==
    /\ dir' = [dir EXCEPT ![job[p].repo] = now]
    /\ Goto(p, next)
    /\ UNCHANGED <<recs, lock, registry, job, faults, crashes, want, raced>>

\* The call gives up; what it leaves at the managed path.
GiveUp(p, left) ==
    /\ dir' = [dir EXCEPT ![job[p].repo] = left]
    /\ Return(p)
    /\ UNCHANGED <<recs, crashes, want, raced>>

\* git init --bare also accepts a repository that is already there.
GitInit(p) ==
    pc[p] = "init" /\ RunGit(p, "bare", "persist")

\* create returns the error of git as it is.
GitInitFails(p) ==
    /\ pc[p] = "init" /\ Fault
    /\ \E left \in {dir[job[p].repo], "partial"} : GiveUp(p, left)

GitClone(p) ==
    /\ pc[p] = "clone" /\ dir[job[p].repo] = "none"
    /\ RunGit(p, "partial", "settings")

\* git refuses a path that exists; whatever is there is removed.
GitCloneFails(p) ==
    /\ pc[p] = "clone"
    /\ IF dir[job[p].repo] = "none" THEN Fault ELSE NoFault
    /\ GiveUp(p, "none")

\* disable_repository_hooks and enable_shared_repository.
GitSettings(p) ==
    pc[p] = "settings" /\ RunGit(p, "bare", "persist")

GitSettingsFail(p) ==
    pc[p] = "settings" /\ Fault /\ GiveUp(p, "none")

\* git fetch or push; its failure is returned.
Transfer(p) ==
    /\ pc[p] = "transfer"
    /\ NoFault /\ GiveUp(p, dir[job[p].repo])

-----------------------------------------------------------------------------
(* persist: the registry lock, load, replace the record, save.             *)

\* The registry is loaded beside what the mutation holds.
Copied(work) ==
    [op |-> work.op, repo |-> work.repo, rec |-> work.rec, found |-> work.found, copy |-> recs]

\* Mutant: persist without the registry lock.
PersistLoadUnlocked(p) ==
    /\ pc[p] = "persist"
    /\ job' = [job EXCEPT ![p] = Copied(@)]
    /\ Goto(p, "save")
    /\ UNCHANGED <<recs, dir, lock, registry, faults, crashes, want, raced>>

PersistLoad(p) ==
    /\ pc[p] = "persist" /\ registry = NoProc
    /\ registry' = p
    /\ job' = [job EXCEPT ![p] = Copied(@)]
    /\ Goto(p, "save")
    /\ UNCHANGED <<recs, dir, lock, faults, crashes, want, raced>>

\* The change the mutation asked for, made to the record as it should be.
Wanted(op, rec, w) ==
    IF op \in {"create", "import", "register"} THEN rec
    ELSE IF w = NoRecord THEN w
    ELSE CASE op = "adopt" -> [w EXCEPT !.kind = "managed"]
           [] op = "configure" -> [w EXCEPT !.configured = TRUE]
           [] op = "add" -> [w EXCEPT !.remotes = @ \cup rec.remotes]
           [] op = "remove" -> [w EXCEPT !.remotes = @ \cap rec.remotes]

PersistSave(p) ==
    LET r == job[p].repo IN
    /\ pc[p] = "save"
    /\ recs' = [job[p].copy EXCEPT ![r] = job[p].rec]
    /\ want' = [want EXCEPT ![r] = Wanted(job[p].op, job[p].rec, want[r])]
    /\ Return(p)
    /\ UNCHANGED <<dir, faults, crashes, raced>>

\* The directory that create, import or adopt made is removed again.
PersistFails(p) ==
    /\ pc[p] = "save" /\ Fault
    /\ GiveUp(p, IF job[p].op \in {"create", "import", "adopt"}
                 THEN "none" ELSE dir[job[p].repo])

\* delete: managed storage is renamed into the trash, under a new name,
TrashStorage(p) ==
    LET r == job[p].repo
        moved == job[p].rec.kind = "managed" /\ dir[r] # "none"
    IN
    /\ pc[p] = "trash"
    /\ IF moved
       THEN dir' = [dir EXCEPT ![r] = "none"]
       ELSE UNCHANGED dir
    /\ job' = [job EXCEPT ![p].found = IF moved THEN dir[r] ELSE "none"]
    /\ Goto(p, "unregister")
    /\ UNCHANGED <<recs, lock, registry, faults, crashes, want, raced>>

TrashFails(p) ==
    /\ pc[p] = "trash" /\ Fault
    /\ Return(p)
    /\ UNCHANGED <<recs, dir, crashes, want, raced>>

\* then the registry is loaded and saved, without its lock.
DeleteLoad(p) ==
    /\ pc[p] = "unregister"
    /\ job' = [job EXCEPT ![p] = Copied(@)]
    /\ Goto(p, "delete")
    /\ UNCHANGED <<recs, dir, lock, registry, faults, crashes, want, raced>>

DeleteSave(p) ==
    LET r == job[p].repo IN
    /\ pc[p] = "delete"
    /\ recs' = [job[p].copy EXCEPT ![r] = NoRecord]
    /\ want' = [want EXCEPT ![r] = NoRecord]
    /\ Return(p)
    /\ UNCHANGED <<dir, faults, crashes, raced>>

\* The storage is moved back from the trash.
DeleteFails(p) ==
    LET r == job[p].repo IN
    /\ pc[p] = "delete" /\ Fault
    /\ IF job[p].found # "none"
       THEN dir' = [dir EXCEPT ![r] = job[p].found]
       ELSE UNCHANGED dir
    /\ Return(p)
    /\ UNCHANGED <<recs, crashes, want, raced>>

Crash(p) ==
    /\ pc[p] # "idle" /\ crashes < MaxCrashes
    /\ crashes' = crashes + 1
    /\ Return(p)
    /\ UNCHANGED <<recs, dir, faults, want, raced>>

Next == \E p \in Procs :
    \/ \E r \in Repos :
         \/ Create(p, r) \/ Import(p, r) \/ RegisterExternal(p, r)
         \/ Adopt(p, r) \/ Delete(p, r) \/ ConfigureDeployment(p, r)
         \/ RemoteOperation(p, r)
         \/ \E m \in Remotes : AddRemote(p, r, m) \/ RemoveRemote(p, r, m)
    \/ TakeLock(p) \/ Refused(p)
    \/ GitInit(p) \/ GitInitFails(p)
    \/ GitClone(p) \/ GitCloneFails(p)
    \/ GitSettings(p) \/ GitSettingsFail(p)
    \/ Transfer(p)
    \/ PersistLoad(p) \/ PersistSave(p) \/ PersistFails(p)
    \/ TrashStorage(p) \/ TrashFails(p) \/ DeleteLoad(p) \/ DeleteSave(p) \/ DeleteFails(p)
    \/ Crash(p)

Spec == Init /\ [][Next]_vars

-----------------------------------------------------------------------------
(* Type invariant. *)
TypeOK ==
    /\ recs \in [Repos -> Records] /\ want \in [Repos -> Records]
    /\ dir \in [Repos -> {"none", "partial", "bare"}]
    /\ lock \in [Repos -> Procs \cup {NoProc}] /\ registry \in Procs \cup {NoProc}
    /\ faults \in 0..MaxFaults /\ crashes \in 0..MaxCrashes /\ raced \in BOOLEAN

(* Mutations of different repositories, deletes apart, never overwrite each   *)
(* other: the registry is what they asked for one by one (persist loads and   *)
(* saves under the registry lock).                                            *)
RegistryKeepsUpdates == ~raced => recs = want

(* A registered managed repository has its bare directory, whichever step of  *)
(* create, import, adopt or delete failed: each one undoes the others.        *)
RegisteredHasStorage ==
    crashes = 0 => \A r \in Repos :
        /\ recs[r].kind = "managed"
        /\ \A p \in Procs : pc[p] = "idle" \/ job[p].repo # r
        => dir[r] = "bare"

(* Until mutations of one repository overlap: what is registered has storage,  *)
(* and a directory that was at the managed path before a call is not removed   *)
(* by it, unless delete moves it to the trash: the undo of import, adopt and   *)
(* create removes what is there without asking who made it.                   *)
StorageIsKept ==
    [][~raced' =>
          /\ RegisteredHasStorage'
          /\ \A p \in Procs :
                /\ pc[p] \notin {"idle", "trash"} /\ job[p].op # "delete"
                /\ job[p].found # "none" /\ dir[job[p].repo] # "none"
                => dir'[job[p].repo] # "none"]_vars
=============================================================================
