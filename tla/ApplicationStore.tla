-------------------------- MODULE ApplicationStore --------------------------
(***************************************************************************)
(* The writers of applications.json: the handlers of ApplicationService    *)
(* (lumic-platform/src/application.rs) that create, configure and delete   *)
(* applications and record deployments.                                    *)
(*                                                                         *)
(* Every handler is the sequence of its statements that touch shared       *)
(* state: the store file, the secret files, the application directories    *)
(* and the application-state lock.  Processes interleave between           *)
(* statements.  ApplicationStore::load and save are one step each; what    *)
(* happens inside save is the subject of AtomicFile.                      *)
(***************************************************************************)
EXTENDS Naturals, Sequences, FiniteSets

CONSTANTS
    Procs,          \* processes of the host that call the service
    NoProc,         \* owner of the free application-state lock
    Apps,           \* application identifiers
    Domains,        \* domain names
    Names,          \* names of environment variables
    References,     \* names of secret files
    NoRef,          \* an environment variable that is not configured
    OwnedReferences,\* what application_environment_reference computes: the
                    \* name of the secret an application owns for a variable
    Requests,       \* the operations that are asked for
    MaxDeployments, \* bound: number of deployments ever begun
    MaxCrashes      \* bound: number of processes killed in mid-operation

ASSUME StoreConstants ==
    /\ NoProc \notin Procs
    /\ NoRef \notin References
    /\ OwnedReferences \in [Apps \X Names -> References]
    /\ Apps # {} /\ Domains # {} /\ Names # {}
    /\ MaxDeployments \in Nat
    /\ MaxCrashes \in Nat

VARIABLES
    file,     \* the content of applications.json
    secrets,  \* the secret references that have a file
    roots,    \* the applications whose directory exists
    lock,     \* holder of the application-state lock
    todo,     \* the statements each process has still to execute
    job,      \* the request it executes, and the state it loaded
    issued,   \* number of deployments begun
    crashes   \* number of crashes so far

host == <<secrets, roots>>
vars == <<file, host, lock, todo, job, issued, crashes>>

\* The parts of an Application record that the handlers set.
Parts == {"repository", "workflow", "contract", "health_check", "processes",
          "services", "retention", "web", "tls", "health"}
Portable == Parts \ {"web", "tls", "health"}

\* The name joins the application and the lower-cased variable by dashes, so
\* two pairs may have one name: nothing is assumed of OwnedReferences.
OwnReference(id, name) == OwnedReferences[id, name]

Applications == [id: Apps, domain: Domains, set: SUBSET Parts,
                 env: [Names -> References \cup {NoRef}]]
\* A deployment has an id of 1, 2, ...; 0 is the id of a job that has none.
Ids == 0 .. MaxDeployments
Statuses == {"started", "completed", "cancelling", "rolled_back"}
Deployments == [id: Ids, app: Apps, status: Statuses]
States == [apps: SUBSET Applications, deployments: SUBSET Deployments]
Empty == [apps |-> {}, deployments |-> {}]

Find(s, id) == {a \in s.apps : a.id = id}
Exists(s, id) == Find(s, id) # {}

-----------------------------------------------------------------------------
(* The handlers. *)

Create              == <<"check_unique", "save", "persist">>
SetRepository       == <<"find", "save">>
SetHealthCheck      == <<"find", "save">>
Provision           == <<"inspect", "host", "find", "save">>
EnableTls           == <<"inspect", "host", "find", "save">>
AddProcess          == <<"inspect", "host", "find", "save">>
ConfigureDeployment == <<"inspect_repository", "find", "save">>
ApplyManifest       == <<"inspect_repository", "host", "find", "save">>
AttachService       == <<"find", "save">>
SetReference        == <<"secret_exists", "find", "save">>
SetSecret           == <<"inspect", "put_secret", "secret_exists", "find", "save">>
RotateSecret        == <<"inspect_own", "secret_exists", "put_secret">>
DeleteSecret        == <<"inspect_name", "find", "save", "remove_secret">>
\* Mutant of Apply: the domain is not compared with the others.
ApplyUnchecked      == <<"inspect", "find", "save">>
Apply               == <<"inspect", "domain_free", "find", "save">>
\* Where an import creates a missing application, that is a request of its own.
Import              == <<"secret_exists">> \o Apply
Delete              == <<"find", "trash", "save">>
\* Mutant of UpsertDeployment: no lock.
UpsertUnlocked(status) == <<"load", status>>
UpsertDeployment(status) == <<"lock", "load", status>>
SetHealth           == <<"find", "save">>
\* However it ends, a deployment records its end: completed stands for all.
Deploy              == <<"inspect_repository">> \o UpsertDeployment("started")
                       \o UpsertDeployment("completed") \o SetHealth
Cancel              == <<"inspect_started">> \o UpsertDeployment("cancelling")
Rollback            == <<"inspect_completed", "host">>
                       \o UpsertDeployment("rolled_back") \o SetHealth

Handlers ==
    [create |-> Create, set_repository |-> SetRepository,
     set_health_check |-> SetHealthCheck, provision |-> Provision,
     enable_tls |-> EnableTls, add_process |-> AddProcess,
     configure_deployment |-> ConfigureDeployment,
     apply_manifest |-> ApplyManifest, attach_service |-> AttachService,
     set_reference |-> SetReference, set_secret |-> SetSecret,
     rotate_secret |-> RotateSecret, delete_secret |-> DeleteSecret,
     import |-> Import, delete |-> Delete, deploy |-> Deploy,
     cancel |-> Cancel, rollback |-> Rollback]

Operations == DOMAIN Handlers
SecretOperations == {"set_reference", "set_secret", "rotate_secret", "delete_secret"}
Statements == {"check_unique", "save", "persist", "undo", "find", "inspect",
               "inspect_repository", "inspect_own", "inspect_name", "host",
               "secret_exists", "put_secret", "remove_secret", "domain_free",
               "trash", "lock", "load", "inspect_started", "inspect_completed"}
              \cup Statuses

\* A request, and the locals of the handler: the state it loaded, the id of
\* its deployment, and whether the application's directory was there before.
Jobs == [op: Operations \cup {"none"}, app: Apps, domain: Domains, name: Names,
         ref: References, set: SUBSET Parts, id: Ids,
         state: States, preexisted: BOOLEAN]

AnApp == CHOOSE a \in Apps : TRUE
ADomain == CHOOSE d \in Domains : TRUE
AName == CHOOSE n \in Names : TRUE

NoJob == [op |-> "none", app |-> AnApp, domain |-> ADomain, name |-> AName,
          ref |-> OwnReference(AnApp, AName), set |-> {}, id |-> 0,
          state |-> Empty, preexisted |-> FALSE]

\* The requests; a parameter the operation does not have is fixed.
Asked ==
    {j \in [op: Requests, app: Apps, domain: Domains, name: Names, ref: References,
            set: {{}, Portable}, id: {0}, state: {Empty}, preexisted: {FALSE}] :
        /\ j.op \in {"create", "import"} \/ j.domain = ADomain
        /\ j.op = "import" \/ j.set = {}
        /\ j.op \in SecretOperations \cup {"import"} \/ j.name = AName
        /\ j.op \in {"set_reference", "import"} \/ j.ref = OwnReference(j.app, j.name)}

ASSUME RequestsAssumption == Requests \subseteq Operations

-----------------------------------------------------------------------------
(* What an operation changes in the state it loaded. *)

\* The closure handed to update_application, or the assignments in place.
\* set_repository writes a new RepositoryConfig, without workflow and contract;
\* an import replaces everything portable.
NewParts(j, a) ==
    CASE j.op = "set_repository" -> (a.set \ {"workflow", "contract"}) \cup {"repository"}
      [] j.op = "set_health_check" -> a.set \cup {"health_check"}
      [] j.op = "provision"        -> a.set \cup {"web"}
      [] j.op = "enable_tls"       -> a.set \cup {"tls"}
      [] j.op = "add_process"      -> a.set \cup {"processes"}
      [] j.op = "attach_service"   -> a.set \cup {"services"}
      [] j.op \in {"deploy", "rollback"} -> a.set \cup {"health"}
      [] j.op = "configure_deployment" ->
            IF "repository" \in a.set THEN a.set \cup {"workflow"} ELSE a.set
      [] j.op = "apply_manifest" ->
            a.set \cup {"health_check", "processes", "retention"}
                  \cup (IF "repository" \in a.set THEN {"workflow", "contract"} ELSE {})
      [] j.op = "import" -> (a.set \ Portable) \cup j.set
      [] OTHER -> a.set

NewReferences(j, a) ==
    CASE j.op \in {"set_reference", "set_secret"} -> [a.env EXCEPT ![j.name] = j.ref]
      [] j.op = "delete_secret" -> [a.env EXCEPT ![j.name] = NoRef]
      [] j.op = "import" -> [n \in Names |-> IF n = j.name THEN j.ref ELSE NoRef]
      [] OTHER -> a.env

Updated(j, a) ==
    [id |-> a.id, domain |-> IF j.op = "import" THEN j.domain ELSE a.domain,
     set |-> NewParts(j, a), env |-> NewReferences(j, a)]

NewApplication(j) == [id |-> j.app, domain |-> j.domain, set |-> {},
                      env |-> [n \in Names |-> NoRef]]

\* delete keeps the deployments of the other applications only.
Without(s, id) ==
    [apps |-> s.apps \ Find(s, id),
     deployments |-> {d \in s.deployments : d.app # id}]

Changed(j, s) ==
    CASE j.op = "create" -> [s EXCEPT !.apps = @ \cup {NewApplication(j)}]
      [] j.op = "delete" -> Without(s, j.app)
      [] OTHER -> [s EXCEPT !.apps = (@ \ Find(s, j.app))
                                      \cup {Updated(j, a) : a \in Find(s, j.app)}]

\* upsert_deployment replaces the record with this id, or pushes it.
Upserted(j, status, s) ==
    [s EXCEPT !.deployments = {d \in @ : d.id # j.id}
                              \cup {[id |-> j.id, app |-> j.app, status |-> status]}]

-----------------------------------------------------------------------------
(* Statements. *)

At(p, statement) == todo[p] # <<>> /\ Head(todo[p]) = statement

\* The next statement, with the locals j; a handler that returns forgets them.
Proceed(p, j) ==
    /\ todo' = [todo EXCEPT ![p] = Tail(@)]
    /\ job' = [job EXCEPT ![p] = IF Tail(todo[p]) = <<>> THEN NoJob ELSE j]
Fail(p) ==
    /\ todo' = [todo EXCEPT ![p] = <<>>]
    /\ job' = [job EXCEPT ![p] = NoJob]
\* A check: the handler goes on or returns an error.
GoOnIf(p, condition, j) == IF condition THEN Proceed(p, j) ELSE Fail(p)

Releasing == {"deploy", "rollback"}
Deploying(app) == \E q \in Procs : job[q].op \in Releasing /\ job[q].app = app

\* A request arrives.  A deployment or rollback beside another one of
\* the application finds its deployment lock taken and returns.
Ask(p) ==
    /\ todo[p] = <<>>
    /\ \E j \in Asked :
          /\ j.op \in Releasing => issued < MaxDeployments /\ ~Deploying(j.app)
          /\ issued' = IF j.op \in Releasing THEN issued + 1 ELSE issued
          /\ job' = [job EXCEPT ![p] = [j EXCEPT !.id = IF j.op \in Releasing THEN issued + 1 ELSE 0]]
          /\ todo' = [todo EXCEPT ![p] = Handlers[j.op]]
    /\ UNCHANGED <<file, host, lock, crashes>>

\* inspect: a read of its own; what it returned is not written back.
Inspect(p) ==
    /\ \/ At(p, "inspect") /\ GoOnIf(p, Exists(file, job[p].app), job[p])
       \/ /\ At(p, "inspect_repository")
          /\ GoOnIf(p, \E a \in Find(file, job[p].app) : "repository" \in a.set, job[p])
       \/ /\ At(p, "inspect_own")
          /\ GoOnIf(p, \E a \in Find(file, job[p].app) :
                          a.env[job[p].name] = OwnReference(a.id, job[p].name), job[p])
       \/ /\ At(p, "domain_free")
          /\ GoOnIf(p, \A a \in file.apps :
                          a.id # job[p].app => a.domain # job[p].domain, job[p])
    /\ UNCHANGED <<file, host, lock, issued, crashes>>

\* Mutant of InspectName: a variable that is not configured has the default reference,
\* which is none (unwrap_or_default for ok_or_else).
InspectNameOrDefault(p) ==
    /\ At(p, "inspect_name")
    /\ IF ~Exists(file, job[p].app) THEN Fail(p)
       ELSE \E a \in Find(file, job[p].app) :
              Proceed(p, [job[p] EXCEPT !.ref = a.env[job[p].name]])
    /\ UNCHANGED <<file, host, lock, issued, crashes>>

\* delete_environment_secret remembers the reference it read.
InspectName(p) ==
    /\ At(p, "inspect_name")
    /\ LET refs == {a.env[job[p].name] : a \in Find(file, job[p].app)} \ {NoRef}
       IN IF refs = {} THEN Fail(p)
          ELSE \E r \in refs : Proceed(p, [job[p] EXCEPT !.ref = r])
    /\ UNCHANGED <<file, host, lock, issued, crashes>>

\* cancel_deployment takes a started record, rollback needs a completed one.
InspectDeployment(p) ==
    LET Having(status) == {d \in file.deployments : d.app = job[p].app /\ d.status = status}
    IN /\ \/ /\ At(p, "inspect_started")
             /\ \/ Having("started") = {} /\ Fail(p)
                \/ \E d \in Having("started") : Proceed(p, [job[p] EXCEPT !.id = d.id])
          \/ At(p, "inspect_completed") /\ GoOnIf(p, Having("completed") # {}, job[p])
       /\ UNCHANGED <<file, host, lock, issued, crashes>>

\* Packages, certificates, units and nginx: the work may fail.
HostWork(p) ==
    /\ At(p, "host")
    /\ Proceed(p, job[p]) \/ Fail(p)
    /\ UNCHANGED <<file, host, lock, issued, crashes>>

SecretExists(p) ==
    /\ At(p, "secret_exists")
    /\ GoOnIf(p, job[p].ref \in secrets, job[p])
    /\ UNCHANGED <<file, host, lock, issued, crashes>>

PutSecret(p) ==
    /\ At(p, "put_secret")
    /\ Proceed(p, job[p])
    /\ secrets' = secrets \cup {job[p].ref}
    /\ UNCHANGED <<file, roots, lock, issued, crashes>>

\* Only a reference the application owns is deleted.
RemoveSecret(p) ==
    /\ At(p, "remove_secret")
    /\ Proceed(p, job[p])
    /\ secrets' = IF job[p].ref = OwnReference(job[p].app, job[p].name)
                  THEN secrets \ {job[p].ref} ELSE secrets
    /\ UNCHANGED <<file, roots, lock, issued, crashes>>

\* ApplicationStore::load, with the lookup most handlers begin with.
Loaded(p) == [job[p] EXCEPT !.state = file]
Load(p) ==
    /\ \/ At(p, "find") /\ GoOnIf(p, Exists(file, job[p].app), Loaded(p))
       \/ At(p, "load") /\ Proceed(p, Loaded(p))
    /\ UNCHANGED <<file, host, lock, issued, crashes>>

Free(s, j) == \A a \in s.apps : a.id # j.app /\ a.domain # j.domain

\* create: uniqueness is checked on the state that will be saved, and the
\* application's directories are made.
CheckUnique(p) ==
    /\ At(p, "check_unique")
    /\ GoOnIf(p, Free(file, job[p]), [Loaded(p) EXCEPT !.preexisted = job[p].app \in roots])
    /\ roots' = IF Free(file, job[p]) THEN roots \cup {job[p].app} ELSE roots
    /\ UNCHANGED <<file, secrets, lock, issued, crashes>>

\* delete moves the directory to the trash; the move may fail.
Trash(p) ==
    /\ At(p, "trash")
    /\ \/ Proceed(p, job[p]) /\ roots' = roots \ {job[p].app}
       \/ Fail(p) /\ job[p].app \in roots /\ UNCHANGED roots
    /\ UNCHANGED <<file, secrets, lock, issued, crashes>>

\* ApplicationStore::save of the changed state.
Save(p) ==
    /\ At(p, "save")
    /\ Proceed(p, job[p])
    /\ file' = Changed(job[p], job[p].state)
    /\ UNCHANGED <<host, lock, issued, crashes>>

\* create: the framework resource is written after the application.
Persist(p) ==
    /\ At(p, "persist")
    /\ \/ Proceed(p, job[p])
       \/ todo' = [todo EXCEPT ![p] = <<"undo">>] /\ UNCHANGED job
    /\ UNCHANGED <<file, host, lock, issued, crashes>>

\* Mutant of Undo: the record stays in the file.
UndoFilesOnly(p) ==
    /\ At(p, "undo")
    /\ Proceed(p, job[p])
    /\ roots' = IF job[p].preexisted THEN roots ELSE roots \ {job[p].app}
    /\ UNCHANGED <<file, secrets, lock, issued, crashes>>

\* create: the previous state is saved again, and the directory it made goes.
Undo(p) ==
    /\ At(p, "undo")
    /\ Proceed(p, job[p])
    /\ file' = job[p].state
    /\ roots' = IF job[p].preexisted THEN roots ELSE roots \ {job[p].app}
    /\ UNCHANGED <<secrets, lock, issued, crashes>>

\* acquire_application_state waits for the lock.
Lock(p) ==
    /\ At(p, "lock")
    /\ lock = NoProc
    /\ lock' = p
    /\ Proceed(p, job[p])
    /\ UNCHANGED <<file, host, issued, crashes>>

\* Mutant of Record: the guard is not dropped.
RecordKeepingLock(p) ==
    /\ \E status \in Statuses :
          /\ At(p, status)
          /\ file' = Upserted(job[p], status, job[p].state)
    /\ Proceed(p, job[p])
    /\ UNCHANGED <<host, lock, issued, crashes>>

\* The guard is dropped when upsert_deployment returns.
Record(p) ==
    /\ \E status \in Statuses :
          /\ At(p, status)
          /\ file' = Upserted(job[p], status, job[p].state)
    /\ lock' = IF lock = p THEN NoProc ELSE lock
    /\ Proceed(p, job[p])
    /\ UNCHANGED <<host, issued, crashes>>

\* The process dies; the kernel releases its lock.
Crash(p) ==
    /\ todo[p] # <<>>
    /\ crashes < MaxCrashes
    /\ crashes' = crashes + 1
    /\ Fail(p)
    /\ lock' = IF lock = p THEN NoProc ELSE lock
    /\ UNCHANGED <<file, host, issued>>

Step(p) ==
    \/ Inspect(p) \/ InspectName(p) \/ InspectDeployment(p) \/ HostWork(p)
    \/ SecretExists(p) \/ PutSecret(p) \/ RemoveSecret(p)
    \/ Load(p) \/ CheckUnique(p) \/ Trash(p) \/ Save(p) \/ Persist(p) \/ Undo(p)
    \/ Lock(p) \/ Record(p)

Init ==
    /\ file = Empty
    /\ secrets = {} /\ roots = {}
    /\ lock = NoProc
    /\ todo = [p \in Procs |-> <<>>]
    /\ job = [p \in Procs |-> NoJob]
    /\ issued = 0 /\ crashes = 0

Next == \E p \in Procs : Ask(p) \/ Step(p) \/ Crash(p)

Fairness == \A p \in Procs : WF_vars(Step(p))
Spec == Init /\ [][Next]_vars
FairSpec == Spec /\ Fairness

TypeOK ==
    /\ file \in States
    /\ secrets \subseteq References
    /\ roots \subseteq Apps
    /\ lock \in Procs \cup {NoProc}
    /\ todo \in [Procs -> Seq(Statements)]
    /\ job \in [Procs -> Jobs]
    /\ issued \in 0 .. MaxDeployments
    /\ crashes \in 0 .. MaxCrashes

-----------------------------------------------------------------------------
(* Properties. *)

Unique(s) == \A a, b \in s.apps : (a.id = b.id \/ a.domain = b.domain) => a = b

\* No two applications share an identifier or a domain (create checks it on
\* the very state it saves), whatever updates are lost.
UniqueIdentity == Unique(file)

\* upsert_deployment holds the application-state lock from its load to its
\* save: of two upserts, the later one loads what the earlier one saved.
UpsertsExclusive ==
    \A p, q \in Procs :
        (\E s, t \in Statuses : At(p, s) /\ At(q, t)) => p = q

\* Setting a secret writes it before the reference; deleting it removes the
\* reference first: wherever one process stops, an application's reference to
\* a secret of its own can be resolved.
OwnReferencesResolve ==
    \A a \in file.apps, n \in Names :
        a.env[n] = OwnReference(a.id, n) => OwnReference(a.id, n) \in secrets

\* Deleting an application deletes its deployment records.
DeploymentsHaveApplications ==
    \A d \in file.deployments : Exists(file, d.app)

\* An application has its directory, also after a creation that was undone,
\* unless it is just being deleted, or a deletion was killed half way.
ApplicationsHaveDirectories ==
    crashes = 0 => \A a \in file.apps :
        \/ a.id \in roots
        \/ \E p \in Procs : job[p].op = "delete" /\ job[p].app = a.id

\* Whatever failed half way, what the file lists hangs together: references
\* with their secret, deployments with their application, applications with
\* their directory.
RecordsResolve ==
    OwnReferencesResolve /\ DeploymentsHaveApplications /\ ApplicationsHaveDirectories

\* A save changes the present content of the file the way its handler says,
\* and an undone creation takes back its own record only: the
\* read-modify-write is atomic.
UpdatesAreAtomic ==
    [][\A p \in Procs :
          /\ Save(p) => file' = Changed(job[p], file)
          /\ Undo(p) => file' = Without(file, job[p].app)]_vars

\* Every request returns: the lock is always released.
EveryRequestReturns == \A p \in Procs : todo[p] # <<>> ~> todo[p] = <<>>
=============================================================================
