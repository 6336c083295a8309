------------------------------ MODULE Services ------------------------------
(***************************************************************************)
(* Managed services (managed_service.rs) and the file that records them,     *)
(* resources.json (framework_state.rs).  The manager works on a view of the  *)
(* file: services of five definitions, their databases, users and backups.   *)
(* Saving a view replaces, in the file of that moment, the records of the    *)
(* services of those definitions, keeps the others, and is refused when the  *)
(* result names a resource twice or a binding dangles.  No lock is taken.    *)
(***************************************************************************)
EXTENDS Naturals, FiniteSets, TLC

CONSTANTS
    Procs,
    Services,       \* identifiers of services
    Kind,           \* the driver of each
    MaxConfig,      \* configurations are 1 (the default) .. MaxConfig
    MaxCrashes

(* Drivers: what they generate, serve and can put back.                    *)
MysqlDriver == [secret |-> FALSE, sql |-> TRUE, backup |-> "dump", forge |-> FALSE]
PostgresqlDriver == [secret |-> FALSE, sql |-> TRUE, backup |-> "dump", forge |-> FALSE]
RedisDriver == [secret |-> FALSE, sql |-> FALSE, backup |-> "copy", forge |-> FALSE]
TypesenseDriver == [secret |-> TRUE, sql |-> FALSE, backup |-> "none", forge |-> FALSE]
MeilisearchDriver == [secret |-> TRUE, sql |-> FALSE, backup |-> "none", forge |-> FALSE]
GitForgeServiceDriver == [secret |-> TRUE, sql |-> FALSE, backup |-> "none", forge |-> TRUE]
\* Ten more, here one without secrets (three of them have some).
NativeServiceDriver == [secret |-> FALSE, sql |-> FALSE, backup |-> "none", forge |-> FALSE]

Drivers == [mysql |-> MysqlDriver, postgresql |-> PostgresqlDriver, redis |-> RedisDriver,
            typesense |-> TypesenseDriver, meilisearch |-> MeilisearchDriver,
            gitea |-> GitForgeServiceDriver, gogs |-> GitForgeServiceDriver,
            native |-> NativeServiceDriver]

ServicesAssumption ==
    /\ Kind \in [Services -> DOMAIN Drivers]
    /\ MaxConfig \in Nat \ {0} /\ MaxCrashes \in Nat

VARIABLES
    resources,  \* resources.json
    host,       \* packages, units, configuration files, native data
    secrets,    \* the secret store
    dumps,      \* backup files
    app,        \* services the application refers to
    pc, job, crashes,
    dirty       \* history: services whose last change was cut short

vars == <<resources, host, secrets, dumps, app, pc, job, crashes, dirty>>

-----------------------------------------------------------------------------
Configs == 0 .. MaxConfig           \* 0: no file
Contents == {"old", "new", "mixed"}

\* service_from_instance / framework_to_managed_state: the view holds services
\* of these definitions only.
Viewed(s) == Kind[s] \in {"mysql", "postgresql", "redis", "typesense", "meilisearch"}

IsSearch(s) == Kind[s] \in {"typesense", "meilisearch"}

Driver(s) == Drivers[Kind[s]]

Init ==
    /\ resources = [services |-> {}, config |-> [s \in Services |-> 0],
                    stopped |-> {}, databases |-> {}, users |-> {}, grants |-> {},
                    backups |-> {}, bindings |-> {}]
    /\ host = [packages |-> {}, active |-> {}, file |-> [s \in Services |-> 0],
               running |-> [s \in Services |-> 0], databases |-> {}, users |-> {},
               data |-> [s \in Services |-> "old"]]
    /\ secrets = {} /\ dumps = {} /\ app = {}
    /\ pc = [p \in Procs |-> "idle"]
    /\ job = [p \in Procs |-> [op |-> "none"]]
    /\ crashes = 0 /\ dirty = {}

-----------------------------------------------------------------------------
(* The file and its view.                                                  *)

\* framework_to_managed_state.
View(file) ==
    [services |-> {s \in file.services : Viewed(s)}, config |-> file.config,
     stopped |-> file.stopped, databases |-> file.databases, users |-> file.users,
     grants |-> file.grants, backups |-> file.backups]

\* What save_managed_service_state keeps of the file: services of other
\* definitions, and child resources of services it is not about to replace.
KeptServices(file) == {s \in file.services : ~Viewed(s)}
KeptChildren(file, children) == {s \in children : s \notin View(file).services}
KeptBackups(file) == {b \in file.backups : b[1] \notin View(file).services}

\* FrameworkState::validate of the merged state: no resource twice, and the
\* producer of every binding is there.
Writable(file, view) ==
    /\ KeptServices(file) \cap view.services = {}
    /\ KeptChildren(file, file.databases) \cap view.databases = {}
    /\ KeptChildren(file, file.users) \cap view.users = {}
    /\ KeptBackups(file) \cap view.backups = {}
    /\ \A s \in file.bindings :
         IF IsSearch(s)
         THEN s \in view.services
         ELSE /\ s \in KeptChildren(file, file.databases) \cup view.databases
              /\ s \in KeptChildren(file, file.users) \cup view.users

Merged(file, view) ==
    [services |-> KeptServices(file) \cup view.services,
     config |-> view.config, stopped |-> view.stopped,
     databases |-> KeptChildren(file, file.databases) \cup view.databases,
     users |-> KeptChildren(file, file.users) \cup view.users,
     grants |-> view.grants,
     backups |-> KeptBackups(file) \cup view.backups,
     bindings |-> file.bindings]

Saved(file, view) == IF Writable(file, view) THEN Merged(file, view) ELSE file

-----------------------------------------------------------------------------
Goto(p, label) == pc' = [pc EXCEPT ![p] = label]

Start(p, label, new) ==
    /\ pc[p] = "idle"
    /\ job' = [job EXCEPT ![p] = new]
    /\ Goto(p, label)

Finish(p) ==
    /\ Goto(p, "idle")
    /\ job' = [job EXCEPT ![p] = [op |-> "none"]]

Continue(p, label) == Goto(p, label) /\ UNCHANGED job

\* A unit can start when its package is installed.
MayStart(s) == s \in host.packages

\* find_service: what the view does not hold is not found.
Found(s) == s \in View(resources).services

-----------------------------------------------------------------------------
(* install                                                                 *)

\* One git forge may own the repository root: the check looks at the view.
StartInstall(p, s) ==
    /\ Driver(s).forge =>
         ~\E t \in View(resources).services \ {s} : Driver(t).forge
    /\ Start(p, "package",
             [op |-> "install", s |-> s, created |-> FALSE, was |-> 0,
              config |-> IF Found(s) THEN resources.config[s] ELSE 1])
    /\ UNCHANGED <<resources, host, secrets, dumps, app, crashes, dirty>>

InstallPackage(p) ==
    LET s == job[p].s IN
    /\ pc[p] = "package"
    /\ \/ /\ host' = [host EXCEPT !.packages = @ \cup {s}]
          /\ Continue(p, "secrets")
       \/ Finish(p) /\ UNCHANGED host
    /\ UNCHANGED <<resources, secrets, dumps, app, crashes, dirty>>

CreateMissingServiceSecrets(p) ==
    LET missing == {x \in {<<job[p].s, "credential">>} : Driver(job[p].s).secret} \ secrets IN
    /\ pc[p] = "secrets"
    /\ secrets' = secrets \cup missing
    /\ job' = [job EXCEPT ![p].created = missing # {}]
    /\ Goto(p, "write")
    /\ UNCHANGED <<resources, host, dumps, app, crashes, dirty>>

\* delete_secrets(&created_secrets).
CreatedCredentials(p) ==
    IF job[p].created THEN {<<job[p].s, "credential">>} ELSE {}

WriteConfiguration(p) ==
    LET s == job[p].s IN
    /\ pc[p] = "write"
    /\ \/ /\ host' = [host EXCEPT !.file[s] = job[p].config]
          /\ job' = [job EXCEPT ![p].was = host.file[s]]
          /\ Goto(p, "restart")
          /\ UNCHANGED secrets
       \/ /\ Finish(p)
          /\ secrets' = secrets \ CreatedCredentials(p)
          /\ UNCHANGED host
    /\ UNCHANGED <<resources, dumps, app, crashes, dirty>>

\* The unit is enabled and restarted, then probed.  Whichever fails, the file
\* is put back and the new secrets go, but nothing restarts the unit.
RestartInstalled(p) ==
    LET s == job[p].s IN
    /\ pc[p] = "restart" /\ job[p].op = "install"
    /\ \/ /\ host' = [host EXCEPT !.active = @ \cup {s}, !.running[s] = host.file[s]]
          /\ Continue(p, "load")
          /\ UNCHANGED secrets
       \/ \E active \in {host.active, host.active \ {s}, host.active \cup {s}} :
            /\ host' = [host EXCEPT
                  !.active = active, !.file[s] = job[p].was,
                  !.running[s] = IF s \in active \ host.active THEN host.file[s] ELSE @]
            /\ secrets' = secrets \ CreatedCredentials(p)
            /\ Finish(p)
    /\ UNCHANGED <<resources, dumps, app, crashes, dirty>>

\* upsert_service and the end of remove: the view is loaded once more,
LoadView(p) ==
    /\ pc[p] = "load"
    /\ job' = [job EXCEPT ![p] = @ @@ ("view" :> View(resources))]
    /\ Goto(p, "save")
    /\ UNCHANGED <<resources, host, secrets, dumps, app, crashes, dirty>>

\* changed as the operation says,
Changed(j) ==
    LET s == j.s
        v == j.view
    IN  CASE j.op \in {"install", "configure"} ->
               [v EXCEPT !.services = @ \cup {s}, !.config[s] = j.config]
          [] j.op = "lifecycle" ->
               [v EXCEPT !.services = @ \cup {s}, !.config[s] = j.config,
                         !.stopped = IF j.stop THEN @ \cup {s} ELSE @ \ {s}]
          [] j.op = "remove" ->
               [v EXCEPT !.services = @ \ {s}, !.databases = @ \ {s}, !.users = @ \ {s},
                         !.grants = @ \ {s}, !.stopped = @ \ {s}]
          [] j.op = "database" -> [v EXCEPT !.databases = @ \cup {s}]
          [] j.op = "user" -> [v EXCEPT !.users = @ \cup {s}]
          [] j.op = "grant" -> [v EXCEPT !.grants = @ \cup {s}]
          [] j.op = "backup" -> [v EXCEPT !.backups = @ \cup {<<s, j.content>>}]
          [] j.op = "restore" -> v

\* and saved.
SaveView(p) ==
    /\ pc[p] = "save"
    /\ resources' = Saved(resources, Changed(job[p]))
    /\ dirty' = IF Writable(resources, Changed(job[p])) THEN dirty
                ELSE dirty \cup {job[p].s}
    /\ Finish(p)
    /\ UNCHANGED <<host, secrets, dumps, app, crashes>>

-----------------------------------------------------------------------------
(* configure, lifecycle, update, remove                                    *)

StartConfigure(p, s, config) ==
    /\ Found(s) /\ config # resources.config[s] /\ config # 0
    /\ Start(p, "write", [op |-> "configure", s |-> s, created |-> FALSE, was |-> 0,
                          config |-> config])
    /\ UNCHANGED <<resources, host, secrets, dumps, app, crashes, dirty>>

\* Mutant of RestartConfigured: the file is put back, the unit left alone.
RestartConfiguredOnce(p) ==
    LET s == job[p].s IN
    /\ pc[p] = "restart" /\ job[p].op = "configure"
    /\ \/ /\ MayStart(s)
          /\ host' = [host EXCEPT !.active = @ \cup {s}, !.running[s] = host.file[s]]
          /\ Continue(p, "load")
       \/ /\ host' = [host EXCEPT !.active = @ \cup {s}, !.running[s] = host.file[s],
                                  !.file[s] = job[p].was]
          /\ Finish(p)
    /\ UNCHANGED <<resources, secrets, dumps, app, crashes, dirty>>

\* A restart or a probe that fails puts the file back and restarts once more.
RestartConfigured(p) ==
    LET s == job[p].s IN
    /\ pc[p] = "restart" /\ job[p].op = "configure"
    /\ \/ /\ MayStart(s)
          /\ host' = [host EXCEPT !.active = @ \cup {s}, !.running[s] = host.file[s]]
          /\ Continue(p, "load")
       \/ \E started \in BOOLEAN :
            /\ started => MayStart(s)
            /\ host' = [host EXCEPT
                  !.file[s] = job[p].was,
                  !.active = IF started THEN @ \cup {s} ELSE @ \ {s},
                  !.running[s] = IF started THEN job[p].was ELSE @]
            /\ Finish(p)
    /\ UNCHANGED <<resources, secrets, dumps, app, crashes, dirty>>

\* start, stop and restart: recorded when the unit obeyed and is healthy.
Lifecycle(p, s, stop) ==
    /\ Found(s)
    /\ \/ /\ stop \/ MayStart(s)
          /\ host' = [host EXCEPT
                !.active = IF stop THEN @ \ {s} ELSE @ \cup {s},
                !.running[s] = IF stop THEN @ ELSE host.file[s]]
          /\ \/ Start(p, "load", [op |-> "lifecycle", s |-> s, stop |-> stop,
                                  config |-> resources.config[s]])
             \/ pc[p] = "idle" /\ ~stop /\ UNCHANGED <<pc, job>>
       \/ /\ pc[p] = "idle" /\ UNCHANGED <<pc, job>>
          /\ host' = [host EXCEPT !.active = @ \ {s}]
    /\ UNCHANGED <<resources, secrets, dumps, app, crashes, dirty>>

Update(p, s) ==
    /\ Found(s) /\ pc[p] = "idle"
    /\ \E started \in {FALSE, MayStart(s)} :
         host' = [host EXCEPT
            !.active = IF started THEN @ \cup {s} ELSE @ \ {s},
            !.running[s] = IF started THEN host.file[s] ELSE @]
    /\ UNCHANGED <<resources, secrets, dumps, app, pc, job, crashes, dirty>>

\* assert_removable of the service and of every resource it provides.
Bound(s) == s \in resources.bindings

StartRemove(p, s) ==
    /\ Found(s) /\ ~Bound(s)
    /\ Start(p, "remove", [op |-> "remove", s |-> s])
    /\ UNCHANGED <<resources, host, secrets, dumps, app, crashes, dirty>>

\* The unit is stopped and disabled, the package removed; data and secrets stay.
RemovePackage(p) ==
    LET s == job[p].s IN
    /\ pc[p] = "remove"
    /\ \/ /\ host' = [host EXCEPT !.active = @ \ {s}, !.packages = @ \ {s}]
          /\ Continue(p, "load")
       \/ /\ \E active \in {host.active, host.active \ {s}} :
               host' = [host EXCEPT !.active = active]
          /\ Finish(p)
    /\ UNCHANGED <<resources, secrets, dumps, app, crashes, dirty>>

-----------------------------------------------------------------------------
(* Databases, users and grants: the view is loaded before the SQL runs.    *)

StartDatabase(p, s) ==
    /\ Driver(s).sql /\ Found(s) /\ s \notin resources.databases
    /\ Start(p, "sql", [op |-> "database", s |-> s, view |-> View(resources)])
    /\ UNCHANGED <<resources, host, secrets, dumps, app, crashes, dirty>>

\* The password is created first; a reference that exists is an error.
StartUser(p, s) ==
    /\ Driver(s).sql /\ Found(s) /\ s \notin resources.users
    /\ <<s, "password">> \notin secrets
    /\ secrets' = secrets \cup {<<s, "password">>}
    /\ Start(p, "sql", [op |-> "user", s |-> s, view |-> View(resources)])
    /\ UNCHANGED <<resources, host, dumps, app, crashes, dirty>>

StartGrant(p, s) ==
    /\ s \in resources.databases \cap resources.users /\ s \notin resources.grants
    /\ Found(s)
    /\ Start(p, "sql", [op |-> "grant", s |-> s, view |-> View(resources)])
    /\ UNCHANGED <<resources, host, secrets, dumps, app, crashes, dirty>>

RunSql(p) ==
    LET s == job[p].s IN
    /\ pc[p] = "sql"
    /\ \/ /\ host' = [host EXCEPT
               !.databases = IF job[p].op = "database" THEN @ \cup {s} ELSE @,
               !.users = IF job[p].op = "user" THEN @ \cup {s} ELSE @]
          /\ Continue(p, "save")
          /\ UNCHANGED secrets
       \/ /\ Finish(p)
          /\ secrets' = IF job[p].op = "user" THEN secrets \ {<<s, "password">>} ELSE secrets
          /\ UNCHANGED host
    /\ UNCHANGED <<resources, dumps, app, crashes, dirty>>

-----------------------------------------------------------------------------
(* Backup and restore                                                      *)

\* Applications write to a running service.
WriteData(s) ==
    /\ s \in host.active
    /\ Driver(s).backup = "copy" \/ s \in host.databases
    /\ host.data[s] = "old"
    /\ host' = [host EXCEPT !.data[s] = "new"]
    /\ UNCHANGED <<resources, secrets, dumps, app, pc, job, crashes, dirty>>

Backup(p, s) ==
    /\ Found(s) /\ Driver(s).backup # "none"
    /\ Driver(s).sql => s \in host.databases
    /\ <<s, host.data[s]>> \notin dumps
    /\ dumps' = dumps \cup {<<s, host.data[s]>>}
    /\ \/ Start(p, "load", [op |-> "backup", s |-> s, content |-> host.data[s]])
       \/ pc[p] = "idle" /\ UNCHANGED <<pc, job>>
    /\ UNCHANGED <<resources, host, secrets, app, crashes, dirty>>

\* A cache is stopped, its file copied aside; a database is restored in place.
StartRestore(p, s, content) ==
    /\ Found(s)
    /\ <<s, content>> \in resources.backups \cap dumps
    /\ Start(p, IF Driver(s).backup = "copy" THEN "replace" ELSE "load_dump",
             [op |-> "restore", s |-> s, view |-> View(resources),
              content |-> content, before |-> host.data[s]])
    /\ host' = [host EXCEPT !.active = IF Driver(s).backup = "copy" THEN @ \ {s} ELSE @]
    /\ UNCHANGED <<resources, secrets, dumps, app, crashes, dirty>>

ReplaceData(p) ==
    LET s == job[p].s IN
    /\ pc[p] = "replace"
    /\ \/ /\ host' = [host EXCEPT !.data[s] = job[p].content]
          /\ Continue(p, "start")
       \/ /\ host' = [host EXCEPT !.data[s] = "mixed"]
          /\ Continue(p, "recover")
    /\ UNCHANGED <<resources, secrets, dumps, app, crashes, dirty>>

StartRestored(p) ==
    LET s == job[p].s IN
    /\ pc[p] = "start"
    /\ \/ /\ MayStart(s)
          /\ host' = [host EXCEPT !.active = @ \cup {s}, !.running[s] = host.file[s]]
          /\ Continue(p, "save")
       \/ Continue(p, "recover") /\ UNCHANGED host
    /\ UNCHANGED <<resources, secrets, dumps, app, crashes, dirty>>

\* A restore in place that fails leaves what it got to, and is not undone.
LoadDump(p) ==
    LET s == job[p].s IN
    /\ pc[p] = "load_dump"
    /\ \/ /\ host' = [host EXCEPT !.data[s] = job[p].content]
          /\ Continue(p, "save")
       \/ /\ host' = [host EXCEPT !.data[s] = "mixed"]
          /\ Finish(p)
    /\ UNCHANGED <<resources, secrets, dumps, app, crashes, dirty>>

\* Mutant of RecoverRestore: the service is started and its data left as it is.
RecoverWithoutCopy(p) ==
    LET s == job[p].s IN
    /\ pc[p] = "recover"
    /\ host' = [host EXCEPT !.active = @ \cup {s}, !.running[s] = host.file[s]]
    /\ Finish(p)
    /\ UNCHANGED <<resources, secrets, dumps, app, crashes, dirty>>

\* The copy comes back and the service starts, or the recovery fails too.
RecoverRestore(p) ==
    LET s == job[p].s IN
    /\ pc[p] = "recover"
    /\ \/ /\ MayStart(s)
          /\ host' = [host EXCEPT !.active = @ \cup {s}, !.running[s] = host.file[s],
                                  !.data[s] = job[p].before]
          /\ UNCHANGED dirty
       \/ dirty' = dirty \cup {s} /\ UNCHANGED host
    /\ Finish(p)
    /\ UNCHANGED <<resources, secrets, dumps, app, crashes>>

-----------------------------------------------------------------------------
(* attach_to_application                                                   *)

\* With a database and a user, a grant is needed; only those and the endpoint
\* of a search service leave bindings.
Attachable(s, full) ==
    /\ s \in View(resources).services
    /\ full => s \in resources.databases \cap resources.users \cap resources.grants
    /\ ~Driver(s).sql => ~full

StartAttach(p, s, full) ==
    /\ Attachable(s, full)
    /\ Writable(resources, View(resources))
    /\ resources' = [resources EXCEPT
          !.bindings = IF full \/ IsSearch(s) THEN @ \cup {s} ELSE @ \ {s}]
    /\ Start(p, "refer", [op |-> "attach", s |-> s, full |-> full, previous |-> resources])
    /\ UNCHANGED <<host, secrets, dumps, app, crashes, dirty>>

\* The application takes the reference, or the previous file is saved again.
Refer(p) ==
    LET s == job[p].s IN
    /\ pc[p] = "refer"
    /\ \/ /\ app' = {r \in app : r[1] # s} \cup {<<s, job[p].full>>}
          /\ UNCHANGED resources
       \/ resources' = job[p].previous /\ UNCHANGED app
    /\ Finish(p)
    /\ UNCHANGED <<host, secrets, dumps, crashes, dirty>>

-----------------------------------------------------------------------------
Crash(p) ==
    /\ pc[p] # "idle" /\ crashes < MaxCrashes
    /\ crashes' = crashes + 1
    /\ dirty' = dirty \cup {job[p].s}
    /\ Finish(p)
    /\ UNCHANGED <<resources, host, secrets, dumps, app>>

Next ==
    \/ \E p \in Procs :
         \/ \E s \in Services :
              \/ StartInstall(p, s)
              \/ \E config \in Configs : StartConfigure(p, s, config)
              \/ \E stop \in BOOLEAN : Lifecycle(p, s, stop)
              \/ Update(p, s)
              \/ StartRemove(p, s)
              \/ StartDatabase(p, s)
              \/ StartUser(p, s)
              \/ StartGrant(p, s)
              \/ Backup(p, s)
              \/ \E content \in Contents : StartRestore(p, s, content)
              \/ \E full \in BOOLEAN : StartAttach(p, s, full)
         \/ InstallPackage(p)
         \/ CreateMissingServiceSecrets(p)
         \/ WriteConfiguration(p)
         \/ RestartInstalled(p)
         \/ LoadView(p)
         \/ SaveView(p)
         \/ RestartConfigured(p)
         \/ RemovePackage(p)
         \/ RunSql(p)
         \/ ReplaceData(p)
         \/ StartRestored(p)
         \/ LoadDump(p)
         \/ RecoverRestore(p)
         \/ Refer(p)
         \/ Crash(p)
    \/ \E s \in Services : WriteData(s)

Spec == Init /\ [][Next]_vars

-----------------------------------------------------------------------------
(* A recorded search service has its credential, a recorded database user its *)
(* password, whatever step failed or crashed: secrets are created before the  *)
(* records and only those of the failed operation are deleted again.          *)
CredentialsRecorded ==
    /\ \A s \in resources.services : Driver(s).secret => <<s, "credential">> \in secrets
    /\ \A s \in resources.users : <<s, "password">> \in secrets

Busy(s) == \E p \in Procs : pc[p] # "idle" /\ job[p].s = s

(* services.md: a configuration change is written, restarted, health-checked  *)
(* and rolled back when validation fails.  Whatever failed, a recorded        *)
(* service has the recorded configuration on disk and, when it runs, runs     *)
(* with it; a crash, or a save that was refused, leaves it open.              *)
RecordedConfigurationRuns ==
    \A s \in View(resources).services \ dirty :
        ~Busy(s) => /\ host.file[s] = resources.config[s]
                    /\ s \in host.active => host.running[s] = resources.config[s]

(* services.md: removal is rejected while a database, credential or search    *)
(* endpoint still has an application binding: the service stays recorded and  *)
(* installed, unless an operation on it was cut short.                        *)
AttachedServiceStays ==
    \A r \in app : (r[2] \/ IsSearch(r[1])) /\ r[1] \notin dirty =>
        /\ r[1] \in resources.services \cap host.packages
        /\ r[2] => r[1] \in resources.databases \cap resources.users

(* What is recorded of a service is so: its credentials exist, its             *)
(* configuration is the one that runs, and what applications use is there.    *)
ServicesAsRecorded ==
    CredentialsRecorded /\ RecordedConfigurationRuns /\ AttachedServiceStays

(* A restore of a cache that fails is undone: the data is a whole snapshot or *)
(* what the applications wrote, never a partial copy.                         *)
CacheDataIsWhole ==
    \A s \in Services : Driver(s).backup = "copy" /\ s \notin dirty /\ ~Busy(s) =>
        host.data[s] # "mixed"

(* Whatever failed half way, a service is as recorded and its data is whole.  *)
ServicesKept == ServicesAsRecorded /\ CacheDataIsWhole

=============================================================================
