------------------------------- MODULE Recipes -------------------------------
(***************************************************************************)
(* Application recipes (lumic-platform/src/recipe.rs, wordpress.rs and     *)
(* lumic-core/src/recipe.rs).  `recipes.json` holds one installation per   *)
(* application.  The WordPress recipe journals every completed step there, *)
(* so that an install that failed or died can be inspected and retried;    *)
(* every other recipe is recorded once, at the end, from the state it read *)
(* when it began.  Uninstall also keeps the state it read and saves it     *)
(* last.                                                                   *)
(*                                                                         *)
(* A process is one Lumic command.  A load of recipes.json and the save    *)
(* that follows it with nothing between are one step; everything else is   *)
(* interleaved.  Secrets are generations: 0 is an absent secret, a fresh   *)
(* one has the next number.                                                *)
(***************************************************************************)
EXTENDS Naturals, Sequences, FiniteSets, SequencesExt

CONSTANTS
    Procs,          \* Lumic commands that run at the same time
    WordPressApps,  \* application identifiers installed with the wordpress recipe
    GenericApps,    \* application identifiers installed with any other recipe
    MaxVersion,     \* bound on the built-in catalogue version of a recipe
    MaxSecrets,     \* bound on the secrets generated for one application
    MaxFailures,    \* bound on failing steps
    MaxCrashes      \* bound on commands that die between two steps

ASSUME RecipesAssumption ==
    /\ WordPressApps \cap GenericApps = {} /\ "none" \notin WordPressApps \cup GenericApps
    /\ MaxVersion \in Nat \ {0} /\ MaxSecrets \in Nat
    /\ MaxFailures \in Nat /\ MaxCrashes \in Nat

Apps == WordPressApps \cup GenericApps

\* The steps of the WordPress journal, in their order.
WordPressSteps == <<"application", "secrets", "database", "runtime",
                    "wordpress", "health", "commit">>

Journal == { SubSeq(WordPressSteps, 1, n) : n \in 0..Len(WordPressSteps) }

Installations ==
    [ status : {"absent", "updating", "failed", "installed"},
      version : 0..MaxVersion,   \* catalogue version of the last attempt
      secrets : BOOLEAN,         \* secret_references names the secrets
      bindings : BOOLEAN,        \* binding_ids names the framework bindings
      done : Journal ]           \* operation.completed_steps

NoInstallation == [ status |-> "absent", version |-> 0, secrets |-> FALSE,
                    bindings |-> FALSE, done |-> <<>> ]

VARIABLES
    recipes,     \* recipes.json: application -> installation
    catalogue,   \* version of the built-in recipes (a newer Lumic raises it)
    listed,      \* applications that applications.json lists
    configured,  \* applications with a runtime and an nginx site
    inputs,      \* applications whose input secrets are stored
    password,    \* generated administrator (or token) secret: its generation
    generated,   \* how many such secrets were generated so far
    service,     \* applications whose database service and database exist
    dbSecret,    \* applications whose database user's secret is stored
    dbUser,      \* applications whose database user is recorded
    current,     \* the release the `current` link points to, 0 for none
    wpConfig,    \* releases of an application with a wp-config.php
    site,        \* administrator password the WordPress database was set up with
    bound,       \* applications with resources or bindings in the framework state
    pc,          \* where each command is
    op,          \* what each command is doing
    failures, crashes,
    stale,       \* history: a save brought back an installation another command had changed
    torn,        \* history: applications an operation died on
    met          \* history: commands beside which another worked on their application

world == <<listed, configured, inputs, password, generated, service, dbSecret,
           dbUser, current, wpConfig, site, bound>>
vars == <<recipes, catalogue, world, pc, op, failures, crashes, stale, torn, met>>

Idle == [ app |-> "none", env |-> FALSE, loaded |-> [ a \in Apps |-> NoInstallation ],
          version |-> 0, previous |-> 0 ]

Init ==
    /\ recipes = [ a \in Apps |-> NoInstallation ]
    /\ catalogue = 1
    /\ listed = {} /\ configured = {} /\ inputs = {}
    /\ password = [ a \in Apps |-> 0 ] /\ generated = [ a \in Apps |-> 0 ]
    /\ service = {} /\ dbSecret = {} /\ dbUser = {}
    /\ current = [ a \in Apps |-> 0 ] /\ wpConfig = [ a \in Apps |-> {} ]
    /\ site = [ a \in Apps |-> 0 ]
    /\ bound = {}
    /\ pc = [ p \in Procs |-> "idle" ] /\ op = [ p \in Procs |-> Idle ]
    /\ failures = 0 /\ crashes = 0 /\ stale = FALSE /\ torn = {} /\ met = {}

(***************************************************************************)
(* Planning and convergence.                                               *)
(***************************************************************************)
\* RecipeDefinition::plan: the required inputs of a first installation.
Plan(a, env) == env \/ recipes[a].status # "absent"

\* secrets.exists for every reference the installation records.
SecretsExist(a) == recipes[a].secrets => a \in inputs /\ password[a] # 0

\* WordPressInstaller::is_installed: a release is current and `wp core is-installed`.
IsInstalled(a) == current[a] # 0 /\ current[a] \in wpConfig[a] /\ site[a] # 0

WordPressConverged(a, env) ==
    /\ recipes[a].status = "installed" /\ recipes[a].version = catalogue
    /\ ~env /\ SecretsExist(a)
    /\ a \in listed /\ a \in configured
    /\ IsInstalled(a)

GenericConverged(a, env) ==
    /\ recipes[a].status # "absent" /\ recipes[a].version = catalogue
    /\ ~env /\ SecretsExist(a)
    /\ a \in listed /\ a \in service

Begin(p, a, env, step) ==
    /\ pc[p] = "idle"
    /\ LET others == { q \in Procs \ {p} : op[q].app = a } IN
       met' = IF others = {} THEN met \ {p} ELSE met \cup {p} \cup others
    /\ op' = [op EXCEPT ![p] = [ app |-> a, env |-> env, loaded |-> recipes,
                             version |-> catalogue, previous |-> 0 ]]
    /\ pc' = [pc EXCEPT ![p] = step]

Goto(p, step) == pc' = [pc EXCEPT ![p] = step]

Quiet == UNCHANGED <<catalogue, failures, crashes, stale, torn, met>>

(***************************************************************************)
(* The secrets, in the same way for every recipe.                          *)
(***************************************************************************)
\* A step on the secrets changes nothing else.
SecretStep(p, a, step, next) ==
    /\ pc[p] = step /\ op[p].app = a
    /\ Goto(p, next)
    /\ Quiet
    /\ UNCHANGED <<recipes, op, listed, configured, service, dbSecret, dbUser, current,
                   wpConfig, site, bound>>

\* A required input is given or stored (and for the other recipes recorded
\* with an installation).
HasInputs(p, a) ==
    \/ op[p].env
    \/ a \in inputs /\ (a \in WordPressApps \/ op[p].loaded[a].status # "absent")

StoreInputs(p, a) ==
    /\ SecretStep(p, a, "inputs", "password")
    /\ HasInputs(p, a)
    /\ inputs' = inputs \cup {a}
    /\ UNCHANGED <<password, generated>>

FindPasswordRenewed(p, a) ==
    /\ SecretStep(p, a, "password", "write")
    /\ a \in listed
    /\ UNCHANGED <<inputs, password, generated>>

\* The inputs are referenced from the application; then secrets.exists: a
\* generated secret that is there is kept.
FindPassword(p, a) ==
    /\ SecretStep(p, a, "password", IF password[a] # 0 THEN "reference" ELSE "create")
    /\ a \in listed
    /\ UNCHANGED <<inputs, password, generated>>

\* SecretStore::create refuses a secret that exists by now,
CreatePassword(p, a) ==
    /\ SecretStep(p, a, "create", "write")
    /\ password[a] = 0
    /\ UNCHANGED <<inputs, password, generated>>

\* and then writes, over whatever was written since.
WritePassword(p, a) ==
    /\ SecretStep(p, a, "write", "reference")
    /\ generated[a] < MaxSecrets
    /\ generated' = [generated EXCEPT ![a] = @ + 1]
    /\ password' = [password EXCEPT ![a] = generated[a] + 1]
    /\ UNCHANGED inputs

\* set_environment_reference wants the secret and the application.
ReferencePassword(p, a) ==
    /\ SecretStep(p, a, "reference", IF a \in WordPressApps THEN "secrets" ELSE "generic_services")
    /\ a \in listed /\ password[a] # 0
    /\ UNCHANGED <<inputs, password, generated>>

Secrets(p, a) ==
    \/ StoreInputs(p, a)
    \/ FindPassword(p, a)
    \/ CreatePassword(p, a)
    \/ WritePassword(p, a)
    \/ ReferencePassword(p, a)

SecretPCs == {"inputs", "password", "create", "write", "reference"}

\* What refuses a step on the secrets whatever the host does.
SecretsRefused(p) ==
    LET a == op[p].app IN
    \/ pc[p] = "inputs" /\ ~HasInputs(p, a)
    \/ pc[p] = "password" /\ a \notin listed
    \/ pc[p] = "create" /\ password[a] # 0
    \/ pc[p] = "reference" /\ (a \notin listed \/ password[a] = 0)

(***************************************************************************)
(* The WordPress recipe.                                                   *)
(***************************************************************************)
\* install_wordpress: the placeholder keeps what the last attempt recorded.
InstallWordPress(p, a, env) ==
    /\ Plan(a, env) /\ ~WordPressConverged(a, env)
    /\ Begin(p, a, env, "application")
    /\ recipes' = [recipes EXCEPT ![a].status = "updating", ![a].version = catalogue,
                                  ![a].done = <<>>]
    /\ UNCHANGED <<catalogue, world, failures, crashes, stale, torn>>

\* complete_wordpress_step: load, append, save; an error when the entry is gone.
CompleteStep(a, completed) ==
    /\ recipes[a].status # "absent"
    /\ recipes' = [recipes EXCEPT ![a].done = SubSeq(WordPressSteps, 1,
           CHOOSE i \in DOMAIN WordPressSteps : WordPressSteps[i] = completed)]

\* One step of apply_wordpress that ends with its journal entry.
WordPressStep(p, a, step, next) ==
    /\ pc[p] = step /\ op[p].app = a
    /\ CompleteStep(a, step)
    /\ Goto(p, next)
    /\ Quiet /\ UNCHANGED op

WordPressApplication(p, a) ==
    /\ WordPressStep(p, a, "application", "inputs")
    /\ listed' = listed \cup {a}
    /\ UNCHANGED <<configured, inputs, password, generated, service, dbSecret, dbUser,
                   current, wpConfig, site, bound>>

\* The secrets are referenced; the journal lists the step.
WordPressSecrets(p, a) ==
    /\ WordPressStep(p, a, "secrets", "service")
    /\ UNCHANGED world

\* The database service is installed when it is not listed, then the database.
WordPressService(p, a) ==
    /\ pc[p] = "service" /\ op[p].app = a
    /\ service' = service \cup {a}
    /\ Goto(p, "user")
    /\ Quiet
    /\ UNCHANGED <<recipes, op, listed, configured, inputs, password, generated, dbSecret,
                   dbUser, current, wpConfig, site, bound>>

\* create_database_user stores the secret before it records the user: a
\* secret without a record is refused (the step then fails).
WordPressUserSecret(p, a) ==
    /\ pc[p] = "user" /\ op[p].app = a
    /\ a \in dbUser \/ a \notin dbSecret
    /\ dbSecret' = dbSecret \cup {a}
    /\ Goto(p, "database")
    /\ Quiet
    /\ UNCHANGED <<recipes, op, listed, configured, inputs, password, generated, service,
                   dbUser, current, wpConfig, site, bound>>

\* The user is recorded, granted, and the service attached to the application.
WordPressDatabase(p, a) ==
    /\ WordPressStep(p, a, "database", "runtime")
    /\ a \in listed
    /\ dbUser' = dbUser \cup {a}
    /\ UNCHANGED <<listed, configured, inputs, password, generated, service, dbSecret,
                   current, wpConfig, site, bound>>

WordPressRuntime(p, a) ==
    /\ WordPressStep(p, a, "runtime", "activate")
    /\ a \in listed
    /\ configured' = configured \cup {a} /\ bound' = bound \cup {a}
    /\ UNCHANGED <<listed, inputs, password, generated, service, dbSecret, dbUser,
                   current, wpConfig, site>>

\* WordPressInstaller::apply up to activate_release: the artifacts are
\* fetched, the release extracted when it is not there, and made current.
WordPressActivate(p, a) ==
    /\ pc[p] = "activate" /\ op[p].app = a
    /\ op' = [op EXCEPT ![p].previous = current[a]]
    /\ current' = [current EXCEPT ![a] = op[p].version]
    /\ Goto(p, "configure")
    /\ Quiet
    /\ UNCHANGED <<recipes, listed, configured, inputs, password, generated, service,
                   dbSecret, dbUser, wpConfig, site, bound>>

\* configure_and_install: wp-config.php for this release, then `core install`
\* unless the database already holds a site.
WordPressConfigure(p, a) ==
    /\ pc[p] = "configure" /\ op[p].app = a
    /\ wpConfig' = [wpConfig EXCEPT ![a] = @ \cup {current[a]}]
    /\ site' = [site EXCEPT ![a] = IF @ = 0 THEN password[a] ELSE @]
    /\ Goto(p, "wordpress")
    /\ Quiet
    /\ UNCHANGED <<recipes, op, listed, configured, inputs, password, generated, service,
                   dbSecret, dbUser, current, bound>>

\* persist_wordpress_artifacts: the artifacts' records and bindings.
WordPressPersist(p, a) ==
    /\ WordPressStep(p, a, "wordpress", "health")
    /\ bound' = bound \cup {a}
    /\ UNCHANGED <<listed, configured, inputs, password, generated, service, dbSecret, dbUser,
                   current, wpConfig, site>>

WordPressHealth(p, a) ==
    /\ WordPressStep(p, a, "health", "commit")
    /\ a \in listed
    /\ UNCHANGED world

\* The last step of apply_wordpress: the whole installation is recorded.
WordPressCommit(p, a) ==
    /\ pc[p] = "commit" /\ op[p].app = a
    /\ recipes[a].status # "absent"
    /\ recipes' = [recipes EXCEPT ![a].status = "installed", ![a].secrets = TRUE,
                                  ![a].bindings = a \in bound, ![a].done = WordPressSteps]
    /\ Goto(p, "idle") /\ op' = [op EXCEPT ![p] = Idle]
    /\ torn' = torn \ {a}
    /\ UNCHANGED <<catalogue, failures, crashes, stale, met, world>>

JournalPCs == {"application", "secrets", "database", "runtime", "wordpress", "health", "commit"}
WordPressPCs == SecretPCs \cup JournalPCs \cup {"service", "user", "activate", "configure"}

\* What makes a step fail whatever the host does: the entry or the
\* application is gone, a secret is missing or in the way, or the database
\* user's secret exists without its record.
StepRefused(p) ==
    LET a == op[p].app IN
    \/ recipes[a].status = "absent" /\ pc[p] \in JournalPCs
    \/ a \notin listed /\ pc[p] \in {"database", "runtime", "health"}
    \/ SecretsRefused(p)
    \/ pc[p] = "user" /\ a \in dbSecret \ dbUser

KeepCurrent(p, a) == UNCHANGED current

\* restore_current after configure_and_install failed.
RestoreCurrent(p, a) ==
    current' = IF pc[p] = "configure" THEN [current EXCEPT ![a] = op[p].previous] ELSE current

\* A step fails: the previous release is current again and the failure is recorded next.
WordPressFails(p, a) ==
    /\ pc[p] \in WordPressPCs /\ op[p].app = a
    /\ \/ StepRefused(p) /\ UNCHANGED failures
       \/ ~StepRefused(p) /\ failures < MaxFailures /\ failures' = failures + 1
    /\ RestoreCurrent(p, a)
    /\ Goto(p, "failed")
    /\ UNCHANGED <<recipes, catalogue, op, crashes, stale, torn, met, listed, configured, inputs,
                   password, generated, service, dbSecret, dbUser, wpConfig, site, bound>>

RecordFailure(p, a) ==
    /\ pc[p] = "failed" /\ op[p].app = a
    /\ recipes' = IF recipes[a].status = "absent" THEN recipes
                  ELSE [recipes EXCEPT ![a].status = "failed"]
    /\ Goto(p, "idle") /\ op' = [op EXCEPT ![p] = Idle]
    /\ Quiet /\ UNCHANGED world

(***************************************************************************)
(* Every other recipe: install reads the state once and saves it last.     *)
(***************************************************************************)
InstallGeneric(p, a, env) ==
    /\ Plan(a, env) /\ ~GenericConverged(a, env)
    /\ Begin(p, a, env, "generic")
    /\ UNCHANGED <<recipes, catalogue, world, failures, crashes, stale, torn>>

\* The application is created when it is not listed.
GenericApplication(p, a) ==
    /\ pc[p] = "generic" /\ op[p].app = a
    /\ listed' = listed \cup {a}
    /\ Goto(p, "inputs")
    /\ Quiet
    /\ UNCHANGED <<recipes, op, configured, inputs, password, generated, service, dbSecret,
                   dbUser, current, wpConfig, site, bound>>

\* The services, the runtime, and the setup steps (health check, processes, deploy).
GenericServices(p, a) ==
    /\ pc[p] = "generic_services" /\ op[p].app = a
    /\ a \in listed
    /\ service' = service \cup {a} /\ configured' = configured \cup {a}
    /\ bound' = bound \cup {a}
    /\ Goto(p, "generic_save")
    /\ Quiet
    /\ UNCHANGED <<recipes, op, listed, inputs, password, generated, dbSecret, dbUser,
                   current, wpConfig, site>>

\* A save of the state a command read when it began, with one entry changed.
SaveLoaded(p, a, entry) ==
    /\ recipes' = [op[p].loaded EXCEPT ![a] = entry]
    /\ stale' = (stale \/ \E b \in Apps \ {a} : op[p].loaded[b] # recipes[b])
    /\ Goto(p, "idle") /\ op' = [op EXCEPT ![p] = Idle]
    /\ UNCHANGED <<catalogue, failures, crashes, met>>

GenericSave(p, a) ==
    /\ pc[p] = "generic_save" /\ op[p].app = a
    /\ SaveLoaded(p, a, [ status |-> "installed", version |-> op[p].version, secrets |-> TRUE,
                          bindings |-> FALSE, done |-> <<>> ])
    /\ torn' = torn \ {a}
    /\ UNCHANGED world

\* A failing generic install leaves what it did and records nothing.
GenericFails(p, a) ==
    /\ pc[p] \in SecretPCs \cup {"generic", "generic_services"} /\ op[p].app = a
    /\ LET refused == SecretsRefused(p) \/ (pc[p] = "generic_services" /\ a \notin listed)
       IN \/ refused /\ UNCHANGED failures
          \/ ~refused /\ failures < MaxFailures /\ failures' = failures + 1
    /\ Goto(p, "idle") /\ op' = [op EXCEPT ![p] = Idle]
    /\ torn' = torn \cup {a}
    /\ UNCHANGED <<recipes, catalogue, world, crashes, stale, met>>

(***************************************************************************)
(* Uninstall, the catalogue and crashes.                                   *)
(***************************************************************************)
UninstallEager(p, a) ==
    /\ recipes[a].status # "absent"
    /\ Begin(p, a, FALSE, "remove")
    /\ recipes' = [recipes EXCEPT ![a] = NoInstallation]
    /\ UNCHANGED <<catalogue, world, failures, crashes, stale, torn>>

\* An absent installation is reported as such; otherwise the entry leaves
\* the loaded state, which is saved last.
Uninstall(p, a) ==
    /\ recipes[a].status # "absent"
    /\ Begin(p, a, FALSE, "remove")
    /\ UNCHANGED <<recipes, catalogue, world, failures, crashes, stale, torn>>

\* When it is listed, the nginx site goes and the application moves to the trash.
UninstallApplication(p, a) ==
    /\ pc[p] = "remove" /\ op[p].app = a
    /\ listed' = listed \ {a} /\ configured' = configured \ {a}
    /\ current' = IF a \in listed THEN [current EXCEPT ![a] = 0] ELSE current
    /\ wpConfig' = IF a \in listed THEN [wpConfig EXCEPT ![a] = {}] ELSE wpConfig
    /\ Goto(p, "remove_secrets")
    /\ Quiet
    /\ UNCHANGED <<recipes, op, inputs, password, generated, service, dbSecret, dbUser,
                   site, bound>>

\* The secrets the installation recorded; the database and its user stay.
UninstallSecrets(p, a) ==
    /\ pc[p] = "remove_secrets" /\ op[p].app = a
    /\ inputs' = IF op[p].loaded[a].secrets THEN inputs \ {a} ELSE inputs
    /\ password' = IF op[p].loaded[a].secrets THEN [password EXCEPT ![a] = 0] ELSE password
    /\ Goto(p, "remove_bindings")
    /\ Quiet
    /\ UNCHANGED <<recipes, op, listed, configured, generated, service, dbSecret, dbUser,
                   current, wpConfig, site, bound>>

\* cleanup_wordpress_resources, then the save.
UninstallCleanup(p, a) ==
    /\ pc[p] = "remove_bindings" /\ op[p].app = a
    /\ bound' = bound \ {a}
    /\ Goto(p, "remove_save")
    /\ Quiet
    /\ UNCHANGED <<recipes, op, listed, configured, inputs, password, generated, service,
                   dbSecret, dbUser, current, wpConfig, site>>

UninstallSave(p, a) ==
    /\ pc[p] = "remove_save" /\ op[p].app = a
    /\ SaveLoaded(p, a, NoInstallation)
    /\ UNCHANGED world
    /\ torn' = torn \ {a}

\* A newer Lumic carries newer recipes.
NewCatalogue ==
    /\ catalogue < MaxVersion
    /\ catalogue' = catalogue + 1
    /\ UNCHANGED <<recipes, world, pc, op, failures, crashes, stale, torn, met>>

Crash(p) ==
    /\ pc[p] # "idle" /\ crashes < MaxCrashes
    /\ crashes' = crashes + 1
    /\ torn' = torn \cup {op[p].app}
    /\ pc' = [pc EXCEPT ![p] = "idle"] /\ op' = [op EXCEPT ![p] = Idle]
    /\ UNCHANGED <<recipes, catalogue, world, failures, stale, met>>

WordPress(p, a) ==
    \/ WordPressApplication(p, a)
    \/ Secrets(p, a)
    \/ WordPressSecrets(p, a)
    \/ WordPressService(p, a)
    \/ WordPressUserSecret(p, a)
    \/ WordPressDatabase(p, a)
    \/ WordPressRuntime(p, a)
    \/ WordPressActivate(p, a)
    \/ WordPressConfigure(p, a)
    \/ WordPressPersist(p, a)
    \/ WordPressHealth(p, a)
    \/ WordPressCommit(p, a)
    \/ WordPressFails(p, a)
    \/ RecordFailure(p, a)

Generic(p, a) ==
    \/ GenericApplication(p, a)
    \/ Secrets(p, a)
    \/ GenericServices(p, a)
    \/ GenericSave(p, a)
    \/ GenericFails(p, a)

Removal(p, a) ==
    \/ UninstallApplication(p, a)
    \/ UninstallSecrets(p, a)
    \/ UninstallCleanup(p, a)
    \/ UninstallSave(p, a)

Next ==
    \/ \E p \in Procs :
        \/ \E a \in WordPressApps : WordPress(p, a)
        \/ \E a \in GenericApps : Generic(p, a)
        \/ \E a \in Apps : Removal(p, a) \/ Uninstall(p, a)
        \/ \E env \in BOOLEAN :
            \/ \E a \in WordPressApps : InstallWordPress(p, a, env)
            \/ \E a \in GenericApps : InstallGeneric(p, a, env)
        \/ Crash(p)
    \/ NewCatalogue

Spec == Init /\ [][Next]_vars

(***************************************************************************)
(* Properties.                                                             *)
(***************************************************************************)
\* The variables hold the values recipe.rs can give them.
TypeOK ==
    /\ recipes \in [Apps -> Installations]
    /\ catalogue \in 1..MaxVersion
    /\ listed \subseteq Apps /\ configured \subseteq listed
    /\ inputs \subseteq Apps
    /\ password \in [Apps -> 0..MaxSecrets] /\ generated \in [Apps -> 0..MaxSecrets]
    /\ service \subseteq Apps /\ dbUser \subseteq dbSecret
    /\ current \in [Apps -> 0..MaxVersion] /\ bound \subseteq Apps

\* An operation on the application is under way, or died on it, or another
\* command's save has brought back old entries.
Disturbed(a) == stale \/ a \in torn \/ \E p \in Procs : op[p].app = a

\* What recipes.json reports as installed is whole on the host: the
\* application with its site, its secrets, its service, and for WordPress a
\* configured current release over an installed database.
InstalledIsWhole ==
    \A a \in Apps : recipes[a].status = "installed" /\ ~Disturbed(a) =>
        /\ a \in configured /\ a \in inputs /\ password[a] # 0 /\ a \in service
        /\ recipes[a].secrets
        /\ a \in WordPressApps => IsInstalled(a) /\ a \in dbUser

\* The journal is honest (RESOURCE_FRAMEWORK_PROGRESS.md: the failed progress
\* is kept for an explicit retry): a step it lists has its effect on the
\* host, whatever failed or died after it.
JournalHonest ==
    \A a \in WordPressApps :
        LET done(step) == \E i \in DOMAIN recipes[a].done : recipes[a].done[i] = step
        IN ~stale /\ ~(\E p \in Procs : op[p].app = a /\ pc[p] \notin WordPressPCs \cup {"failed"})
              /\ recipes[a].status \in {"updating", "failed"} /\ (a \in torn => a \in listed) =>
            /\ done("application") => a \in listed
            /\ done("secrets") => a \in inputs /\ password[a] # 0
            /\ done("database") => a \in service /\ a \in dbUser
            /\ done("runtime") => a \in configured
            /\ done("wordpress") => IsInstalled(a)

\* A failed activation never takes a working site down (recipes.md:49
\* "release activation restores the prior `current` target when setup
\* fails"): once configured, `current` stays on a configured release
\* outside an operation, unless an operation died on it.
WorkingSiteKept ==
    \A a \in WordPressApps :
        current[a] # 0 /\ a \notin torn /\ ~(\E p \in Procs : op[p].app = a) =>
            current[a] \in wpConfig[a]

\* Uninstall can be resumed: while anything that the recorded installation
\* names is left, its entry is still in recipes.json, so a second uninstall
\* finds it (a first install that failed names nothing yet).
UninstallResumable ==
    \A a \in WordPressApps :
        ~stale /\ recipes[a].status = "absent" /\ ~(\E p \in Procs : op[p].app = a) =>
        a \notin listed /\ current[a] = 0 /\ a \notin bound

\* The record of an installation promises no more than the host holds, when it
\* succeeded and when it failed, forgets nothing that is left, and a failure
\* takes no working site down.
InstallationsHonest ==
    TypeOK /\ InstalledIsWhole /\ JournalHonest /\ UninstallResumable /\ WorkingSiteKept

\* A retry keeps the administrator password the site was set up with: a
\* stored one goes with an uninstall, or when commands on its application
\* overlapped: create checks and writes in two steps.
PasswordKept ==
    [][ \A a \in Apps : password[a] # 0 /\ password'[a] # password[a] =>
            \E p \in Procs : op[p].app = a /\ (pc[p] = "remove_secrets" \/ p \in met) ]_vars

=============================================================================
