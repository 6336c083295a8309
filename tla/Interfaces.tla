----------------------------- MODULE Interfaces -----------------------------
(***************************************************************************)
(* The three ways into Lumic: the command line (lumic-cli/src/main.rs),    *)
(* the MCP server (lumic-mcp/src/lib.rs and transport.rs) and the operator *)
(* UI (lumic-ui/src/lib.rs).  Each translates a request into one call of   *)
(* the platform services; what differs is what a request must carry.  The  *)
(* command line needs nothing, a mutating MCP tool needs the node's        *)
(* policy, a granted scope and the caller's approval, a UI action needs a  *)
(* live session of the current administrator token and its form token, and *)
(* Git's own transport below /git a session or the administrator token.    *)
(*                                                                         *)
(* An operation of the services is a string, the same one wherever it is   *)
(* reached from.  The tables below list, handler by handler, which         *)
(* operation it calls; the command line's table also says whether the call *)
(* changes what the node keeps.                                            *)
(***************************************************************************)
EXTENDS Naturals, Sequences, FiniteSets, SequencesExt, FiniteSetsExt

CONSTANTS
    Browsers,        \* clients of the operator UI
    Tabs,            \* open pages of one browser
    MaxSessions,     \* MAX_SESSIONS
    SessionTime,     \* SESSION_SECONDS
    LoginWindow,     \* LOGIN_WINDOW_SECONDS
    LoginFailures,   \* MAX_LOGIN_FAILURES
    MaxTime,         \* bound on the clock
    MaxTokens,       \* bound on token rotations
    MaxLogins,       \* bound on the sessions opened
    MaxReviews       \* bound on the recipe plans reviewed

InterfacesAssumption ==
    /\ {MaxSessions, SessionTime, LoginWindow, LoginFailures, MaxTime} \subseteq Nat \ {0}
    /\ {MaxTokens, MaxLogins, MaxReviews} \subseteq Nat

(***************************************************************************)
(* The command line.  Asks keeps nothing; Records keeps what it observed,  *)
(* without an operation context; Does changes the node under a context.    *)
(***************************************************************************)
Asks(operations) == [ op : operations, change : {FALSE} ]
Records(operations) == [ op : operations, change : {TRUE} ]
Does(operations) == [ op : operations, change : {TRUE} ]

MainCommands ==
    Asks({"server.inspect", "server.diagnose", "server.attention", "personality.show",
          "events.list", "audit.list"})
    \cup Does({"personality.set", "lumic.update", "lumic.nightly"})

IntelligenceCommands ==
    Asks({"integration.catalog", "application.fingerprint", "application.configuration",
          "application.graph", "integration.plan", "incident.context", "incident.analyze"})
    \cup Does({"integration.apply", "configuration.restore"})

OperationsCommands ==
    Asks({"operations.timeline", "operations.incident", "operations.destination.plan",
          "operations.rule.plan", "operations.deliveries"})
    \cup Records({"operations.capture", "operations.observe", "operations.signal",
                  "operations.run"})
    \cup Does({"operations.destination", "operations.subscription", "operations.rule",
               "operations.rollback"})

GitCommands == Does({"git.host", "git.mirror", "git.trigger", "git.receive"})

RepositoryCommands ==
    Asks({"repository.list", "repository.get", "repository.plan", "repository.discover",
          "repository.status", "repository.branches", "repository.tags"})
    \cup Does({"repository.create", "repository.import", "repository.register",
               "repository.adopt", "repository.delete"})

RemoteCommands ==
    Asks({"repository.clone_url", "repository.deployment.plan"})
    \cup Does({"repository.remote.add", "repository.remote.remove", "repository.fetch",
               "repository.push", "repository.deployment"})

EnvironmentCommands ==
    Asks({"environment.diff"})
    \cup Does({"secret.generate", "environment.reference", "environment.secret.set",
               "environment.secret.rotate", "environment.secret.delete",
               "environment.export", "environment.import"})

InfrastructureCommands ==
    Asks({"infrastructure.status", "node.enrollment", "remote.sign"})
    \cup Records({"node.health"})
    \cup Does({"node.initialize", "node.register", "node.revoke", "endpoint.register",
               "membership.register", "coordination.begin", "coordination.report",
               "remote.execute"})

RecipeCommands ==
    Asks({"recipe.catalog", "recipe.list", "recipe.inspect", "recipe.plan"})
    \cup Does({"recipe.install", "recipe.update", "recipe.uninstall"})

ServerCommands ==
    Asks({"host.snapshot", "host.firewall.status", "host.listeners", "host.mounts",
          "host.processes", "host.timers", "host.updates", "host.logs"})
    \cup Does({"host.account", "host.permissions", "host.firewall", "host.signal",
               "host.update", "host.backup", "host.remediate"})

ApplicationCommands ==
    Asks({"application.list", "application.inspect", "manifest.inspect", "manifest.plan"})
    \cup Does({"application.create", "manifest.apply", "application.repository",
               "credential.import", "application.provision", "application.health"})

DeploymentCommands ==
    Asks({"deployment.plan"})
    \cup Does({"application.process", "application.tls", "deployment.run",
               "deployment.configure"})

ReleaseCommands ==
    Asks({"deployment.logs", "deployment.list"})
    \cup Does({"deployment.cancel", "deployment.redeploy", "deployment.rollback",
               "application.delete"})

UnitCommands == Asks({"unit.inspect"}) \cup Does({"unit.apply"})

ServiceCommands ==
    Asks({"resource.catalog", "resource.schema", "service.list", "service.detect",
          "service.inspect", "resource.plan"})
    \cup Does({"resource.apply", "service.configure", "service.lifecycle"})

DatabaseCommands ==
    Asks({"service.logs", "backup.verify"})
    \cup Does({"service.update", "service.remove", "service.dependency", "database.create",
               "database.user", "database.grant", "backup.create", "backup.restore",
               "service.attach"})

PackageCommands ==
    Asks({"package.search", "package.inspect", "package.allowed"})
    \cup Does({"package.install", "package.remove", "package.update_index"})

Commands == MainCommands \cup IntelligenceCommands \cup OperationsCommands \cup GitCommands
    \cup RepositoryCommands \cup RemoteCommands \cup EnvironmentCommands
    \cup InfrastructureCommands \cup RecipeCommands \cup ServerCommands
    \cup ApplicationCommands \cup DeploymentCommands \cup ReleaseCommands \cup UnitCommands
    \cup ServiceCommands \cup DatabaseCommands \cup PackageCommands

\* What changes the node but is not a command: MCP tools, forms of the UI, and
\* the push of a Git client.
OtherChanges == {"service.install", "software.setup", "binding.apply", "binding.remove",
                 "git.push"}

\* What changes the node, wherever it is asked for.
Changes == { c.op : c \in { c \in Commands : c.change } } \cup OtherChanges

(***************************************************************************)
(* The MCP tools: the scope that each handler requires, "none" for a read. *)
(***************************************************************************)
Reads(operations) == [ op : operations, scope : {"none"} ]
Mutates(operations) == [ op : operations, scope : {"mutations"} ]
Scoped(scope, operations) == [ op : operations, scope : {scope} ]

InspectionTools ==
    Reads({"server.inspect", "server.diagnose", "server.attention", "application.list",
           "application.inspect", "application.fingerprint", "application.configuration",
           "application.graph", "integration.catalog", "integration.plan"})

IntegrationTools ==
    Scoped("application.integrate", {"integration.apply", "configuration.restore"})
    \cup Scoped("incident.analyze", {"incident.analyze"})
    \cup Reads({"incident.context", "deployment.plan"})

ApplicationTools ==
    Reads({"manifest.inspect", "manifest.plan", "deployment.list"})
    \cup Mutates({"manifest.apply", "application.create", "application.repository",
                  "application.provision", "application.health"})

DeploymentTools ==
    Reads({"deployment.logs"})
    \cup Mutates({"deployment.run", "deployment.configure", "deployment.cancel",
                  "deployment.redeploy", "deployment.rollback", "application.tls"})

NodeTools ==
    Reads({"infrastructure.status", "node.enrollment", "node.health"})
    \cup Mutates({"application.process", "node.initialize", "node.register", "node.revoke"})

RepositoryToolsUngated ==
    Reads({"repository.list", "repository.get", "repository.deployment.plan",
           "repository.plan", "repository.create"})
    \cup Mutates({"git.host", "repository.deployment", "repository.import"})

RepositoryTools ==
    Reads({"repository.list", "repository.get", "repository.deployment.plan",
           "repository.plan"})
    \cup Mutates({"git.host", "repository.deployment", "repository.create",
                  "repository.import"})

StorageTools ==
    Reads({"repository.discover", "repository.status", "repository.branches",
           "repository.tags"})
    \cup Mutates({"repository.register", "repository.adopt", "repository.delete",
                  "repository.remote.add"})

RemoteTools ==
    Mutates({"repository.remote.remove", "repository.fetch", "repository.push",
             "git.mirror", "git.trigger", "secret.generate"})

EnvironmentTools ==
    Reads({"environment.diff"})
    \cup Mutates({"environment.reference", "environment.secret.rotate",
                  "environment.secret.delete", "environment.export", "environment.import"})

FleetTools ==
    Reads({"remote.sign"})
    \cup Mutates({"endpoint.register", "membership.register", "coordination.begin",
                  "coordination.report", "remote.execute"})

ResourceTools ==
    Reads({"resource.catalog", "resource.schema", "resource.plan", "resource.inspect"})
    \cup Mutates({"resource.apply"})

BindingTools ==
    Reads({"binding.list", "pipeline.list", "pipeline.inspect", "service.list",
           "service.detect", "service.inspect", "service.plan"})
    \cup Mutates({"binding.apply", "binding.remove"})

ServiceTools ==
    Mutates({"service.install", "service.configure", "service.lifecycle", "service.update",
             "service.remove", "service.dependency", "database.create", "database.user"})

BackupTools ==
    Reads({"backup.verify", "package.inspect"})
    \cup Mutates({"database.grant", "backup.create", "backup.restore", "service.attach",
                  "package.install"})

SoftwareTools ==
    Reads({"software.catalog", "software.status", "software.plan", "unit.inspect",
           "recipe.catalog", "recipe.list", "recipe.plan"})
    \cup Mutates({"software.setup", "unit.apply", "recipe.install"})

HostTools ==
    Reads({"host.snapshot", "host.logs"})
    \cup Mutates({"recipe.update", "recipe.uninstall", "host.account", "host.permissions"})

RemediationTools ==
    Mutates({"host.firewall", "host.signal", "host.update", "host.backup", "host.remediate"})

OperationTools ==
    Reads({"operations.timeline", "operations.incident", "operations.destination.plan"})
    \cup Scoped("operations.signal", {"operations.signal"})
    \cup Scoped("operations.configure", {"operations.destination", "operations.subscription"})

AutomationTools ==
    Reads({"operations.rule.plan", "operations.deliveries", "events.list", "audit.list"})
    \cup Scoped("operations.automate", {"operations.rule"})
    \cup Scoped("operations.run", {"operations.run", "operations.observe"})
    \cup Scoped("operations.configure", {"operations.rollback"})

Tools == InspectionTools \cup IntegrationTools \cup ApplicationTools \cup DeploymentTools
    \cup NodeTools \cup RepositoryTools \cup StorageTools \cup RemoteTools
    \cup EnvironmentTools \cup FleetTools \cup ResourceTools \cup BindingTools
    \cup ServiceTools \cup BackupTools \cup SoftwareTools \cup HostTools
    \cup RemediationTools \cup OperationTools \cup AutomationTools

\* Scopes an operator can grant, with the wildcards of the operations family.
Scopes == {"mutations", "application.integrate", "incident.analyze", "operations.signal",
           "operations.configure", "operations.automate", "operations.run"}
OperationsFamily == { s \in Scopes : s \in {"operations.signal", "operations.configure",
                                            "operations.automate", "operations.run"} }
Grants == Scopes \cup {"operations.*", "*"}

(***************************************************************************)
(* The operator UI: what its pages ask and what its forms do.              *)
(***************************************************************************)
OverviewPage == {"server.inspect", "server.attention", "application.list", "service.list",
                 "events.list", "infrastructure.status"}
InfrastructurePages == {"infrastructure.status"}
RepositoryPages == {"repository.list", "repository.get", "repository.status",
                    "repository.branches", "repository.tags"}
ApplicationPages == {"application.list", "recipe.catalog", "recipe.list"}
ApplicationDetail == {"host.snapshot", "application.inspect", "deployment.list",
                      "application.fingerprint", "application.graph", "pipeline.list"}
ServicePages == {"service.list", "resource.catalog", "resource.schema"}
InstallerPage == {"software.catalog", "software.status"}
ServiceDetail == {"service.inspect", "service.logs", "resource.schema"}
HistoryPages == {"deployment.list", "deployment.logs", "pipeline.inspect", "events.list"}
ConfirmPages == {"software.plan"}

Pages == OverviewPage \cup InfrastructurePages \cup RepositoryPages \cup ApplicationPages
    \cup ApplicationDetail \cup ServicePages \cup InstallerPage \cup ServiceDetail
    \cup HistoryPages \cup ConfirmPages

RepositoryForms == {"repository.create", "repository.import", "repository.register",
                    "repository.deployment"}
RecipeForms == {"recipe.update", "recipe.uninstall"}
ActionForms == {"service.lifecycle", "software.setup", "deployment.run",
                "deployment.rollback", "host.update"}
CatalogForms == {"resource.apply"}
Forms == RepositoryForms \cup RecipeForms \cup ActionForms \cup CatalogForms

\* What a Git client asks of the UI's listener.
GitRequests == {"git.fetch", "git.push"}

(***************************************************************************)
(* State.                                                                  *)
(***************************************************************************)
VARIABLES
    now,        \* the clock
    enabled,    \* LUMIC_MCP_ALLOW_MUTATIONS=1 in the MCP process
    grants,     \* LUMIC_MCP_SCOPES
    mcpToken,   \* generation of the MCP HTTP token, 0 before the first rotation
    uiToken,    \* generation of the UI administrator token
    sessions,   \* session id -> record of an open session
    opened,     \* sessions opened so far: the next id is a fresh one
    failures,   \* LoginThrottle: times of the failed attempts
    cookie,     \* the session id that each browser sends
    login,      \* a login between the throttle and the session table
    shown,      \* the recipe plan that a tab shows for confirmation
    reviews,    \* recipe plans reviewed so far
    installed,  \* reviewed plans that were installed, in order
    wrong,      \* history: times of the wrong tokens answered since the last right one
    acted       \* history: the last operation called, and on whose behalf

mcp == <<enabled, grants, mcpToken>>
ui == <<uiToken, sessions, opened, failures, cookie, login, shown, reviews, installed, wrong>>
vars == <<now, mcp, ui, acted>>

Ids == 1..MaxLogins
NoSession == [ open |-> FALSE, csrf |-> 0, expires |-> 0, token |-> 0, pending |-> 0 ]
NoLogin == [ at |-> 0, token |-> 0 ]
Open(table) == { i \in Ids : table[i].open }
Live == Open(sessions)
Nobody == [ via |-> "nobody", op |-> "none", session |-> 0, token |-> 0, approved |-> FALSE ]
Act(via, op, session, token, approved) ==
    acted' = [ via |-> via, op |-> op, session |-> session, token |-> token,
               approved |-> approved ]

Init ==
    /\ now = 1
    /\ enabled = FALSE /\ grants = {} /\ mcpToken = 0
    /\ uiToken = 0
    /\ sessions = [ i \in Ids |-> NoSession ] /\ opened = 0 /\ failures = <<>>
    /\ cookie = [ b \in Browsers |-> 0 ] /\ login = [ b \in Browsers |-> NoLogin ]
    /\ shown = [ b \in Browsers |-> [ t \in Tabs |-> 0 ] ]
    /\ reviews = 0 /\ installed = <<>> /\ wrong = <<>>
    /\ acted = Nobody

(***************************************************************************)
(* Command line and MCP.                                                   *)
(***************************************************************************)
RunCommand(c) ==
    /\ Act("cli", c.op, 0, 0, TRUE)
    /\ UNCHANGED <<now, mcp, ui>>

\* A restart of the MCP process with another policy.
ServeMcp(allow, granted) ==
    /\ enabled' = allow /\ grants' = granted
    /\ UNCHANGED <<now, mcpToken, ui, acted>>

RotateMcpToken ==
    /\ mcpToken < MaxTokens
    /\ mcpToken' = mcpToken + 1
    /\ UNCHANGED <<now, enabled, grants, ui, acted>>

\* authorize: stdio needs no token, HTTP the current one.
Authorized(token) == token = 0 \/ token = mcpToken

Granted(scope) ==
    \/ "*" \in grants
    \/ scope \in grants
    \/ scope \in OperationsFamily /\ "operations.*" \in grants

RequireScope(scope, approved) == enabled /\ approved /\ Granted(scope)

CallTool(tool, token, approved) ==
    /\ Authorized(token)
    /\ tool.scope = "none" \/ RequireScope(tool.scope, approved)
    /\ Act("mcp", tool.op, 0, token, approved)
    /\ UNCHANGED <<now, mcp, ui>>

(***************************************************************************)
(* The UI: tokens, logins and sessions.                                    *)
(***************************************************************************)
Tick ==
    /\ now < MaxTime
    /\ now' = now + 1
    /\ UNCHANGED <<mcp, ui, acted>>

RotateUiToken ==
    /\ uiToken < MaxTokens
    /\ uiToken' = uiToken + 1
    /\ UNCHANGED <<now, mcp, sessions, opened, failures, cookie, login, shown, reviews, installed,
                   wrong, acted>>

PruneEager(times) == IF times # <<>> /\ now - Head(times) >= LoginWindow THEN <<>> ELSE times

\* LoginThrottle::prune: what is older than the window leaves the front.
Prune(times) ==
    LET old(i) == now - times[i] >= LoginWindow
        dropped == CHOOSE n \in 0..Len(times) :
                       /\ \A i \in 1..n : old(i)
                       /\ n < Len(times) => ~old(n + 1)
    IN SubSeq(times, dropped + 1, Len(times))

Limited == Len(Prune(failures)) >= LoginFailures

\* A wrong token (or none configured), answered under the throttle's lock.
LoginFails(b) ==
    /\ ~Limited /\ Len(wrong) < LoginFailures + 2
    /\ failures' = Append(Prune(failures), now)
    /\ wrong' = Append(wrong, now)
    /\ UNCHANGED <<now, mcp, uiToken, sessions, opened, cookie, login, shown, reviews, installed, acted>>

\* The right token clears the failures and releases the throttle...
LoginVerified(b) ==
    /\ login[b] = NoLogin /\ uiToken # 0 /\ ~Limited
    /\ failures' = <<>> /\ wrong' = <<>>
    /\ login' = [login EXCEPT ![b] = [ at |-> now, token |-> uiToken ]]
    /\ UNCHANGED <<now, mcp, uiToken, sessions, opened, cookie, shown, reviews, installed, acted>>

Unexpired(time) == [ i \in Ids |-> IF sessions[i].open /\ sessions[i].expires >= time
                                   THEN sessions[i] ELSE NoSession ]

\* The session that expires first makes room for a new one.
Oldest(table) ==
    CHOOSE i \in Open(table) : \A j \in Open(table) : table[i].expires <= table[j].expires
EvictOldest(table) ==
    IF Cardinality(Open(table)) >= MaxSessions THEN [table EXCEPT ![Oldest(table)] = NoSession]
    ELSE table

\* ... and the session is inserted afterwards, with a fresh id.
LoginOpens(b) ==
    /\ login[b] # NoLogin /\ opened < MaxLogins
    /\ opened' = opened + 1
    /\ sessions' = [EvictOldest(Unexpired(login[b].at)) EXCEPT ![opened + 1] =
           [ open |-> TRUE, csrf |-> opened + 1, expires |-> login[b].at + SessionTime,
             token |-> login[b].token, pending |-> 0 ]]
    /\ cookie' = [cookie EXCEPT ![b] = opened + 1]
    /\ login' = [login EXCEPT ![b] = NoLogin]
    /\ UNCHANGED <<now, mcp, uiToken, failures, shown, reviews, installed, wrong, acted>>

Logout(b) ==
    /\ cookie[b] # 0
    /\ sessions' = [sessions EXCEPT ![cookie[b]] = NoSession]
    /\ cookie' = [cookie EXCEPT ![b] = 0]
    /\ UNCHANGED <<now, mcp, uiToken, opened, failures, login, shown, reviews, installed, wrong, acted>>

\* auth: the session is open, has not expired, and belongs to the current token.
Auth(b) ==
    /\ cookie[b] # 0 /\ Unexpired(now)[cookie[b]].open
    /\ sessions[cookie[b]].token = uiToken

\* The sessions auth leaves behind: the expired and the revoked are dropped.
AfterAuth(b) ==
    IF cookie[b] = 0 THEN sessions
    ELSE IF Auth(b) THEN Unexpired(now)
    ELSE [Unexpired(now) EXCEPT ![cookie[b]] = NoSession]

\* A request that is sent to the login page or forbidden.
TurnedAway(b) ==
    /\ ~Auth(b) /\ cookie[b] # 0
    /\ sessions' = AfterAuth(b)
    /\ sessions' # sessions
    /\ UNCHANGED <<now, mcp, uiToken, opened, failures, cookie, login, shown, reviews, installed,
                   wrong, acted>>

OpenPage(b, op) ==
    /\ Auth(b)
    /\ sessions' = AfterAuth(b)
    /\ Act("ui", op, cookie[b], sessions[cookie[b]].token, FALSE)
    /\ UNCHANGED <<now, mcp, uiToken, opened, failures, cookie, login, shown, reviews, installed, wrong>>

\* authorized_post: the session and the form token of that session.
SubmitForm(b, op, csrf) ==
    /\ Auth(b) /\ sessions[cookie[b]].csrf = csrf
    /\ sessions' = AfterAuth(b)
    /\ Act("ui", op, cookie[b], sessions[cookie[b]].token, TRUE)
    /\ UNCHANGED <<now, mcp, uiToken, opened, failures, cookie, login, shown, reviews, installed, wrong>>

\* confirm_service_catalog_install plans, and answers what is wrong with the
\* plan, before it looks for a session.
PlanCatalogInstall(b) ==
    /\ sessions' = AfterAuth(b)
    /\ Act("ui", "resource.plan", 0, 0, FALSE)
    /\ UNCHANGED <<now, mcp, uiToken, opened, failures, cookie, login, shown, reviews, installed, wrong>>

\* git_smart_http: a session, or the administrator token as a bearer's; no form
\* token, and no throttle.
GitActor(b, token) == Auth(b) \/ (uiToken # 0 /\ token = uiToken)
GitSmartHttp(b, op, token) ==
    /\ GitActor(b, token)
    /\ sessions' = AfterAuth(b)
    /\ Act("git", op, IF Auth(b) THEN cookie[b] ELSE 0, uiToken, FALSE)
    /\ UNCHANGED <<now, mcp, uiToken, opened, failures, cookie, login, shown, reviews, installed, wrong>>

\* recipe_plan: the plan is shown, and its request kept in the session.
ReviewRecipe(b, t) ==
    /\ Auth(b) /\ reviews < MaxReviews
    /\ reviews' = reviews + 1
    /\ sessions' = [AfterAuth(b) EXCEPT ![cookie[b]].pending = reviews + 1]
    /\ shown' = [shown EXCEPT ![b][t] = reviews + 1]
    /\ UNCHANGED <<now, mcp, uiToken, opened, failures, cookie, login, installed, wrong, acted>>

\* recipe_install takes the pending request out of the session and installs it.
InstallRecipe(b, t) ==
    /\ Auth(b) /\ shown[b][t] # 0
    /\ sessions[cookie[b]].pending # 0
    /\ installed' = Append(installed, sessions[cookie[b]].pending)
    /\ sessions' = [AfterAuth(b) EXCEPT ![cookie[b]].pending = 0]
    /\ Act("ui", "recipe.install", cookie[b], sessions[cookie[b]].token, TRUE)
    /\ UNCHANGED <<now, mcp, uiToken, opened, failures, cookie, login, shown, reviews, wrong>>

UiStep(b) ==
    \/ LoginFails(b)
    \/ LoginVerified(b)
    \/ LoginOpens(b)
    \/ Logout(b)
    \/ TurnedAway(b)
    \/ \E op \in Pages : OpenPage(b, op)
    \/ PlanCatalogInstall(b)
    \/ \E op \in Forms, i \in Ids : SubmitForm(b, op, i)
    \/ \E op \in GitRequests, token \in 0..MaxTokens : GitSmartHttp(b, op, token)
    \/ \E t \in Tabs : ReviewRecipe(b, t)
    \/ \E t \in Tabs : InstallRecipe(b, t)

Next ==
    \/ \E c \in Commands : RunCommand(c)
    \/ \E allow \in BOOLEAN, granted \in SUBSET Grants : ServeMcp(allow, granted)
    \/ RotateMcpToken
    \/ \E tool \in Tools, token \in 0..MaxTokens, approved \in BOOLEAN :
           CallTool(tool, token, approved)
    \/ Tick
    \/ RotateUiToken
    \/ \E b \in Browsers : UiStep(b)

Spec == Init /\ [][Next]_vars

(***************************************************************************)
(* Properties.                                                             *)
(***************************************************************************)
\* The variables hold what the interfaces can put there; in particular the
\* session table never outgrows MAX_SESSIONS, whoever logs in while it is full.
TypeOK ==
    /\ now \in 1..MaxTime
    /\ enabled \in BOOLEAN /\ grants \subseteq Grants
    /\ mcpToken \in 0..MaxTokens /\ uiToken \in 0..MaxTokens
    /\ \A i \in Live : sessions[i].token \in 1..uiToken /\ sessions[i].pending \in 0..reviews
    /\ Cardinality(Live) <= MaxSessions
    /\ opened \in 0..MaxLogins /\ cookie \in [Browsers -> 0..opened]
    /\ Len(failures) <= LoginFailures

\* SECURITY.md:32: whatever changes the node, MCP does only when the process
\* allows mutations, some scope is granted and the call approved; this ties every
\* tool of the MCP table to the change it really makes, wherever else that change
\* is offered.  One is not gated: node_health, whose description says that it
\* persists its evidence.
Evidence == {"node.health"}
McpChangesGated ==
    [][ acted' # acted /\ acted'.via = "mcp" /\ acted'.op \in Changes \ Evidence =>
            enabled /\ acted'.approved /\ grants # {} ]_vars

\* SECURITY.md:32, least privilege: the `mutations` scope alone never
\* configures or runs operations, changes an application's integration or
\* discloses an incident.
McpLeastPrivilege ==
    [][ acted' # acted /\ acted'.via = "mcp" /\ grants = {"mutations"} =>
            acted'.op \notin {"operations.signal", "operations.destination",
                "operations.subscription", "operations.rule", "operations.run",
                "operations.observe", "operations.rollback", "integration.apply",
                "configuration.restore", "incident.analyze"} ]_vars

\* Looking at the UI changes nothing, with a session or without one: what is
\* called without a form is never a change.
PagesOnlyAsk ==
    [][ acted' # acted /\ acted'.via = "ui" /\ ~acted'.approved => acted'.op \notin Changes ]_vars

\* MCP changes a node by policy, scope and approval, its record of a peer's
\* health aside; the pages of the UI by a submitted form.  (The command line and
\* a Git client's push change it too: the one is the operator's shell, the other
\* needs a session or the administrator token, and no form token.)
ChangesAreGated == McpChangesGated /\ McpLeastPrivilege /\ PagesOnlyAsk

\* The login throttle: within a window, and without a right token between, the
\* login form answers no more than MAX_LOGIN_FAILURES wrong tokens.
ThrottleHolds ==
    \A i \in DOMAIN wrong :
        Cardinality({ j \in DOMAIN wrong : j <= i /\ wrong[i] - wrong[j] < LoginWindow })
            <= LoginFailures

\* A reviewed recipe plan is installed at most once, whatever is submitted
\* again from whichever tab.
ReviewedInstalledOnce == IsInjective(installed)

\* What the UI limits stays limited: wrong tokens in a window, installations of
\* one reviewed plan.
UiLimitsHold == TypeOK /\ ThrottleHolds /\ ReviewedInstalledOnce

=============================================================================
