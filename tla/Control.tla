------------------------------- MODULE Control -------------------------------
(* Who asks a node to act, in one instance: the peers of the fleet with        *)
(* infrastructure.json, and the command line, MCP and the operator UI.  They   *)
(* share no state in the model, so a behaviour is about one of them.           *)
EXTENDS Fleet

CONSTANTS
    Browsers, Tabs, MaxSessions, SessionTime, LoginWindow, LoginFailures, UiTime,
    MaxTokens, MaxLogins, MaxReviews,
    Policies,   \* sets of scopes an operator may grant to MCP
    Followed    \* bound on the reviews up to which pages and forms are followed
VARIABLES
    uiNow, enabled, grants, mcpToken, uiToken, sessions, opened, failures, cookie, login,
    shown, reviews, installed, wrong, acted,
    about       \* what this behaviour is about

I == INSTANCE Interfaces WITH now <- uiNow, MaxTime <- UiTime
ASSUME ControlAssumption ==
    I!InterfacesAssumption /\ Policies \subseteq SUBSET I!Grants /\ Followed \in Nat

interfaces == <<uiNow, enabled, grants, mcpToken, uiToken, sessions, opened, failures,
                cookie, login, shown, reviews, installed, wrong, acted>>

OnlyEntry == about = "entry" /\ UNCHANGED <<about, vars>>
OnlyUi == about = "ui" /\ UNCHANGED <<about, vars>>
OnlyFleet == about = "fleet" /\ UNCHANGED <<about, interfaces>>

ControlInit == Init /\ I!Init /\ about \in {"entry", "ui", "fleet"}
ControlNext ==
    \/ OnlyEntry /\ \E c \in I!Commands : I!RunCommand(c)
    \/ OnlyEntry /\ \E allow \in BOOLEAN, granted \in Policies : I!ServeMcp(allow, granted)
    \/ OnlyEntry /\ I!RotateMcpToken
    \/ OnlyEntry /\ \E tool \in I!Tools, token \in 0..MaxTokens, approved \in BOOLEAN :
           I!CallTool(tool, token, approved)
    \/ OnlyUi /\ I!Tick
    \/ OnlyUi /\ I!RotateUiToken
    \/ \E b \in Browsers :
         \/ OnlyUi /\ I!LoginFails(b)
         \/ OnlyUi /\ I!LoginVerified(b)
         \/ OnlyUi /\ I!LoginOpens(b)
         \/ OnlyUi /\ I!Logout(b)
         \/ OnlyUi /\ I!TurnedAway(b)
         \/ OnlyUi /\ reviews <= Followed /\ \E op \in I!Pages : I!OpenPage(b, op)
         \/ OnlyUi /\ reviews <= Followed /\ I!PlanCatalogInstall(b)
         \/ OnlyUi /\ reviews <= Followed /\ \E op \in I!GitRequests, token \in 0..MaxTokens :
                I!GitSmartHttp(b, op, token)
         \/ OnlyUi /\ reviews <= Followed /\ \E op \in I!Forms, i \in I!Ids : I!SubmitForm(b, op, i)
         \/ \E t \in Tabs : OnlyUi /\ I!ReviewRecipe(b, t)
         \/ \E t \in Tabs : OnlyUi /\ I!InstallRecipe(b, t)
    \/ \E p \in Procs :
         \/ OnlyFleet /\ InitializeNode(p)
         \/ \E n \in Peers :
              \/ OnlyFleet /\ RegisterNode(p, n)
              \/ OnlyFleet /\ RevokeNode(p, n)
              \/ OnlyFleet /\ CheckNodeHealth(p, n)
         \/ \E n, m \in Nodes : OnlyFleet /\ RegisterEndpoint(p, n, m)
         \/ \E n \in Nodes : OnlyFleet /\ RegisterMembership(p, n)
         \/ \E r \in Requests : OnlyFleet /\ VerifyRemoteRequest(p, r)
         \/ OnlyFleet /\ ExecuteRemoteRequest(p)
         \/ \E members \in SUBSET Nodes : OnlyFleet /\ BeginCoordination(p, members)
         \/ OnlyFleet /\ PlanCoordination(p)
         \/ \E n \in Nodes, report \in Member : OnlyFleet /\ ReportCoordinationMember(p, n, report)
         \/ OnlyFleet /\ CreateHostedRepository(p)
         \/ \E on \in BOOLEAN : OnlyFleet /\ SetPushTrigger(p, on)
         \/ \E cloned \in BOOLEAN : OnlyFleet /\ SyncMirror(p, cloned)
         \/ \E s \in Secrets : OnlyFleet /\ GenerateSecret(p, s)
         \/ OnlyFleet /\ ExportEnvironment(p)
         \/ \E references \in SUBSET Secrets : OnlyFleet /\ ImportEnvironment(p, references)
         \/ OnlyFleet /\ RecordImport(p)
         \/ OnlyFleet /\ Save(p)
         \/ OnlyFleet /\ Crash(p)
    \/ \E n \in Peers : OnlyFleet /\ SignRemoteRequest(n)
    \/ OnlyFleet /\ Tick
ControlSpec == ControlInit /\ [][ControlNext]_<<vars, interfaces, about>>

\* The UI keeps its limits: throttle, sessions, and one install for each review.
UiLimitsHold == I!UiLimitsHold

\* MCP changes the node only when it is granted, its record of a peer's health
\* aside, and the pages of the UI only by a form.
ChangesAreGated == I!ChangesAreGated
=============================================================================
