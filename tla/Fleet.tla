------------------------------- MODULE Fleet -------------------------------
(***************************************************************************)
(* infrastructure.json of one node (infrastructure.rs): its identity, the   *)
(* peers it trusts, the signed requests it has consumed, coordinated         *)
(* deployments, hosted repositories with push triggers.  Every operation    *)
(* loads the whole file and later saves it, without a lock; some wait for   *)
(* git or the network in between.                                           *)
(***************************************************************************)
EXTENDS Naturals, FiniteSets

CONSTANTS
    Procs,
    Peers,          \* other nodes
    Local,          \* this node
    Secrets,        \* names of secrets an environment may refer to
    MaxRequests,    \* bound on signed requests
    MaxTime,        \* bound on the clock
    Ttl,            \* longest life of a request
    CacheSize,      \* consumed_nonces never holds more
    MaxCrashes

ASSUME FleetAssumption ==
    /\ Local \notin Peers
    /\ MaxRequests \in Nat /\ MaxTime \in Nat /\ Ttl \in Nat \ {0}
    /\ CacheSize \in Nat \ {0} /\ MaxCrashes \in Nat
    /\ "none" \notin Secrets     \* it marks the absent application

VARIABLES
    infra,      \* infrastructure.json
    signed,     \* the requests peers have signed, delivered any number of times
    executed,   \* how often each request was executed
    host,       \* key, repository and hook, mirror, secrets, application
    now, pc, job, crashes,
    clobbered   \* history: a stale save has overwritten infra

vars == <<infra, signed, executed, host, now, pc, job, crashes, clobbered>>

-----------------------------------------------------------------------------
Requests == 1..MaxRequests
Nodes == Peers \cup {Local}

MemberStatus == {"pending", "running", "succeeded", "failed", "rolled_back"}
Member == [status : MemberStatus, healthy : {"unknown", "yes", "no"}]
NoMembers == [n \in {} |-> {}]
NoApplication == {"none"}
NoCoordination == [status |-> "none", members |-> NoMembers]

Init ==
    /\ infra = [identity |-> FALSE,
                trust |-> [n \in Peers |-> "unknown"],
                consumed |-> {},
                coordination |-> NoCoordination,
                links |-> {}, hosted |-> FALSE, trigger |-> FALSE,
                mirrored |-> FALSE, exported |-> FALSE, imported |-> NoApplication]
    /\ signed = [r \in {} |-> 0]
    /\ executed = [r \in Requests |-> 0]
    /\ host = [key |-> FALSE, repository |-> FALSE, hook |-> FALSE,
               mirror |-> FALSE, secrets |-> {}, application |-> NoApplication]
    /\ now = 0
    /\ pc = [p \in Procs |-> "idle"]
    /\ job = [p \in Procs |-> [op |-> "none"]]
    /\ crashes = 0 /\ clobbered = FALSE

\* node_is_known: the local node, or a peer trusted at present.
Known(state, n) ==
    \/ n = Local /\ state.identity
    \/ n \in Peers /\ state.trust[n] = "trusted"

Goto(p, label) == pc' = [pc EXCEPT ![p] = label]

\* Process p loads the file for an operation that will save `new`.
Load(p, op, new) ==
    /\ pc[p] = "idle"
    /\ job' = [job EXCEPT ![p] = [op |-> op, seen |-> infra, new |-> new]]
    /\ Goto(p, "save")
    /\ UNCHANGED <<infra, signed, executed, host, now, crashes, clobbered>>

Save(p) ==
    /\ pc[p] = "save"
    /\ infra' = job[p].new
    /\ clobbered' = (clobbered \/ infra # job[p].seen)
    /\ IF job[p].op = "verify"
       THEN /\ Goto(p, "execute")
            /\ job' = [job EXCEPT ![p] = [op |-> "verify", request |-> @.request]]
       ELSE /\ Goto(p, "idle")
            /\ job' = [job EXCEPT ![p] = [op |-> "none"]]
    /\ UNCHANGED <<signed, executed, host, now, crashes>>

-----------------------------------------------------------------------------
(* Identity, trust, endpoints, health.                                     *)

\* The key is created once and used again when the save after it was lost.
InitializeNode(p) ==
    /\ ~infra.identity
    /\ pc[p] = "idle"
    /\ host' = [host EXCEPT !.key = TRUE]
    /\ job' = [job EXCEPT ![p] = [op |-> "initialize", seen |-> infra,
                                  new |-> [infra EXCEPT !.identity = TRUE]]]
    /\ Goto(p, "save")
    /\ UNCHANGED <<infra, signed, executed, now, crashes, clobbered>>

RegisterNode(p, n) ==
    /\ infra.identity
    /\ Load(p, "register", [infra EXCEPT !.trust[n] = "trusted"])

RevokeNode(p, n) ==
    /\ infra.trust[n] # "unknown"
    /\ Load(p, "revoke", [infra EXCEPT !.trust[n] = "revoked"])

\* The connection takes up to three seconds between the load and the save;
\* what it records of the peer is not modelled.
CheckNodeHealth(p, n) ==
    /\ infra.trust[n] = "trusted"
    /\ Load(p, "health", infra)

\* An endpoint or a membership names nodes this one knows.
RegisterEndpoint(p, provider, consumer) ==
    /\ Known(infra, provider) /\ Known(infra, consumer)
    /\ Load(p, "endpoint", [infra EXCEPT !.links = @ \cup {<<provider, consumer>>}])

RegisterMembership(p, n) ==
    /\ Known(infra, n)
    /\ Load(p, "membership", [infra EXCEPT !.links = @ \cup {<<n>>}])

-----------------------------------------------------------------------------
(* Signed requests.                                                        *)

\* A peer signs a request for this node; its clock may be ahead by one.
SignRemoteRequest(n) ==
    LET r == Cardinality(DOMAIN signed) + 1 IN
    /\ r \in Requests
    /\ \E expires \in now + 1 .. now + Ttl + 1 :
         signed' = [s \in DOMAIN signed \cup {r} |->
                        IF s \in DOMAIN signed THEN signed[s]
                        ELSE [origin |-> n, expires |-> expires]]
    /\ UNCHANGED <<infra, executed, host, now, pc, job, crashes, clobbered>>

\* Consumed nonces of requests that have expired are forgotten.
Purge(consumed) == {r \in consumed : signed[r].expires >= now}

\* Mutant: a request on its last instant is already forgotten.
PurgeEarly(consumed) == {r \in consumed : signed[r].expires > now}

Acceptable(r, consumed) ==
    /\ now <= signed[r].expires /\ signed[r].expires <= now + Ttl
    /\ r \notin consumed
    /\ infra.trust[signed[r].origin] = "trusted"
    /\ Cardinality(consumed) < CacheSize

\* Mutant of VerifyRemoteRequest: the purge forgets a request too early.
VerifyPurgingEarly(p, r) ==
    LET consumed == PurgeEarly(infra.consumed) IN
    /\ pc[p] = "idle" /\ infra.identity /\ r \in DOMAIN signed
    /\ Acceptable(r, consumed)
    /\ job' = [job EXCEPT ![p] =
                  [op |-> "verify", request |-> r, seen |-> infra,
                   new |-> [infra EXCEPT !.consumed = consumed \cup {r}]]]
    /\ Goto(p, "save")
    /\ UNCHANGED <<infra, signed, executed, host, now, crashes, clobbered>>

VerifyRemoteRequest(p, r) ==
    LET consumed == Purge(infra.consumed) IN
    /\ pc[p] = "idle" /\ infra.identity /\ r \in DOMAIN signed
    /\ Acceptable(r, consumed)
    /\ job' = [job EXCEPT ![p] =
                  [op |-> "verify", request |-> r, seen |-> infra,
                   new |-> [infra EXCEPT !.consumed = consumed \cup {r}]]]
    /\ Goto(p, "save")
    /\ UNCHANGED <<infra, signed, executed, host, now, crashes, clobbered>>

\* The deployment or rollback is run once the nonce is saved.
ExecuteRemoteRequest(p) ==
    /\ pc[p] = "execute"
    /\ executed' = [executed EXCEPT ![job[p].request] = @ + 1]
    /\ Goto(p, "idle")
    /\ job' = [job EXCEPT ![p] = [op |-> "none"]]
    /\ UNCHANGED <<infra, signed, host, now, crashes, clobbered>>

-----------------------------------------------------------------------------
(* Coordinated deployments: one at a time here.                            *)

\* The members are checked against one load of the file and the plan is
\* pushed onto another.
BeginCoordination(p, members) ==
    /\ pc[p] = "idle"
    /\ members # {} /\ \A n \in members : Known(infra, n)
    /\ infra.coordination = NoCoordination
    /\ job' = [job EXCEPT ![p] = [op |-> "begin", members |-> members]]
    /\ Goto(p, "plan")
    /\ UNCHANGED <<infra, signed, executed, host, now, crashes, clobbered>>

PlanCoordination(p) ==
    /\ pc[p] = "plan"
    /\ infra.coordination = NoCoordination
    /\ job' = [job EXCEPT ![p] =
           [op |-> "begin", seen |-> infra,
            new |-> [infra EXCEPT !.coordination =
              [status |-> "planned",
               members |-> [n \in job[p].members |->
                              [status |-> "pending", healthy |-> "unknown"]]]]]]
    /\ Goto(p, "save")
    /\ UNCHANGED <<infra, signed, executed, host, now, crashes, clobbered>>

\* The status of a coordination follows from its members' reports.
Verdict(status, members) ==
    IF \E n \in DOMAIN members : members[n].status = "failed" \/ members[n].healthy = "no"
    THEN "failed"
    ELSE IF \A n \in DOMAIN members :
                members[n].status = "succeeded" /\ members[n].healthy = "yes"
    THEN "succeeded"
    ELSE IF status = "failed" THEN "failed" ELSE "running"

\* Mutant: any report is taken.
MayReportAnything(c, n, report) == TRUE

MayReport(c, n, report) ==
    \/ c.status # "failed"
    \/ c.members[n].status # "pending"
    \/ report.status = "rolled_back"

ReportCoordinationMember(p, n, report) ==
    LET c == infra.coordination
        members == [c.members EXCEPT ![n] = report]
    IN
    /\ n \in DOMAIN c.members
    /\ MayReport(c, n, report)
    /\ Load(p, "report", [infra EXCEPT !.coordination =
            [status |-> Verdict(c.status, members), members |-> members]])

-----------------------------------------------------------------------------
(* A hosted repository and its push-to-deploy trigger.                     *)

\* git init runs between the load and the save; an existing path is refused.
CreateHostedRepository(p) ==
    /\ ~infra.hosted /\ ~host.repository
    /\ pc[p] = "idle"
    /\ host' = [host EXCEPT !.repository = TRUE]
    /\ job' = [job EXCEPT ![p] = [op |-> "host", seen |-> infra,
                                  new |-> [infra EXCEPT !.hosted = TRUE]]]
    /\ Goto(p, "save")
    /\ UNCHANGED <<infra, signed, executed, now, crashes, clobbered>>

\* Mutant: the trigger is saved and the hook is not written.
SetTriggerWithoutHook(p, enabled) ==
    /\ infra.hosted
    /\ Load(p, "trigger", [infra EXCEPT !.trigger = enabled])

\* The hook is written first, then the trigger saved.
SetPushTrigger(p, enabled) ==
    /\ infra.hosted
    /\ pc[p] = "idle"
    /\ host' = [host EXCEPT !.hook = TRUE]
    /\ job' = [job EXCEPT ![p] = [op |-> "trigger", seen |-> infra,
                                  new |-> [infra EXCEPT !.trigger = enabled]]]
    /\ Goto(p, "save")
    /\ UNCHANGED <<infra, signed, executed, now, crashes, clobbered>>

\* A mirror is cloned, or updated when it exists, before it is recorded.
SyncMirror(p, cloned) ==
    /\ pc[p] = "idle"
    /\ host' = [host EXCEPT !.mirror = @ \/ cloned]
    /\ IF cloned
       THEN /\ job' = [job EXCEPT ![p] = [op |-> "mirror", seen |-> infra,
                                         new |-> [infra EXCEPT !.mirrored = TRUE]]]
            /\ Goto(p, "save")
       ELSE UNCHANGED <<job, pc>>
    /\ UNCHANGED <<infra, signed, executed, now, crashes, clobbered>>

-----------------------------------------------------------------------------
(* Environments: a bundle names secrets, never their values.               *)

GenerateSecret(p, s) ==
    /\ pc[p] = "idle" /\ s \notin host.secrets
    /\ host' = [host EXCEPT !.secrets = @ \cup {s}]
    /\ UNCHANGED <<infra, signed, executed, now, pc, job, crashes, clobbered>>

ExportEnvironment(p) ==
    /\ infra.identity
    /\ Load(p, "export", [infra EXCEPT !.exported = TRUE])

\* Every secret the bundle refers to exists here; then the application is
\* created or found, the configuration applied, and the bundle recorded.
ImportEnvironment(p, references) ==
    /\ pc[p] = "idle"
    /\ references \subseteq host.secrets
    /\ host' = [host EXCEPT !.application = references]
    /\ job' = [job EXCEPT ![p] = [op |-> "import", references |-> references]]
    /\ Goto(p, "record")
    /\ UNCHANGED <<infra, signed, executed, now, crashes, clobbered>>

RecordImport(p) ==
    /\ pc[p] = "record"
    /\ job' = [job EXCEPT ![p] = [op |-> "import", seen |-> infra,
                 new |-> [infra EXCEPT !.imported = job[p].references]]]
    /\ Goto(p, "save")
    /\ UNCHANGED <<infra, signed, executed, host, now, crashes, clobbered>>

-----------------------------------------------------------------------------
Tick ==
    /\ now < MaxTime
    /\ now' = now + 1
    /\ UNCHANGED <<infra, signed, executed, host, pc, job, crashes, clobbered>>

Crash(p) ==
    /\ pc[p] # "idle" /\ crashes < MaxCrashes
    /\ crashes' = crashes + 1
    /\ Goto(p, "idle")
    /\ job' = [job EXCEPT ![p] = [op |-> "none"]]
    /\ UNCHANGED <<infra, signed, executed, host, now, clobbered>>

Next ==
    \/ \E p \in Procs :
         \/ InitializeNode(p)
         \/ \E n \in Peers : RegisterNode(p, n) \/ RevokeNode(p, n) \/ CheckNodeHealth(p, n)
         \/ \E n, m \in Nodes : RegisterEndpoint(p, n, m)
         \/ \E n \in Nodes : RegisterMembership(p, n)
         \/ \E r \in Requests : VerifyRemoteRequest(p, r)
         \/ ExecuteRemoteRequest(p)
         \/ \E members \in SUBSET Nodes : BeginCoordination(p, members)
         \/ PlanCoordination(p)
         \/ \E n \in Nodes, report \in Member : ReportCoordinationMember(p, n, report)
         \/ CreateHostedRepository(p)
         \/ \E enabled \in BOOLEAN : SetPushTrigger(p, enabled)
         \/ \E cloned \in BOOLEAN : SyncMirror(p, cloned)
         \/ \E s \in Secrets : GenerateSecret(p, s)
         \/ ExportEnvironment(p)
         \/ \E references \in SUBSET Secrets : ImportEnvironment(p, references)
         \/ RecordImport(p)
         \/ Save(p)
         \/ Crash(p)
    \/ \E n \in Peers : SignRemoteRequest(n)
    \/ Tick

Spec == Init /\ [][Next]_vars

-----------------------------------------------------------------------------
(* infrastructure.md: requests are rejected on replay, and nonces are single  *)
(* use.  It holds as long as no save has overwritten a newer file: an expired *)
(* nonce may be forgotten because the request itself has expired, and a crash *)
(* after the save loses the execution, never the nonce.                       *)
ExecutedAtMostOnce ==
    ~clobbered => \A r \in Requests : executed[r] <= 1

(* infrastructure.md: stop unstarted members after the first failure.  No     *)
(* sequence of reports lets a member that had not started advance once the    *)
(* coordination has failed.                                                   *)
UnstartedMembersStay ==
    [][LET c == infra.coordination
           d == infra'.coordination
       IN  ~clobbered' /\ c.status = "failed" => \A n \in DOMAIN c.members :
               c.members[n].status = "pending" =>
                   d.members[n].status \in {"pending", "rolled_back"}]_vars

(* A failed coordination is not reported as running again.                    *)
FailureIsNotForgotten ==
    [][~clobbered' /\ infra.coordination.status = "failed" =>
           infra'.coordination.status \in {"failed", "succeeded"}]_vars

(* After a failure nobody else starts, and it is not forgotten: the            *)
(* coordination stays failed until every member has reported success.         *)
CoordinationStops == UnstartedMembersStay /\ FailureIsNotForgotten

(* What the file records exists on the host, wherever a process died: the     *)
(* signing key, the bare repository, the hook, the mirror and the imported    *)
(* application with the secrets it refers to come before the save.            *)
RecordedExists ==
    /\ infra.identity => host.key
    /\ infra.hosted => host.repository
    /\ infra.trigger => host.hook
    /\ infra.mirrored => host.mirror
    /\ infra.imported # NoApplication =>
          host.application # NoApplication /\ infra.imported \subseteq host.secrets

=============================================================================
