----------------------------- MODULE Deployment -----------------------------
(***************************************************************************)
(* The release lifecycle of one application: deploy, redeploy, cancel and  *)
(* rollback, as lumic-platform/src/application.rs runs them.               *)
(*                                                                         *)
(* Several processes (the CLI, the daemon, an MCP server) work on the same *)
(* host.  Each runs at most one operation; `job' is the Deployment record  *)
(* and the locals it holds in memory, `pc' the statement it has reached.   *)
(* A step ends where the code awaits a child process, a probe, nginx or    *)
(* systemd, or where it has just written something another process reads.  *)
(*                                                                         *)
(* Deployment identifiers are 1, 2, ... in the order in which the records  *)
(* were pushed on the store; the release directory and the systemd unit of *)
(* a deployment carry its identifier.  0 stands for None throughout.       *)
(***************************************************************************)
EXTENDS Integers, FiniteSets, FiniteSetsExt

CONSTANTS
    Procs,          \* processes that operate on the application
    NoProc,         \* owner of a free deployment lock
    MaxDeployments, \* bound: number of deployment records ever written
    Retention,      \* application.release_retention
    MaxCrashes,     \* bound: number of processes killed in mid-operation
    Handoff,        \* a Node application with a blue/green handoff
    PostCommands,   \* number of post-deploy commands configured
    Cancels,        \* operators cancel deployments
    NginxFaults,    \* an nginx reconfiguration may fail (or find its lock taken)
    UnitFaults      \* a systemctl call may fail after, or without, its effect

ASSUME ProcsAssumption == NoProc \notin Procs
ASSUME BoundsAssumption ==
    /\ MaxDeployments \in Nat
    /\ Retention \in Nat
    /\ MaxCrashes \in Nat
    /\ PostCommands \in Nat
ASSUME SwitchesAssumption ==
    {Handoff, Cancels, NginxFaults, UnitFaults} \subseteq BOOLEAN

VARIABLES
    db,          \* deployments in applications.json, by identifier
    health,      \* the application's health_status
    markers,     \* deployments with a cancellation marker file
    lock,        \* holder of the application's deployment lock
    dirs,        \* releases whose directory exists
    current,     \* target of the `current' symlink
    units,       \* port each running release unit was given, 0 if stopped
    bound,       \* unit whose process listens on each loopback port
    upstream,    \* port the owned nginx site forwards to
    pc,          \* the statement each process has reached
    job,         \* its in-memory record and locals
    crashes,     \* number of crashes so far
    validated,   \* history: deployments that reached Completed
    cancelPoint, \* history: how far a deployment was when its marker appeared
    clashed      \* history: a rollback was to a release on the port of the live one

record == <<db, health, markers>>
host   == <<dirs, current, units, bound, upstream>>
ghost  == <<crashes, validated, cancelPoint, clashed>>
vars   == <<record, lock, host, pc, job, ghost>>

Ids   == 1 .. MaxDeployments
IdsOrNone == 0 .. MaxDeployments
Ports == {1, 2}
PrimaryPort == 1
SecondaryPort == 2

Statuses == {"absent", "started", "cancelling", "cancelled", "completed",
             "failed", "rolled_back", "failed_rolled_back"}

Deployments == [status: Statuses, release: IdsOrNone, port: Ports \cup {0},
                commit: BOOLEAN]

Absent == [status |-> "absent", release |-> 0, port |-> 0, commit |-> FALSE]

Jobs == [id: IdsOrNone, release: IdsOrNone, prev: IdsOrNone,
         prevPort: Ports \cup {0}, port: Ports \cup {0}, commit: BOOLEAN,
         commands: 0 .. PostCommands, restored: BOOLEAN, cancelled: BOOLEAN]

NoJob == [id |-> 0, release |-> 0, prev |-> 0, prevPort |-> 0, port |-> 0,
          commit |-> FALSE, commands |-> 0, restored |-> FALSE, cancelled |-> FALSE]

Healths == {"not_deployed", "healthy", "healthy_after_rollback", "unhealthy",
            "deployment_failed", "deployment_cancelled"}

\* The phases of prepare_release that run before the release is started, and
\* the statement that follows each.
PreparePhases == {"source", "checkout", "pre_deploy", "build", "migrate"}
NextPhase(phase) ==
    CASE phase = "source"     -> "checkout"
      [] phase = "checkout"   -> "pre_deploy"
      [] phase = "pre_deploy" -> "build"
      [] phase = "build"      -> "migrate"
      [] OTHER                -> "start"
TrialPhases   == {"start", "ready", "activate", "switch", "health"}
SettlePhases  == {"post_deploy", "post_command", "complete", "mark_healthy",
                  "drain", "prune"}
AbortPhases   == {"abort_restore", "abort_upstream", "abort_stop",
                  "abort_remove", "abort_record", "abort_health"}
RejectPhases  == {"reject_restore", "reject_upstream", "reject_stop",
                  "reject_record", "reject_health", "reject_cleanup"}
RollbackPhases == {"rb_start", "rb_ready", "rb_activate", "rb_switch",
                   "rb_health", "rb_undo_switch", "rb_undo_health",
                   "rb_reroute", "rb_abandon", "rb_drain", "rb_record",
                   "rb_healthy"}
DeployPhases == PreparePhases \cup TrialPhases \cup SettlePhases
                \cup AbortPhases \cup RejectPhases
Critical == DeployPhases \cup RollbackPhases
CancelPhases == {"cancel_mark", "cancel_save"}
Labels == {"idle"} \cup Critical \cup CancelPhases

-----------------------------------------------------------------------------
(* Small steps the operations share. *)

Goto(p, label) == pc' = [pc EXCEPT ![p] = label]

\* The operation returns; dropping the guard releases the deployment lock.
Return(p) ==
    /\ Goto(p, "idle")
    /\ job' = [job EXCEPT ![p] = NoJob]
    /\ lock' = IF lock = p THEN NoProc ELSE lock

\* upsert_deployment: the whole in-memory record replaces the stored one.
Upsert(j, status) ==
    db' = [db EXCEPT ![j.id] = [status |-> status, release |-> j.release,
                                port |-> j.port, commit |-> j.commit]]

Recorded == {d \in Ids : db[d].status # "absent"}
NextId == Cardinality(Recorded) + 1
Completed == {d \in Ids : db[d].status = "completed"}

\* systemctl start: a unit whose port is taken is restarted until it is free.
StartUnit(u, port) ==
    /\ units' = [units EXCEPT ![u] = port]
    /\ bound' = [bound EXCEPT ![port] = IF @ = 0 THEN u ELSE @]

\* systemctl stop: a unit waiting for the port may take it over.
StopUnit(u) ==
    /\ units' = [units EXCEPT ![u] = 0]
    /\ \E w \in {0} \cup {v \in Ids \ {u} : units[v] # 0 /\ units[v] = units[u]} :
          bound' = [q \in Ports |-> IF bound[q] = u THEN w ELSE bound[q]]

StopFails == UnitFaults /\ UNCHANGED <<units, bound>>

\* The Completed record, newest first, whose Node unit serves a release.
NodeRecords(release) ==
    {d \in Completed : db[d].release = release /\ db[d].port # 0}
NodePort(release) ==
    IF NodeRecords(release) = {} THEN 0 ELSE db[Max(NodeRecords(release))].port

Init ==
    /\ db = [d \in Ids |-> Absent]
    /\ health = "not_deployed"
    /\ markers = {}
    /\ lock = NoProc
    /\ dirs = {}
    /\ current = 0
    /\ units = [d \in Ids |-> 0]
    /\ bound = [q \in Ports |-> 0]
    /\ upstream = 0
    /\ pc = [p \in Procs |-> "idle"]
    /\ job = [p \in Procs |-> NoJob]
    /\ crashes = 0
    /\ validated = {}
    /\ cancelPoint = [d \in Ids |-> "none"]
    /\ clashed = FALSE

-----------------------------------------------------------------------------
(* deploy_revision: the lock, the record, and the release being prepared.  *)

\* Mutant of Begin: the deployment lock is not looked at.
BeginUnlocked(p) ==
    /\ pc[p] = "idle"
    /\ NextId \in Ids
    /\ LET j == [NoJob EXCEPT !.id = NextId, !.release = NextId,
                              !.prev = current, !.prevPort = NodePort(current),
                              !.commands = PostCommands]
       IN  /\ job' = [job EXCEPT ![p] = j]
           /\ Upsert(j, "started")
    /\ lock' = p
    /\ Goto(p, "source")
    /\ UNCHANGED <<health, markers, host, ghost>>

\* previous_release and previous_node are read under the lock; the other
\* writers of what they read hold it too.
Begin(p) ==
    /\ pc[p] = "idle"
    /\ lock = NoProc
    /\ NextId \in Ids
    /\ LET j == [NoJob EXCEPT !.id = NextId, !.release = NextId,
                              !.prev = current, !.prevPort = NodePort(current),
                              !.commands = PostCommands]
       IN  /\ job' = [job EXCEPT ![p] = j]
           /\ Upsert(j, "started")
    /\ lock' = p
    /\ Goto(p, "source")
    /\ UNCHANGED <<health, markers, host, ghost>>

Deploy(p) == Begin(p)

\* redeploy pins the commit of an earlier record.
Redeploy(p, d) ==
    /\ db[d].commit
    /\ db[d].status # "started"
    /\ Begin(p)

\* Mutant of PhaseSucceeds: no look at the marker after the migration.
MigrationUnchecked(p) ==
    LET phase == pc[p]
        j == [job[p] EXCEPT !.commit = @ \/ phase = "checkout"]
    IN  /\ phase \in PreparePhases
        /\ job' = [job EXCEPT ![p] = j]
        /\ dirs' = IF phase = "checkout" THEN dirs \cup {j.id} ELSE dirs
        /\ IF phase \notin {"checkout", "migrate"} /\ j.id \in markers
           THEN Upsert(j, "cancelled") /\ Goto(p, "abort_remove")
           ELSE Upsert(j, "started") /\ Goto(p, NextPhase(phase))
        /\ UNCHANGED <<health, markers, lock, current, units, bound, upstream, ghost>>

\* One phase of prepare_release up to its cancellation check.  Checkout
\* creates the release directory and is followed by no check of its own.
PhaseSucceeds(p) ==
    LET phase == pc[p]
        j == [job[p] EXCEPT !.commit = @ \/ phase = "checkout"]
    IN  /\ phase \in PreparePhases
        /\ job' = [job EXCEPT ![p] = j]
        /\ dirs' = IF phase = "checkout" THEN dirs \cup {j.id} ELSE dirs
        /\ IF phase # "checkout" /\ j.id \in markers
           THEN Upsert(j, "cancelled") /\ Goto(p, "abort_remove")
           ELSE Upsert(j, "started") /\ Goto(p, NextPhase(phase))
        /\ UNCHANGED <<health, markers, lock, current, units, bound, upstream, ghost>>

\* git, a manifest check or a command fails.  A failed command is recorded
\* (and so the record is Started again), a failed fetch or checkout is not.
PhaseFails(p) ==
    LET phase == pc[p]
    IN  /\ phase \in PreparePhases
        /\ \E resolved \in {job[p].commit, phase = "checkout"} :
              job' = [job EXCEPT ![p].commit = @ \/ resolved]
        /\ dirs' \in {dirs} \cup
                     (IF phase = "checkout" THEN {dirs \cup {job[p].id}} ELSE {})
        /\ IF phase \in {"source", "checkout"}
           THEN UNCHANGED db
           ELSE Upsert(job[p], "started")
        /\ Goto(p, "abort_remove")
        /\ UNCHANGED <<health, markers, lock, current, units, bound, upstream, ghost>>

\* Mutant of InactivePort: every release gets the primary port.
SamePort(prevPort) == PrimaryPort

\* The inactive port of the blue/green pair.
InactivePort(prevPort) ==
    IF prevPort = PrimaryPort THEN SecondaryPort ELSE PrimaryPort

\* The entry point is there, and a Node release is started on its port.
StartSucceeds(p) ==
    /\ pc[p] = "start"
    /\ IF Handoff
       THEN LET j == [job[p] EXCEPT !.port = InactivePort(job[p].prevPort)]
            IN  /\ StartUnit(j.id, j.port)
                /\ job' = [job EXCEPT ![p] = j]
                /\ Upsert(j, "started")
                /\ Goto(p, "ready")
       ELSE Goto(p, "activate") /\ UNCHANGED <<units, bound, job, db>>
    /\ UNCHANGED <<health, markers, lock, dirs, current, upstream, ghost>>

\* After a unit fault the process may run although the call returned an error;
\* process_unit is None and nobody will stop it.
StartFails(p) ==
    /\ pc[p] = "start"
    /\ Goto(p, "abort_remove")
    /\ \/ UNCHANGED <<units, bound>>
       \/ Handoff /\ UnitFaults /\ StartUnit(job[p].id, InactivePort(job[p].prevPort))
    /\ UNCHANGED <<record, lock, dirs, current, upstream, job, ghost>>

\* verify_health_on_port: somebody must answer on the port.
ReadySucceeds(p) ==
    /\ pc[p] = "ready"
    /\ bound[job[p].port] # 0
    /\ Goto(p, "activate")
    /\ UNCHANGED <<record, lock, host, job, ghost>>

ReadyFails(p) ==
    /\ pc[p] = "ready"
    /\ Goto(p, "abort_upstream")
    /\ UNCHANGED <<record, lock, host, job, ghost>>

Activate(p) ==
    /\ pc[p] = "activate"
    /\ current' = job[p].release
    /\ IF job[p].port # 0
       THEN Goto(p, "switch") /\ UNCHANGED db
       ELSE Goto(p, "health") /\ Upsert(job[p], "started")
    /\ UNCHANGED <<health, markers, lock, dirs, units, bound, upstream, job, ghost>>

SwitchSucceeds(p) ==
    /\ pc[p] = "switch"
    /\ upstream' = job[p].port
    /\ Upsert(job[p], "started")
    /\ Goto(p, "health")
    /\ UNCHANGED <<health, markers, lock, dirs, current, units, bound, job, ghost>>

SwitchFails(p) ==
    /\ pc[p] = "switch"
    /\ NginxFaults
    /\ Goto(p, "abort_restore")
    /\ UNCHANGED <<record, lock, host, job, ghost>>

-----------------------------------------------------------------------------
(* deploy_revision: the release is live and being validated.               *)

\* The public health gate passes; then the last look at the marker.
HealthPasses(p) ==
    /\ pc[p] = "health"
    /\ IF job[p].id \in markers
       THEN /\ Upsert(job[p], "cancelled")
            /\ job' = [job EXCEPT ![p].cancelled = TRUE]
            /\ Goto(p, "reject_restore")
       ELSE /\ Upsert(job[p], "started")
            /\ Goto(p, "post_deploy")
            /\ UNCHANGED job
    /\ UNCHANGED <<health, markers, lock, host, ghost>>

HealthFails(p) ==
    /\ pc[p] = "health"
    /\ Goto(p, "reject_restore")
    /\ UNCHANGED <<record, lock, host, job, ghost>>

\* Before each post-deploy command the marker is looked at; if it is there the
\* phase fails.
PostDeployBegins(p) ==
    /\ pc[p] = "post_deploy"
    /\ IF job[p].commands > 0 /\ job[p].id \in markers
       THEN Upsert(job[p], "cancelled") /\ Goto(p, "reject_restore")
       ELSE Upsert(job[p], "started") /\ Goto(p, "post_command")
    /\ UNCHANGED <<health, markers, lock, host, job, ghost>>

\* Mutant of PostDeploySucceeds: one command too many is counted off.
PostDeployOneMore(p) ==
    /\ pc[p] = "post_command"
    /\ IF job[p].commands >= 0
       THEN /\ job' = [job EXCEPT ![p].commands = @ - 1]
            /\ Goto(p, "post_deploy")
       ELSE Goto(p, "complete") /\ UNCHANGED job
    /\ Upsert(job[p], "started")
    /\ UNCHANGED <<health, markers, lock, host, ghost>>

\* Another command follows, or the last one (and the worker processes) is done:
\* then nothing looks at the marker any more.
PostDeploySucceeds(p) ==
    /\ pc[p] = "post_command"
    /\ IF job[p].commands > 1
       THEN /\ job' = [job EXCEPT ![p].commands = @ - 1]
            /\ Goto(p, "post_deploy")
       ELSE Goto(p, "complete") /\ UNCHANGED job
    /\ Upsert(job[p], "started")
    /\ UNCHANGED <<health, markers, lock, host, ghost>>

\* A command, or the configuration of a worker process, fails.
PostDeployFails(p) ==
    /\ pc[p] = "post_command"
    /\ Upsert(job[p], "started")
    /\ Goto(p, "reject_restore")
    /\ UNCHANGED <<health, markers, lock, host, job, ghost>>

Complete(p) ==
    /\ pc[p] = "complete"
    /\ Upsert(job[p], "completed")
    /\ validated' = validated \cup {job[p].id}
    /\ Goto(p, "mark_healthy")
    /\ UNCHANGED <<health, markers, lock, host, job, crashes, cancelPoint, clashed>>

MarkHealthy(p) ==
    /\ pc[p] = "mark_healthy"
    /\ health' = "healthy"
    /\ Goto(p, "drain")
    /\ UNCHANGED <<db, markers, lock, host, job, ghost>>

\* After the drain interval the old unit is stopped; a failure is only noted.
Drain(p) ==
    /\ pc[p] = "drain"
    /\ IF Handoff /\ job[p].prevPort # 0
       THEN StopUnit(job[p].prev) \/ StopFails
       ELSE UNCHANGED <<units, bound>>
    /\ Upsert(job[p], "completed")
    /\ Goto(p, "prune")
    /\ UNCHANGED <<health, markers, lock, dirs, current, upstream, job, ghost>>

\* Mutants of Retained: off by one to either side.
RetainedOneLess ==
    {d \in Completed : Cardinality({e \in Completed : e > d}) + 1 < Retention}

\* Completed releases beyond the newest `Retention' lose their directory.
Retained == {d \in Completed : Cardinality({e \in Completed : e > d}) < Retention}

Prune(p) ==
    /\ pc[p] = "prune"
    /\ dirs' = dirs \ ({db[d].release : d \in Completed \ Retained} \ {current})
    /\ Return(p)
    /\ UNCHANGED <<record, current, units, bound, upstream, ghost>>

-----------------------------------------------------------------------------
(* deploy_revision: prepare_release returned an error.                     *)

\* Mutant of AbortRestore: an activated release is not taken back.
AbortWithoutRestore(p) ==
    /\ pc[p] = "abort_restore"
    /\ Goto(p, "abort_upstream")
    /\ UNCHANGED <<record, lock, host, job, ghost>>

AbortRestore(p) ==
    /\ pc[p] = "abort_restore"
    /\ IF job[p].prev \in dirs
       THEN /\ current' = job[p].prev
            /\ job' = [job EXCEPT ![p].restored = TRUE]
       ELSE UNCHANGED <<current, job>>
    /\ Goto(p, "abort_upstream")
    /\ UNCHANGED <<record, lock, dirs, units, bound, upstream, ghost>>

AbortUpstream(p) ==
    /\ pc[p] = "abort_upstream"
    /\ \/ job[p].prevPort # 0 /\ upstream' = job[p].prevPort
       \/ (job[p].prevPort = 0 \/ NginxFaults) /\ UNCHANGED upstream
    /\ Goto(p, "abort_stop")
    /\ UNCHANGED <<record, lock, dirs, current, units, bound, job, ghost>>

AbortStop(p) ==
    /\ pc[p] = "abort_stop"
    /\ StopUnit(job[p].release) \/ StopFails
    /\ Goto(p, "abort_remove")
    /\ UNCHANGED <<record, lock, dirs, current, upstream, job, ghost>>

AbortRemove(p) ==
    /\ pc[p] = "abort_remove"
    /\ dirs' = dirs \ {job[p].release}
    /\ Goto(p, "abort_record")
    /\ UNCHANGED <<record, lock, current, units, bound, upstream, job, ghost>>

\* Mutant of AbortRecord: the outcome is not stored.
AbortUnrecorded(p) ==
    /\ pc[p] = "abort_record"
    /\ job' = [job EXCEPT ![p].cancelled = job[p].id \in markers]
    /\ Goto(p, "abort_health")
    /\ UNCHANGED <<record, lock, host, ghost>>

AbortRecord(p) ==
    /\ pc[p] = "abort_record"
    /\ LET cancelled == job[p].id \in markers
       IN  /\ Upsert(job[p], CASE cancelled -> "cancelled"
                               [] ~cancelled /\ job[p].restored -> "failed_rolled_back"
                               [] OTHER -> "failed")
           /\ job' = [job EXCEPT ![p].cancelled = cancelled]
    /\ Goto(p, "abort_health")
    /\ UNCHANGED <<health, markers, lock, host, ghost>>

AbortHealth(p) ==
    /\ pc[p] = "abort_health"
    /\ health' = IF job[p].cancelled THEN "deployment_cancelled" ELSE "deployment_failed"
    /\ Return(p)
    /\ UNCHANGED <<db, markers, host, ghost>>

-----------------------------------------------------------------------------
(* deploy_revision: the live release failed its validation.                *)

\* Mutants of RejectRestore: `current' stays on the rejected release although
\* the restoration is noted; or the step that moves nginx back is left out.
RejectKeepsCurrent(p) ==
    /\ pc[p] = "reject_restore"
    /\ job' = [job EXCEPT ![p].restored = job[p].prev \in dirs]
    /\ Goto(p, IF job[p].port # 0 THEN "reject_upstream" ELSE "reject_record")
    /\ UNCHANGED <<record, lock, host, ghost>>
RejectStopsFirst(p) ==
    /\ pc[p] = "reject_restore"
    /\ IF job[p].prev \in dirs
       THEN /\ current' = job[p].prev
            /\ job' = [job EXCEPT ![p].restored = TRUE]
       ELSE UNCHANGED <<current, job>>
    /\ Goto(p, IF job[p].port # 0 THEN "reject_stop" ELSE "reject_record")
    /\ UNCHANGED <<record, lock, dirs, units, bound, upstream, ghost>>

RejectRestore(p) ==
    /\ pc[p] = "reject_restore"
    /\ IF job[p].prev \in dirs
       THEN /\ current' = job[p].prev
            /\ job' = [job EXCEPT ![p].restored = TRUE]
       ELSE UNCHANGED <<current, job>>
    /\ Goto(p, IF job[p].port # 0 THEN "reject_upstream" ELSE "reject_record")
    /\ UNCHANGED <<record, lock, dirs, units, bound, upstream, ghost>>

\* Mutant of RejectUpstream: nginx keeps forwarding to the rejected release's port.
RejectKeepsUpstream(p) ==
    /\ pc[p] = "reject_upstream"
    /\ Goto(p, "reject_stop")
    /\ UNCHANGED <<record, lock, host, job, ghost>>

RejectUpstream(p) ==
    /\ pc[p] = "reject_upstream"
    /\ IF job[p].prevPort # 0 THEN upstream' = job[p].prevPort ELSE UNCHANGED upstream
    /\ Goto(p, "reject_stop")
    /\ UNCHANGED <<record, lock, dirs, current, units, bound, job, ghost>>

RejectStop(p) ==
    /\ pc[p] = "reject_stop"
    /\ StopUnit(job[p].release)
    /\ Goto(p, "reject_record")
    /\ UNCHANGED <<record, lock, dirs, current, upstream, job, ghost>>

\* Either call failing returns from deploy_revision on the spot.
RejectUpstreamFails(p) ==
    /\ pc[p] = "reject_upstream"
    /\ NginxFaults
    /\ job[p].prevPort # 0
    /\ Return(p)
    /\ UNCHANGED <<record, host, ghost>>

RejectStopFails(p) ==
    /\ pc[p] = "reject_stop"
    /\ StopFails
    /\ Return(p)
    /\ UNCHANGED <<record, dirs, current, upstream, ghost>>

RejectRecord(p) ==
    /\ pc[p] = "reject_record"
    /\ Upsert(job[p], CASE job[p].cancelled -> "cancelled"
                        [] ~job[p].cancelled /\ job[p].restored -> "failed_rolled_back"
                        [] OTHER -> "failed")
    /\ Goto(p, "reject_health")
    /\ UNCHANGED <<health, markers, lock, host, job, ghost>>

\* Mutant of RejectHealth: every rejection is reported as a rollback.
RejectAlwaysHealthy(p) ==
    /\ pc[p] = "reject_health"
    /\ health' = "healthy_after_rollback"
    /\ Goto(p, "reject_cleanup")
    /\ UNCHANGED <<db, markers, lock, host, job, ghost>>

RejectHealth(p) ==
    /\ pc[p] = "reject_health"
    /\ health' = IF job[p].restored THEN "healthy_after_rollback" ELSE "unhealthy"
    /\ Goto(p, "reject_cleanup")
    /\ UNCHANGED <<db, markers, lock, host, job, ghost>>

\* Mutant of RejectCleanup: `current' is never removed.
RejectLeavesCurrent(p) ==
    /\ pc[p] = "reject_cleanup"
    /\ dirs' = dirs \ {job[p].release}
    /\ Return(p)
    /\ UNCHANGED <<record, current, units, bound, upstream, ghost>>

RejectCleanup(p) ==
    /\ pc[p] = "reject_cleanup"
    /\ current' = IF job[p].restored THEN current ELSE 0
    /\ dirs' = dirs \ {job[p].release}
    /\ Return(p)
    /\ UNCHANGED <<record, units, bound, upstream, ghost>>

-----------------------------------------------------------------------------
(* rollback: back to the newest other Completed release still on disk, on   *)
(* the port that release was deployed on, whichever port is live.           *)

RollbackTargets ==
    {d \in Completed : db[d].release # current /\ db[d].release \in dirs}

RbBegin(p) ==
    /\ pc[p] = "idle"
    /\ lock = NoProc
    /\ NextId \in Ids
    /\ RollbackTargets # {}
    /\ LET t == db[Max(RollbackTargets)]
       IN  /\ job' = [job EXCEPT ![p] =
                 [NoJob EXCEPT !.id = NextId, !.release = t.release,
                               !.port = t.port, !.commit = t.commit,
                               !.prev = current, !.prevPort = NodePort(current)]]
           /\ Goto(p, IF t.port # 0 THEN "rb_start" ELSE "rb_activate")
           /\ clashed' = (clashed \/ (t.port # 0 /\ t.port = NodePort(current)))
    /\ lock' = p
    /\ UNCHANGED <<record, host, crashes, validated, cancelPoint>>

RbStart(p) ==
    /\ pc[p] = "rb_start"
    /\ StartUnit(job[p].release, job[p].port)
    /\ Goto(p, "rb_ready")
    /\ UNCHANGED <<record, lock, dirs, current, upstream, job, ghost>>

RbStartFails(p) ==
    /\ pc[p] = "rb_start"
    /\ \/ UNCHANGED <<units, bound>>
       \/ UnitFaults /\ StartUnit(job[p].release, job[p].port)
    /\ Return(p)
    /\ UNCHANGED <<record, dirs, current, upstream, ghost>>

RbReady(p) ==
    /\ pc[p] = "rb_ready"
    /\ \/ bound[job[p].port] # 0 /\ Goto(p, "rb_activate")
       \/ Goto(p, "rb_abandon")
    /\ UNCHANGED <<record, lock, host, job, ghost>>

RbActivate(p) ==
    /\ pc[p] = "rb_activate"
    /\ current' = job[p].release
    /\ Goto(p, IF job[p].port # 0 THEN "rb_switch" ELSE "rb_record")
    /\ UNCHANGED <<record, lock, dirs, units, bound, upstream, job, ghost>>

\* A failed switch puts `current' back and leaves nginx as it was.
RbSwitch(p) ==
    /\ pc[p] = "rb_switch"
    /\ \/ /\ upstream' = job[p].port
          /\ Goto(p, "rb_health")
       \/ /\ NginxFaults
          /\ Goto(p, "rb_undo_switch")
          /\ UNCHANGED upstream
    /\ UNCHANGED <<record, lock, dirs, current, units, bound, job, ghost>>

RbHealth(p) ==
    /\ pc[p] = "rb_health"
    /\ Goto(p, "rb_drain") \/ Goto(p, "rb_undo_health")
    /\ UNCHANGED <<record, lock, host, job, ghost>>

\* rollback-recovery does not look whether the previous release still exists.
RbReactivate(p) ==
    /\ pc[p] \in {"rb_undo_switch", "rb_undo_health"}
    /\ current' = IF job[p].prev # 0 THEN job[p].prev ELSE current
    /\ Goto(p, IF pc[p] = "rb_undo_health" THEN "rb_reroute" ELSE "rb_abandon")
    /\ UNCHANGED <<record, lock, dirs, units, bound, upstream, job, ghost>>

RbReroute(p) ==
    /\ pc[p] = "rb_reroute"
    /\ \/ job[p].prevPort # 0 /\ upstream' = job[p].prevPort
       \/ (job[p].prevPort = 0 \/ NginxFaults) /\ UNCHANGED upstream
    /\ Goto(p, "rb_abandon")
    /\ UNCHANGED <<record, lock, dirs, current, units, bound, job, ghost>>

RbAbandon(p) ==
    /\ pc[p] = "rb_abandon"
    /\ StopUnit(job[p].release) \/ StopFails
    /\ Return(p)
    /\ UNCHANGED <<record, dirs, current, upstream, ghost>>

RbDrain(p) ==
    /\ pc[p] = "rb_drain"
    /\ IF job[p].prevPort # 0 /\ job[p].prev # job[p].release
       THEN StopUnit(job[p].prev)
       ELSE UNCHANGED <<units, bound>>
    /\ Goto(p, "rb_record")
    /\ UNCHANGED <<record, lock, dirs, current, upstream, job, ghost>>

\* The rollback took effect, yet the call returns before recording it.
RbDrainFails(p) ==
    /\ pc[p] = "rb_drain"
    /\ job[p].prevPort # 0
    /\ StopFails
    /\ Return(p)
    /\ UNCHANGED <<record, dirs, current, upstream, ghost>>

RbRecord(p) ==
    /\ pc[p] = "rb_record"
    /\ Upsert(job[p], "rolled_back")
    /\ Goto(p, "rb_healthy")
    /\ UNCHANGED <<health, markers, lock, host, job, ghost>>

RbHealthy(p) ==
    /\ pc[p] = "rb_healthy"
    /\ health' = "healthy"
    /\ Return(p)
    /\ UNCHANGED <<db, markers, host, ghost>>

-----------------------------------------------------------------------------
(* cancel_deployment takes no deployment lock: it reads the record, leaves *)
(* the marker, and stores the record it read with status Cancelling.       *)

CancelLoad(p, d) ==
    /\ Cancels
    /\ pc[p] = "idle"
    /\ db[d].status = "started"
    /\ job' = [job EXCEPT ![p] = [NoJob EXCEPT !.id = d,
                 !.release = db[d].release, !.port = db[d].port,
                 !.commit = db[d].commit]]
    /\ Goto(p, "cancel_mark")
    /\ UNCHANGED <<record, lock, host, ghost>>

\* How far the deployment d is, as long as its process is alive.
Progress(d) ==
    LET at(labels) == \E q \in Procs : job[q].id = d /\ pc[q] \in labels
    IN  CASE at(PreparePhases) -> "preparing"
          [] at(TrialPhases)   -> "on_trial"
          [] at({"post_deploy", "post_command"}) -> "post_deploy"
          [] OTHER -> "late"

CancelMark(p) ==
    /\ pc[p] = "cancel_mark"
    /\ LET d == job[p].id
       IN  /\ markers' = markers \cup {d}
           /\ cancelPoint' = IF d \in markers THEN cancelPoint
                             ELSE [cancelPoint EXCEPT ![d] = Progress(d)]
    /\ Goto(p, "cancel_save")
    /\ UNCHANGED <<db, health, lock, host, job, crashes, validated, clashed>>

CancelSave(p) ==
    /\ pc[p] = "cancel_save"
    /\ Upsert(job[p], "cancelling")
    /\ Return(p)
    /\ UNCHANGED <<health, markers, host, ghost>>

-----------------------------------------------------------------------------
\* The process dies, or an I/O error makes it return early: the kernel or
\* Drop releases the lock and nothing resumes or settles the operation.
Crash(p) ==
    /\ crashes < MaxCrashes
    /\ pc[p] # "idle"
    /\ crashes' = crashes + 1
    /\ Return(p)
    /\ UNCHANGED <<record, host, validated, cancelPoint, clashed>>

PrepareStep(p) ==
    \/ PhaseSucceeds(p) \/ PhaseFails(p)
    \/ StartSucceeds(p) \/ StartFails(p)
    \/ ReadySucceeds(p) \/ ReadyFails(p)
    \/ Activate(p)
    \/ SwitchSucceeds(p) \/ SwitchFails(p)

ValidateStep(p) ==
    \/ HealthPasses(p) \/ HealthFails(p)
    \/ PostDeployBegins(p) \/ PostDeploySucceeds(p) \/ PostDeployFails(p)
    \/ Complete(p) \/ MarkHealthy(p) \/ Drain(p) \/ Prune(p)

AbortStep(p) ==
    \/ AbortRestore(p) \/ AbortUpstream(p) \/ AbortStop(p)
    \/ AbortRemove(p) \/ AbortRecord(p) \/ AbortHealth(p)

RejectStep(p) ==
    \/ RejectRestore(p) \/ RejectUpstream(p) \/ RejectUpstreamFails(p)
    \/ RejectStop(p) \/ RejectStopFails(p)
    \/ RejectRecord(p) \/ RejectHealth(p) \/ RejectCleanup(p)

RollbackStep(p) ==
    \/ RbStart(p) \/ RbStartFails(p) \/ RbReady(p) \/ RbActivate(p)
    \/ RbSwitch(p) \/ RbHealth(p) \/ RbReactivate(p) \/ RbReroute(p)
    \/ RbAbandon(p) \/ RbDrain(p) \/ RbDrainFails(p)
    \/ RbRecord(p) \/ RbHealthy(p)

CancelStep(p) == CancelMark(p) \/ CancelSave(p)

\* The steps a process takes of its own accord once an operation has begun.
Step(p) ==
    \/ PrepareStep(p) \/ ValidateStep(p) \/ AbortStep(p)
    \/ RejectStep(p) \/ RollbackStep(p) \/ CancelStep(p)

\* The operations users start.
Request(p) ==
    \/ Deploy(p)
    \/ RbBegin(p)
    \/ \E d \in Ids : Redeploy(p, d) \/ CancelLoad(p, d)

Next == \E p \in Procs : Request(p) \/ Step(p) \/ Crash(p)

Spec == Init /\ [][Next]_vars

\* Every await ends: child processes and probes have timeouts, the deployment
\* lock is never waited for.  Nobody is obliged to request anything.
FairSpec == Spec /\ \A p \in Procs : WF_vars(Step(p))

-----------------------------------------------------------------------------
(* Properties.                                                             *)

\* Every variable has its type: a record always has a known status, and
\* `current', the directories and the units name deployments that exist.
TypeOK ==
    /\ db \in [Ids -> Deployments]
    /\ health \in Healths
    /\ markers \subseteq Ids
    /\ lock \in Procs \cup {NoProc}
    /\ dirs \subseteq Ids
    /\ current \in IdsOrNone
    /\ units \in [Ids -> Ports \cup {0}]
    /\ bound \in [Ports -> IdsOrNone]
    /\ upstream \in Ports \cup {0}
    /\ pc \in [Procs -> Labels]
    /\ job \in [Procs -> Jobs]
    /\ crashes \in 0 .. MaxCrashes
    /\ validated \subseteq Ids
    /\ cancelPoint \in [Ids -> {"none", "preparing", "on_trial", "post_deploy", "late"}]
    /\ clashed \in BOOLEAN

\* Only one deployment or rollback at a time is between taking the deployment
\* lock and returning, whatever fails or crashes (the `_deployment_lock' guard).
MutualExclusion ==
    \A p, q \in Procs : pc[p] \in Critical /\ pc[q] \in Critical => p = q

\* Once some release has been validated, `current' always names a directory
\* that exists: no prune, failed deployment, failed rollback or crash removes
\* the live release or restores one that is gone.
CurrentNeverDangles == validated # {} => current \in dirs

\* Between operations `current' names nothing or a release whose deployment
\* reached Completed, never one that was rejected or given up (when no
\* operation crashed).
KnownGoodServed ==
    lock = NoProc /\ crashes = 0 => current \in validated \cup {0}

\* Between operations the port nginx forwards to is held by the process of the
\* release that `current' names: the symlink, nginx and systemd agree.
TrafficReachesCurrent ==
    lock = NoProc /\ crashes = 0 /\ current # 0 /\ Handoff =>
        upstream # 0 /\ bound[upstream] = current

\* Zero downtime: from the first validated release on, some process listens on
\* the port nginx forwards to, at every step of every deployment and rollback.
NoDowntime == Handoff /\ validated # {} => upstream # 0 /\ bound[upstream] # 0

\* Users are served at every step, and by `current' between operations, until a
\* rollback is to a release on the port of the live one.
TrafficIsServed == ~clashed => TrafficReachesCurrent /\ NoDowntime

\* The process that answered the readiness probe of a release about to be
\* activated is the process of that very release, until a rollback is to a
\* release on the port of the live one.
ReadinessIsTheCandidates ==
    ~clashed => \A p \in Procs : pc[p] \in {"activate", "rb_activate"} /\ job[p].port # 0
                        => bound[job[p].port] = job[p].release

\* A cancellation whose marker appears before activation keeps the release off
\* `current'; one that appears before the health gate keeps it from Completed.
CancelHonoured ==
    \A d \in Ids :
        /\ cancelPoint[d] = "preparing" => current # d
        /\ cancelPoint[d] \in {"preparing", "on_trial"} => d \notin validated

\* The application is never reported healthy, between operations, while
\* `current' names a release that was not validated.
HealthNotOverstated ==
    lock = NoProc /\ crashes = 0 /\ health \in {"healthy", "healthy_after_rollback"}
        => current \in validated

\* With two releases retained, a rollback has a target whenever two deployments
\* have completed: pruning never takes the release one would go back to.
RollbackAvailable ==
    lock = NoProc /\ Retention >= 2 /\ Cardinality(validated) >= 2
        => RollbackTargets # {}

\* Between operations no more release directories are kept than the retention
\* says: failed, cancelled and superseded releases are all cleaned up.
ReleasesBounded ==
    lock = NoProc /\ crashes = 0 /\ Retention >= 1 => Cardinality(dirs) <= Retention

\* Retention takes neither too little nor too much: the directories are bounded
\* by it, and a rollback still finds its target.
RetentionKept == RollbackAvailable /\ ReleasesBounded

\* Completed is final: no step turns the record of a completed deployment into
\* anything else (only an active deployment can be cancelled).
CompletedIsFinal ==
    [][\A d \in Ids : db[d].status = "completed" => db'[d].status = "completed"]_vars

\* Every deployment that starts is settled: its record ends up completed,
\* failed, rolled back or cancelled.
EveryDeploymentSettles ==
    \A d \in Ids : db[d].status = "started"
        ~> db[d].status \notin {"absent", "started", "cancelling"}

-----------------------------------------------------------------------------
(* The abstract specification this module implements: an operation is under *)
(* way while the deployment lock is held.                                   *)
Gate == INSTANCE ReleaseGate
          WITH Releases <- Ids, NoRelease <- 0,
               live <- current, good <- validated, busy <- (lock # NoProc),
               base <- (IF lock = NoProc THEN current ELSE job[lock].prev)

\* Users are served the release gate's promise by every interleaving of
\* deployments, rollbacks and cancellations (without crashes and faults).
GateImplemented == Gate!GateSpec
=============================================================================
