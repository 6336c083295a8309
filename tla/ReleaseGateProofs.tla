-------------------------- MODULE ReleaseGateProofs --------------------------
(* Which release Deployment serves, for every value of its constants: only   *)
(* validated ones are live between operations, cancellations are honoured,   *)
(* health is not overstated, the lifecycle implements ReleaseGate, what it   *)
(* retains on disk is what the retention says, and users are served while a  *)
(* release is handed over.                                                   *)
EXTENDS DeploymentProofs

-----------------------------------------------------------------------------
(* The steps of a process under the lock, as edges between labels: what each *)
(* does to `current', to the validated releases and to the health.           *)

\* Labels with the previous release live, a deployment's and a rollback's; of
\* a deployment that is completed, and of a rollback that was undone.
Untried == PreparePhases \cup {"start", "ready", "activate"}
RbUntried == {"rb_start", "rb_ready", "rb_activate"}
Settled == {"mark_healthy", "drain", "prune"}
RbUndone == {"rb_reroute", "rb_abandon"}

Kept(p) ==
    /\ job'[p].id = job[p].id
    /\ job'[p].release = job[p].release
    /\ job'[p].prev = job[p].prev
    /\ lock' = lock

\* Going back to the previous release, if it is still on disk.
Restores(p) ==
    IF job[p].prev \in dirs
    THEN current' = job[p].prev /\ job'[p].restored
    ELSE current' = current /\ job'[p].restored = job[p].restored

PrepareEdge(p) ==
    /\ Kept(p) /\ job'[p].restored = job[p].restored
    /\ UNCHANGED <<health, validated, markers, cancelPoint, crashes>>
    /\ \/ /\ pc[p] \in PreparePhases /\ current' = current
          /\ \/ pc'[p] \in PreparePhases \cup {"abort_remove"}
             \/ pc'[p] = "start" /\ job[p].id \notin markers
       \/ /\ pc[p] \in {"start", "ready"} /\ current' = current
          /\ pc'[p] \in {"ready", "activate", "abort_remove", "abort_upstream"}
       \/ /\ pc[p] = "activate" /\ current' = job[p].release
          /\ pc'[p] \in {"switch", "health"}
       \/ /\ pc[p] = "switch" /\ current' = current
          /\ \/ pc'[p] = "health"
             \/ pc'[p] = "abort_restore" /\ NginxFaults

ValidateEdge(p) ==
    /\ UNCHANGED <<current, markers, cancelPoint, crashes>>
    /\ \/ /\ Kept(p) /\ job'[p].restored = job[p].restored
          /\ \/ /\ pc[p] = "health" /\ UNCHANGED <<health, validated>>
                /\ \/ pc'[p] = "reject_restore"
                   \/ pc'[p] = "post_deploy" /\ job[p].id \notin markers
             \/ /\ pc[p] \in {"post_deploy", "post_command"} /\ UNCHANGED <<health, validated>>
                /\ pc'[p] \in {"post_deploy", "post_command", "complete", "reject_restore"}
             \/ /\ pc[p] = "complete" /\ pc'[p] = "mark_healthy" /\ UNCHANGED health
                /\ validated' = validated \cup {job[p].id}
             \/ /\ pc[p] = "mark_healthy" /\ pc'[p] = "drain"
                /\ health' = "healthy" /\ UNCHANGED validated
             \/ pc[p] = "drain" /\ pc'[p] = "prune" /\ UNCHANGED <<health, validated>>
       \/ pc[p] = "prune" /\ Return(p) /\ pc'[p] = "idle" /\ UNCHANGED <<health, validated>>

AbortEdge(p) ==
    /\ UNCHANGED <<validated, markers, cancelPoint, crashes>>
    /\ \/ /\ Kept(p) /\ UNCHANGED health
          /\ \/ /\ pc[p] = "abort_restore" /\ pc'[p] = "abort_upstream"
                /\ Restores(p)
             \/ /\ pc[p] \in {"abort_upstream", "abort_stop"}
                /\ pc'[p] \in {"abort_stop", "abort_remove"}
                /\ current' = current /\ job'[p].restored = job[p].restored
             \/ /\ pc[p] \in {"abort_remove", "abort_record"}
                /\ pc'[p] \in {"abort_record", "abort_health"}
                /\ current' = current /\ job'[p].restored = job[p].restored
       \/ /\ pc[p] = "abort_health" /\ Return(p) /\ pc'[p] = "idle" /\ current' = current
          /\ health' \in {"deployment_cancelled", "deployment_failed"}

RejectEdge(p) ==
    /\ UNCHANGED <<validated, markers, cancelPoint, crashes>>
    /\ \/ /\ Kept(p) /\ UNCHANGED health
          /\ \/ /\ pc[p] = "reject_restore" /\ pc'[p] \in {"reject_upstream", "reject_record"}
                /\ Restores(p)
             \/ /\ pc[p] \in {"reject_upstream", "reject_stop", "reject_record"}
                /\ pc'[p] \in {"reject_stop", "reject_record", "reject_health"}
                /\ current' = current /\ job'[p].restored = job[p].restored
       \/ /\ Kept(p) /\ current' = current /\ job'[p].restored = job[p].restored
          /\ pc[p] = "reject_health" /\ pc'[p] = "reject_cleanup"
          /\ health' = IF job[p].restored THEN "healthy_after_rollback" ELSE "unhealthy"
       \/ /\ pc[p] \in {"reject_upstream", "reject_stop"} /\ (NginxFaults \/ UnitFaults)
          /\ Return(p) /\ pc'[p] = "idle" /\ current' = current /\ UNCHANGED health
       \/ /\ pc[p] = "reject_cleanup" /\ Return(p) /\ pc'[p] = "idle" /\ UNCHANGED health
          /\ current' = IF job[p].restored THEN current ELSE 0

RollbackEdge(p) ==
    /\ UNCHANGED <<validated, markers, cancelPoint, crashes>>
    /\ \/ /\ Kept(p) /\ UNCHANGED health
          /\ \/ /\ pc[p] \in {"rb_start", "rb_ready"} /\ current' = current
                /\ pc'[p] \in {"rb_ready", "rb_activate", "rb_abandon"}
             \/ /\ pc[p] = "rb_activate" /\ current' = job[p].release
                /\ pc'[p] \in {"rb_switch", "rb_record"}
             \/ /\ pc[p] \in {"rb_switch", "rb_health", "rb_drain", "rb_record"}
                /\ pc'[p] \in {"rb_health", "rb_undo_switch", "rb_drain", "rb_undo_health",
                               "rb_record", "rb_healthy"}
                /\ current' = current
             \/ /\ pc[p] \in {"rb_undo_switch", "rb_undo_health"} /\ pc'[p] \in RbUndone
                /\ current' = IF job[p].prev # 0 THEN job[p].prev ELSE current
             \/ pc[p] = "rb_reroute" /\ pc'[p] = "rb_abandon" /\ current' = current
       \/ /\ Return(p) /\ pc'[p] = "idle" /\ current' = current
          /\ \/ pc[p] \in {"rb_start", "rb_abandon"} /\ UNCHANGED health
             \/ pc[p] = "rb_drain" /\ UnitFaults /\ UNCHANGED health
             \/ pc[p] = "rb_healthy" /\ health' = "healthy"

Edge(p) ==
    PrepareEdge(p) \/ ValidateEdge(p) \/ AbortEdge(p) \/ RejectEdge(p) \/ RollbackEdge(p)

LEMMA PrepareEdges ==
    ASSUME TypeInv, NEW p \in Procs, PrepareStep(p)
    PROVE  PrepareEdge(p)
<1> USE DEF host, ghost, record, Kept
<1>1. pc \in [Procs -> Labels] /\ job \in [Procs -> Jobs]
  BY DEF TypeInv, TypeOK
<1>2. ASSUME PhaseSucceeds(p)
      PROVE  PrepareEdge(p)
  <2> DEFINE j == [job[p] EXCEPT !.commit = @ \/ pc[p] = "checkout"]
  <2>1. /\ pc[p] \in PreparePhases /\ job' = [job EXCEPT ![p] = j]
        /\ UNCHANGED <<health, markers, lock, current, validated, cancelPoint, crashes>>
    BY <1>2 DEF PhaseSucceeds
  <2>2. /\ j.id = job[p].id /\ j.release = job[p].release /\ j.prev = job[p].prev
        /\ j.restored = job[p].restored
    BY <1>1 DEF Jobs
  <2>3. \/ Goto(p, "abort_remove")
        \/ Goto(p, NextPhase(pc[p])) /\ (pc[p] = "checkout" \/ j.id \notin markers)
    BY <1>2 DEF PhaseSucceeds
  <2> HIDE DEF j
  <2>4. job'[p] = j
    BY <1>1, <2>1
  <2>5. \/ pc'[p] = "abort_remove"
        \/ pc'[p] = NextPhase(pc[p]) /\ (pc[p] = "checkout" \/ j.id \notin markers)
    BY <1>1, <2>3 DEF Goto
  <2>6. \/ pc'[p] \in PreparePhases \cup {"abort_remove"}
        \/ pc'[p] = "start" /\ j.id \notin markers
    BY <2>1, <2>5 DEF NextPhase, PreparePhases
  <2> QED
    BY <2>1, <2>2, <2>4, <2>6 DEF PrepareEdge
<1>3. ASSUME PhaseFails(p)
      PROVE  PrepareEdge(p)
  <2>1. /\ pc[p] \in PreparePhases /\ Goto(p, "abort_remove")
        /\ UNCHANGED <<health, markers, lock, current, validated, cancelPoint, crashes>>
    BY <1>3 DEF PhaseFails
  <2>2. PICK resolved \in BOOLEAN :
            job' = [job EXCEPT ![p] = [job[p] EXCEPT !.commit = resolved]]
    BY <1>1, <1>3 DEF PhaseFails, Jobs
  <2>3. /\ job'[p].id = job[p].id /\ job'[p].release = job[p].release
        /\ job'[p].prev = job[p].prev /\ job'[p].restored = job[p].restored
    BY <1>1, <2>2 DEF Jobs
  <2>4. pc'[p] = "abort_remove"
    BY <1>1, <2>1 DEF Goto
  <2> QED
    BY <2>1, <2>3, <2>4 DEF PrepareEdge
<1>4. ASSUME StartSucceeds(p)
      PROVE  PrepareEdge(p)
  <2>1. /\ pc[p] = "start"
        /\ UNCHANGED <<health, markers, lock, current, validated, cancelPoint, crashes>>
    BY <1>4 DEF StartSucceeds
  <2>2. CASE Handoff
    <3> DEFINE j == [job[p] EXCEPT !.port = InactivePort(job[p].prevPort)]
    <3>1. job' = [job EXCEPT ![p] = j] /\ Goto(p, "ready")
      BY <1>4, <2>2 DEF StartSucceeds
    <3>2. /\ j.id = job[p].id /\ j.release = job[p].release /\ j.prev = job[p].prev
          /\ j.restored = job[p].restored
      BY <1>1 DEF Jobs
    <3> HIDE DEF j
    <3>3. job'[p] = j /\ pc'[p] = "ready"
      BY <1>1, <3>1 DEF Goto
    <3> QED
      BY <2>1, <3>2, <3>3 DEF PrepareEdge
  <2>3. CASE ~ Handoff
    <3>1. UNCHANGED job /\ Goto(p, "activate")
      BY <1>4, <2>3 DEF StartSucceeds
    <3>2. pc'[p] = "activate"
      BY <1>1, <3>1 DEF Goto
    <3> QED
      BY <2>1, <3>1, <3>2 DEF PrepareEdge
  <2> QED
    BY <2>2, <2>3
<1>5. ASSUME StartFails(p) \/ ReadySucceeds(p) \/ ReadyFails(p) \/ Activate(p)
             \/ SwitchSucceeds(p) \/ SwitchFails(p)
      PROVE  PrepareEdge(p)
  <2>1. /\ UNCHANGED <<health, markers, lock, validated, cancelPoint, crashes, job>>
        /\ \/ pc[p] = "start" /\ Goto(p, "abort_remove") /\ current' = current
           \/ pc[p] = "ready" /\ Goto(p, "activate") /\ current' = current
           \/ pc[p] = "ready" /\ Goto(p, "abort_upstream") /\ current' = current
           \/ /\ pc[p] = "activate" /\ current' = job[p].release
              /\ Goto(p, "switch") \/ Goto(p, "health")
           \/ pc[p] = "switch" /\ Goto(p, "health") /\ current' = current
           \/ pc[p] = "switch" /\ Goto(p, "abort_restore") /\ current' = current
              /\ NginxFaults
    BY <1>5 DEF StartFails, ReadySucceeds, ReadyFails, Activate, SwitchSucceeds, SwitchFails
  <2> QED
    BY <1>1, <2>1 DEF Goto, PrepareEdge
<1> QED
  BY <1>2, <1>3, <1>4, <1>5 DEF PrepareStep

LEMMA ValidateEdges ==
    ASSUME TypeInv, NEW p \in Procs, ValidateStep(p)
    PROVE  ValidateEdge(p)
<1> USE DEF host, ghost, record, Kept
<1>1. pc \in [Procs -> Labels] /\ job \in [Procs -> Jobs]
  BY DEF TypeInv, TypeOK
<1>2. UNCHANGED <<current, markers, cancelPoint, crashes>>
  BY DEF ValidateStep, HealthPasses, HealthFails, PostDeployBegins, PostDeploySucceeds,
         PostDeployFails, Complete, MarkHealthy, Drain, Prune
<1>3. CASE Prune(p)
  BY <1>1, <1>2, <1>3 DEF Prune, Return, Goto, ValidateEdge
<1>4. ASSUME ~ Prune(p)
      PROVE  Kept(p) /\ job'[p].restored = job[p].restored
  BY <1>1, <1>4 DEF ValidateStep, HealthPasses, HealthFails, PostDeployBegins,
     PostDeploySucceeds, PostDeployFails, Complete, MarkHealthy, Drain, Jobs
<1>5. CASE HealthPasses(p) \/ HealthFails(p)
  BY <1>1, <1>2, <1>4, <1>5 DEF HealthPasses, HealthFails, Prune, Goto, ValidateEdge
<1>6. CASE PostDeployBegins(p) \/ PostDeploySucceeds(p) \/ PostDeployFails(p)
  BY <1>1, <1>2, <1>4, <1>6 DEF PostDeployBegins, PostDeploySucceeds, PostDeployFails,
     Prune, Goto, ValidateEdge
<1>7. CASE Complete(p) \/ MarkHealthy(p) \/ Drain(p)
  BY <1>1, <1>2, <1>4, <1>7 DEF Complete, MarkHealthy, Drain, Prune, Goto, ValidateEdge
<1> QED
  BY <1>3, <1>5, <1>6, <1>7 DEF ValidateStep

LEMMA AbortEdges ==
    ASSUME TypeInv, NEW p \in Procs, AbortStep(p)
    PROVE  AbortEdge(p)
<1> USE DEF host, ghost, record, Kept
<1>1. pc \in [Procs -> Labels] /\ job \in [Procs -> Jobs]
  BY DEF TypeInv, TypeOK
<1>2. CASE AbortRestore(p)
  BY <1>1, <1>2 DEF AbortRestore, Goto, AbortEdge, Restores, Jobs
<1>3. CASE AbortUpstream(p) \/ AbortStop(p) \/ AbortRemove(p)
  BY <1>1, <1>3 DEF AbortUpstream, AbortStop, AbortRemove, Goto, AbortEdge
<1>4. CASE AbortRecord(p)
  <2>1. /\ job'[p].id = job[p].id /\ job'[p].release = job[p].release
        /\ job'[p].prev = job[p].prev /\ job'[p].restored = job[p].restored
    BY <1>1, <1>4 DEF AbortRecord, Jobs
  <2> QED
    BY <1>1, <1>4, <2>1 DEF AbortRecord, Goto, AbortEdge
<1>5. CASE AbortHealth(p)
  BY <1>1, <1>5 DEF AbortHealth, Return, Goto, AbortEdge
<1> QED
  BY <1>2, <1>3, <1>4, <1>5 DEF AbortStep

LEMMA RejectEdges ==
    ASSUME TypeInv, NEW p \in Procs, RejectStep(p)
    PROVE  RejectEdge(p)
<1> USE DEF host, ghost, record, Kept
<1>1. pc \in [Procs -> Labels] /\ job \in [Procs -> Jobs]
  BY DEF TypeInv, TypeOK
<1>2. CASE RejectRestore(p)
  BY <1>1, <1>2 DEF RejectRestore, Goto, RejectEdge, Restores, Jobs
<1>3. CASE RejectUpstream(p) \/ RejectStop(p) \/ RejectRecord(p)
  BY <1>1, <1>3 DEF RejectUpstream, RejectStop, RejectRecord, Goto, RejectEdge
<1>4. CASE RejectHealth(p)
  BY <1>1, <1>4 DEF RejectHealth, Goto, RejectEdge
<1>5. CASE RejectUpstreamFails(p) \/ RejectStopFails(p)
  BY <1>1, <1>5 DEF RejectUpstreamFails, RejectStopFails, StopFails, Return, Goto, RejectEdge
<1>6. CASE RejectCleanup(p)
  BY <1>1, <1>6 DEF RejectCleanup, Return, Goto, RejectEdge
<1> QED
  BY <1>2, <1>3, <1>4, <1>5, <1>6 DEF RejectStep

LEMMA RollbackEdges ==
    ASSUME TypeInv, NEW p \in Procs, RollbackStep(p)
    PROVE  RollbackEdge(p)
<1> USE DEF host, ghost, record, Kept
<1>1. pc \in [Procs -> Labels] /\ job \in [Procs -> Jobs]
  BY DEF TypeInv, TypeOK
<1>2. CASE RbStart(p) \/ RbReady(p) \/ RbActivate(p) \/ RbReroute(p)
  BY <1>1, <1>2 DEF RbStart, RbReady, RbActivate, RbReroute, Goto, RollbackEdge
<1>3. CASE RbSwitch(p) \/ RbHealth(p) \/ RbDrain(p) \/ RbRecord(p)
  BY <1>1, <1>3 DEF RbSwitch, RbHealth, RbDrain, RbRecord, Goto, RollbackEdge
<1>4. CASE RbReactivate(p)
  BY <1>1, <1>4 DEF RbReactivate, Goto, RollbackEdge, RbUndone
<1>5. CASE RbStartFails(p) \/ RbAbandon(p) \/ RbDrainFails(p) \/ RbHealthy(p)
  BY <1>1, <1>5 DEF RbStartFails, RbAbandon, RbDrainFails, RbHealthy, StopFails, Return,
     Goto, RollbackEdge
<1> QED
  BY <1>2, <1>3, <1>4, <1>5 DEF RollbackStep

LEMMA Edges ==
    ASSUME TypeInv, NEW p \in Procs, CriticalStep(p)
    PROVE  Edge(p)
BY PrepareEdges, ValidateEdges, AbortEdges, RejectEdges, RollbackEdges
   DEF CriticalStep, Edge

-----------------------------------------------------------------------------
(* What a step writes on the store.  Only the deployment itself turns its   *)
(* record into a completed one, and no record ever goes away.               *)

Stored(p) ==
    /\ Recorded \subseteq Recorded'
    /\ \A d \in Ids : db'[d].status = "completed" =>
          \/ db'[d] = db[d]
          \/ /\ d = job[p].id /\ db'[d].release = job[p].release
             /\ pc[p] \in {"complete", "drain"}

LEMMA UpsertStores ==
    ASSUME TypeInv, NEW p \in Procs, NEW j, j.id \in Ids,
           NEW status \in Statuses \ {"absent"}, Upsert(j, status),
           status = "completed" => /\ j.id = job[p].id /\ j.release = job[p].release
                                   /\ pc[p] \in {"complete", "drain"}
    PROVE  Stored(p)
<1>1. Recorded \subseteq Recorded'
  BY UpsertRecorded DEF TypeInv
<1>2. db' = [db EXCEPT ![j.id] = [status |-> status, release |-> j.release,
                                  port |-> j.port, commit |-> j.commit]]
  BY DEF Upsert
<1>3. db'[j.id].status = status /\ db'[j.id].release = j.release
  BY <1>2 DEF TypeInv, TypeOK
<1>4. \A d \in Ids \ {j.id} : db'[d] = db[d]
  BY <1>2 DEF TypeInv, TypeOK
<1> QED
  BY <1>1, <1>3, <1>4 DEF Stored

LEMMA SameStored ==
    ASSUME NEW p, db' = db
    PROVE  Stored(p)
BY DEF Stored, Recorded

LEMMA StoreSteps ==
    ASSUME TypeInv, NEW p \in Procs, Request(p) \/ Step(p) \/ Crash(p)
    PROVE  Stored(p)
<1> USE DEF record
<1>1. {"started", "cancelling", "cancelled", "completed", "failed", "rolled_back",
       "failed_rolled_back"} \subseteq Statuses \ {"absent"}
  BY DEF Statuses
<1>2. pc \in [Procs -> Labels] /\ job \in [Procs -> Jobs] /\ TypeOK
  BY DEF TypeInv, TypeOK
<1>3. pc[p] # "idle" => job[p].id \in Ids
  BY DEF TypeInv, ActiveJobs
<1>4. CASE Begin(p)
  <2> DEFINE j == [NoJob EXCEPT !.id = NextId, !.release = NextId,
                                !.prev = current, !.prevPort = NodePort(current),
                                !.commands = PostCommands]
  <2>1. NextId \in Ids /\ Upsert(j, "started")
    BY <1>4 DEF Begin
  <2>2. j.id = NextId
    BY DEF NoJob
  <2> HIDE DEF j
  <2> QED
    BY <1>1, <2>1, <2>2, UpsertStores
<1>5. CASE RbBegin(p) \/ (\E d \in Ids : CancelLoad(p, d)) \/ Crash(p) \/ CancelMark(p)
  BY <1>5, SameStored DEF RbBegin, CancelLoad, Crash, CancelMark
<1>6. CASE PhaseSucceeds(p)
  <2> DEFINE j == [job[p] EXCEPT !.commit = @ \/ pc[p] = "checkout"]
  <2>1. pc[p] # "idle" /\ (Upsert(j, "cancelled") \/ Upsert(j, "started"))
    BY <1>6 DEF PhaseSucceeds, PreparePhases
  <2>2. j.id = job[p].id
    BY <1>2 DEF Jobs
  <2> HIDE DEF j
  <2> QED
    BY <1>1, <1>3, <2>1, <2>2, UpsertStores
<1>7. CASE StartSucceeds(p)
  <2> DEFINE j == [job[p] EXCEPT !.port = InactivePort(job[p].prevPort)]
  <2>1. pc[p] # "idle" /\ (db' = db \/ Upsert(j, "started"))
    BY <1>7 DEF StartSucceeds
  <2>2. j.id = job[p].id
    BY <1>2 DEF Jobs
  <2> HIDE DEF j
  <2> QED
    BY <1>1, <1>3, <2>1, <2>2, UpsertStores, SameStored
<1>8. ASSUME \/ PhaseFails(p) \/ StartFails(p) \/ ReadySucceeds(p) \/ ReadyFails(p)
             \/ Activate(p) \/ SwitchSucceeds(p) \/ SwitchFails(p)
             \/ ValidateStep(p) \/ AbortStep(p) \/ RejectStep(p) \/ RollbackStep(p)
             \/ CancelSave(p)
      PROVE  Stored(p)
  <2>1. /\ pc[p] # "idle"
        /\ \/ db' = db
           \/ \E status \in {"started", "cancelling", "cancelled", "failed",
                             "rolled_back", "failed_rolled_back"} : Upsert(job[p], status)
           \/ pc[p] \in {"complete", "drain"} /\ Upsert(job[p], "completed")
    <3>1. CASE \/ PhaseFails(p) \/ StartFails(p) \/ ReadySucceeds(p) \/ ReadyFails(p)
               \/ Activate(p) \/ SwitchSucceeds(p) \/ SwitchFails(p) \/ CancelSave(p)
      BY <3>1 DEF PhaseFails, StartFails, ReadySucceeds, ReadyFails, Activate,
         SwitchSucceeds, SwitchFails, CancelSave, PreparePhases
    <3>2. CASE ValidateStep(p)
      BY <3>2 DEF ValidateStep, HealthPasses, HealthFails, PostDeployBegins,
         PostDeploySucceeds, PostDeployFails, Complete, MarkHealthy, Drain, Prune
    <3>3. CASE AbortStep(p)
      BY <3>3 DEF AbortStep, AbortRestore, AbortUpstream, AbortStop, AbortRemove,
         AbortRecord, AbortHealth
    <3>4. CASE RejectStep(p)
      BY <3>4 DEF RejectStep, RejectRestore, RejectUpstream, RejectUpstreamFails,
         RejectStop, RejectStopFails, RejectRecord, RejectHealth, RejectCleanup
    <3>5. CASE RollbackStep(p)
      BY <3>5 DEF RollbackStep, RbStart, RbStartFails, RbReady, RbActivate, RbSwitch,
         RbHealth, RbReactivate, RbReroute, RbAbandon, RbDrain, RbDrainFails, RbRecord,
         RbHealthy
    <3> QED
      BY <1>8, <3>1, <3>2, <3>3, <3>4, <3>5
  <2> QED
    BY <1>1, <1>3, <2>1, UpsertStores, SameStored
<1> QED
  BY <1>4, <1>5, <1>6, <1>7, <1>8 DEF Request, Deploy, Redeploy, Step, PrepareStep, CancelStep

\* A step under the lock writes nothing, or its own record.
LEMMA CriticalWrites ==
    ASSUME TypeInv, NEW p \in Procs, CriticalStep(p)
    PROVE  /\ \/ db' = db
              \/ /\ \A d \in Ids \ {job[p].id} : db'[d] = db[d]
                 /\ pc[p] \in Reversible \cup (RollbackPhases \ {"rb_healthy"}) \cup {"drain"}
           /\ pc[p] \in {"complete", "drain"} =>
                 /\ db'[job[p].id].status = "completed"
                 /\ db'[job[p].id].port = job[p].port
<1> USE DEF record, Reversible, DeployPhases, RollbackPhases, PreparePhases, TrialPhases,
        SettlePhases, AbortPhases, RejectPhases
<1>1. job \in [Procs -> Jobs] /\ db \in [Ids -> Deployments]
  BY DEF TypeInv, TypeOK
<1>2. CASE PhaseSucceeds(p)
  <2> DEFINE j == [job[p] EXCEPT !.commit = @ \/ pc[p] = "checkout"]
  <2>1. pc[p] \in PreparePhases /\ (Upsert(j, "cancelled") \/ Upsert(j, "started"))
    BY <1>2 DEF PhaseSucceeds
  <2>2. j.id = job[p].id
    BY <1>1 DEF Jobs
  <2> HIDE DEF j
  <2>3. \A d \in Ids \ {job[p].id} : db'[d] = db[d]
    BY <1>1, <2>1, <2>2 DEF Upsert
  <2> QED
    BY <2>1, <2>3
<1>3. CASE StartSucceeds(p)
  <2> DEFINE j == [job[p] EXCEPT !.port = InactivePort(job[p].prevPort)]
  <2>1. pc[p] = "start" /\ (db' = db \/ Upsert(j, "started"))
    BY <1>3 DEF StartSucceeds
  <2>2. j.id = job[p].id
    BY <1>1 DEF Jobs
  <2> HIDE DEF j
  <2>3. \A d \in Ids \ {job[p].id} : db'[d] = db[d]
    BY <1>1, <2>1, <2>2 DEF Upsert
  <2> QED
    BY <2>1, <2>3
<1>4. ASSUME \/ PhaseFails(p) \/ StartFails(p) \/ ReadySucceeds(p) \/ ReadyFails(p)
             \/ Activate(p) \/ SwitchSucceeds(p) \/ SwitchFails(p)
             \/ ValidateStep(p) \/ AbortStep(p) \/ RejectStep(p) \/ RollbackStep(p)
      PROVE  /\ \/ db' = db
                \/ \E status \in Statuses : Upsert(job[p], status)
             /\ pc[p] \in {"complete", "drain"} => Upsert(job[p], "completed")
             /\ db' # db => pc[p] \in Reversible \cup (RollbackPhases \ {"rb_healthy"})
                                      \cup {"drain"}
  <2>1. CASE \/ PhaseFails(p) \/ StartFails(p) \/ ReadySucceeds(p) \/ ReadyFails(p)
             \/ Activate(p) \/ SwitchSucceeds(p) \/ SwitchFails(p)
    BY <2>1 DEF PhaseFails, StartFails, ReadySucceeds, ReadyFails, Activate,
       SwitchSucceeds, SwitchFails, Statuses
  <2>2. CASE ValidateStep(p)
    BY <2>2 DEF ValidateStep, HealthPasses, HealthFails, PostDeployBegins,
       PostDeploySucceeds, PostDeployFails, Complete, MarkHealthy, Drain, Prune, Statuses
  <2>3. CASE AbortStep(p)
    BY <2>3 DEF AbortStep, AbortRestore, AbortUpstream, AbortStop, AbortRemove,
       AbortRecord, AbortHealth, Statuses
  <2>4. CASE RejectStep(p)
    BY <2>4 DEF RejectStep, RejectRestore, RejectUpstream, RejectUpstreamFails,
       RejectStop, RejectStopFails, RejectRecord, RejectHealth, RejectCleanup, Statuses
  <2>5. CASE RollbackStep(p)
    BY <2>5 DEF RollbackStep, RbStart, RbStartFails, RbReady, RbActivate, RbSwitch,
       RbHealth, RbReactivate, RbReroute, RbAbandon, RbDrain, RbDrainFails, RbRecord,
       RbHealthy, Statuses
  <2> QED
    BY <1>4, <2>1, <2>2, <2>3, <2>4, <2>5
<1>5. ASSUME ~ PhaseSucceeds(p), ~ StartSucceeds(p)
      PROVE  /\ db' # db => \A d \in Ids \ {job[p].id} : db'[d] = db[d]
             /\ pc[p] \in {"complete", "drain"} =>
                   /\ db'[job[p].id].status = "completed"
                   /\ db'[job[p].id].port = job[p].port
  <2>1. db' = db \/ \E status \in Statuses : Upsert(job[p], status)
    BY <1>4, <1>5 DEF CriticalStep, PrepareStep
  <2>2. db' # db => \A d \in Ids \ {job[p].id} : db'[d] = db[d]
    BY <1>1, <2>1 DEF Upsert
  <2>3. ASSUME pc[p] \in {"complete", "drain"}
        PROVE  /\ db'[job[p].id].status = "completed"
               /\ db'[job[p].id].port = job[p].port
    <3>1. Upsert(job[p], "completed")
      BY <1>4, <1>5, <2>3 DEF CriticalStep, PrepareStep
    <3>2. job[p].id \in Ids
      BY <2>3 DEF TypeInv, ActiveJobs
    <3> QED
      BY <1>1, <3>1, <3>2 DEF Upsert
  <2> QED
    BY <2>2, <2>3
<1> QED
  BY <1>2, <1>3, <1>4, <1>5 DEF CriticalStep, PrepareStep

-----------------------------------------------------------------------------
(* What an operation in progress may be trusted with.                       *)

Vouched(p) ==
    /\ pc[p] \in Reversible => job[p].id \notin validated
    /\ pc[p] \in DeployPhases => job[p].prev # job[p].id
    /\ pc[p] \in Critical => job[p].prev \in Recorded \cup {0}
    /\ pc[p] \in Untried \cup RbUntried => current = job[p].prev
    /\ pc[p] \in Settled =>
          /\ job[p].id \in validated /\ job[p].release = job[p].id
          /\ current = job[p].release
    /\ pc[p] \in RollbackPhases =>
          /\ job[p].release \in validated /\ job[p].release # job[p].prev
          /\ pc[p] \in RbUndone => current = job[p].prev
          /\ pc[p] \notin RbUntried \cup RbUndone => current = job[p].release

\* A completed record is of the release it names, and that was validated; what
\* is validated or live is recorded.
VouchInv ==
    /\ \A d \in Completed : d \in validated /\ db[d].release = d
    /\ validated \subseteq Recorded
    /\ current \in Recorded \cup {0}
    /\ \A p \in Procs : Vouched(p)

\* What the moving process must establish.
VouchMove(p) ==
    /\ Vouched(p)'
    /\ validated \subseteq validated' /\ validated' \subseteq Recorded'
    /\ current' \in Recorded' \cup {0}

\* Labels by what an invariant says of them.
LEMMA LabelSets ==
    /\ Reversible \subseteq DeployPhases /\ Untried \subseteq Reversible
    /\ Settled \subseteq DeployPhases \ Reversible
    /\ AbortPhases \cup RejectPhases \subseteq Reversible
    /\ RbUntried \cup RbUndone \subseteq RollbackPhases
    /\ RbUntried \cap RbUndone = {} /\ Settled \cap Untried = {}
    /\ DeployPhases \cap RollbackPhases = {}
    /\ Critical = DeployPhases \cup RollbackPhases
    /\ {"idle"} \cup CancelPhases \subseteq Labels \ Critical
BY DEF Reversible, Untried, Settled, RbUntried, RbUndone, DeployPhases, RollbackPhases,
       PreparePhases, TrialPhases, SettlePhases, AbortPhases, RejectPhases, Critical,
       CancelPhases, Labels

LEMMA PrepareVouches ==
    ASSUME TypeInv, ReleaseInv, VouchInv, NEW p \in Procs, PrepareEdge(p),
           Recorded \subseteq Recorded'
    PROVE  VouchMove(p)
<1> USE DEF Reversible, Untried, Settled, RbUntried, RbUndone, DeployPhases,
        RollbackPhases, PreparePhases, TrialPhases, SettlePhases, AbortPhases,
        RejectPhases, Critical
<1>1. /\ Vouched(p) /\ validated \subseteq Recorded /\ current \in Recorded \cup {0}
      /\ validated' = validated /\ Kept(p)
  BY DEF VouchInv, PrepareEdge
<1>2. /\ pc[p] \in Reversible => job[p].release = job[p].id /\ job[p].id \in Recorded
  BY DEF ReleaseInv, Standing, Recording
<1> USE DEF Kept
<1>3. CASE pc[p] \in PreparePhases \cup {"start", "ready"}
  <2>1. /\ current' = current
        /\ pc'[p] \in Untried \cup {"abort_remove", "abort_upstream"}
    BY <1>3 DEF PrepareEdge
  <2> QED
    BY <1>1, <1>3, <2>1 DEF Vouched, VouchMove
<1>4. CASE pc[p] = "activate"
  <2>1. current' = job[p].release /\ pc'[p] \in {"switch", "health"}
    BY <1>4 DEF PrepareEdge
  <2> QED
    BY <1>1, <1>2, <1>4, <2>1 DEF Vouched, VouchMove
<1>5. CASE pc[p] = "switch"
  <2>1. current' = current /\ pc'[p] \in {"health", "abort_restore"}
    BY <1>5 DEF PrepareEdge
  <2> QED
    BY <1>1, <1>5, <2>1 DEF Vouched, VouchMove
<1> QED
  BY <1>3, <1>4, <1>5 DEF PrepareEdge

LEMMA ValidateVouches ==
    ASSUME TypeInv, ReleaseInv, VouchInv, NEW p \in Procs, ValidateEdge(p),
           Recorded \subseteq Recorded'
    PROVE  VouchMove(p)
<1> USE DEF Reversible, Untried, Settled, RbUntried, RbUndone, DeployPhases,
        RollbackPhases, PreparePhases, TrialPhases, SettlePhases, AbortPhases,
        RejectPhases, Critical
<1>1. /\ Vouched(p) /\ validated \subseteq Recorded /\ current \in Recorded \cup {0}
      /\ current' = current
  BY DEF VouchInv, ValidateEdge
<1>2. /\ pc[p] \in Reversible => job[p].release = job[p].id /\ job[p].id \in Recorded
      /\ pc[p] \in OnRelease => current = job[p].release
  BY DEF ReleaseInv, Standing, Recording
<1>3. CASE pc'[p] = "idle"
  BY <1>1, <1>3 DEF ValidateEdge, VouchMove, Vouched
<1>4. CASE pc[p] = "complete"
  <2>1. /\ pc'[p] = "mark_healthy" /\ validated' = validated \cup {job[p].id} /\ Kept(p)
    BY <1>4 DEF ValidateEdge
  <2> QED
    BY <1>1, <1>2, <1>4, <2>1 DEF Vouched, VouchMove, OnRelease, Kept
<1>5. CASE pc[p] \in {"health", "post_deploy", "post_command"}
  <2>1. /\ pc'[p] \in {"post_deploy", "post_command", "complete", "reject_restore"}
        /\ validated' = validated /\ Kept(p)
    BY <1>5 DEF ValidateEdge
  <2> QED
    BY <1>1, <1>5, <2>1 DEF Vouched, VouchMove, Kept
<1>6. CASE pc[p] \in {"mark_healthy", "drain"}
  <2>1. pc'[p] \in {"drain", "prune"} /\ validated' = validated /\ Kept(p)
    BY <1>6 DEF ValidateEdge
  <2> QED
    BY <1>1, <1>6, <2>1 DEF Vouched, VouchMove, Kept
<1> QED
  BY <1>3, <1>4, <1>5, <1>6 DEF ValidateEdge

LEMMA AbortVouches ==
    ASSUME TypeInv, ReleaseInv, VouchInv, NEW p \in Procs,
           AbortEdge(p) \/ RejectEdge(p), Recorded \subseteq Recorded'
    PROVE  VouchMove(p)
<1> USE DEF Reversible, Untried, Settled, RbUntried, RbUndone, DeployPhases,
        RollbackPhases, PreparePhases, TrialPhases, SettlePhases, AbortPhases,
        RejectPhases, Critical
<1>1. /\ Vouched(p) /\ validated \subseteq Recorded /\ current \in Recorded \cup {0}
      /\ validated' = validated
  BY DEF VouchInv, AbortEdge, RejectEdge
<1>2. /\ pc[p] \in AbortPhases \cup RejectPhases
      /\ \/ pc'[p] = "idle"
         \/ pc'[p] \in AbortPhases \cup RejectPhases /\ Kept(p)
  BY DEF AbortEdge, RejectEdge
<1>3. current' \in {current, job[p].prev, 0}
  BY DEF AbortEdge, RejectEdge, Restores
<1>4. job[p].prev \in Recorded \cup {0}
  BY <1>1, <1>2 DEF Vouched
<1> QED
  BY <1>1, <1>2, <1>3, <1>4 DEF Vouched, VouchMove, Kept

LEMMA RollbackVouches ==
    ASSUME TypeInv, ReleaseInv, VouchInv, NEW p \in Procs, RollbackEdge(p),
           Recorded \subseteq Recorded'
    PROVE  VouchMove(p)
<1> USE DEF Reversible, Untried, Settled, RbUntried, RbUndone, DeployPhases,
        RollbackPhases, PreparePhases, TrialPhases, SettlePhases, AbortPhases,
        RejectPhases, Critical
<1>1. /\ Vouched(p) /\ validated \subseteq Recorded /\ current \in Recorded \cup {0}
      /\ validated' = validated
  BY DEF VouchInv, RollbackEdge
<1>2. pc[p] \in RollbackPhases
  BY DEF RollbackEdge
<1>3. job[p].release \in Recorded /\ job[p].prev \in Recorded \cup {0}
  BY <1>1, <1>2 DEF Vouched
\* Something was validated, so the previous release exists.
<1>4. job[p].prev # 0
  <2>1. job[p].prev \in dirs
    BY <1>1, <1>2 DEF Vouched, ReleaseInv, Standing
  <2> QED
    BY <2>1 DEF TypeInv, TypeOK, Ids
<1>5. CASE pc'[p] = "idle"
  <2>1. current' = current
    BY <1>5 DEF RollbackEdge
  <2> QED
    BY <1>1, <1>5, <2>1 DEF VouchMove, Vouched
<1>6. ASSUME pc'[p] # "idle" PROVE Kept(p)
  BY <1>6 DEF RollbackEdge
<1>7. CASE pc[p] \in {"rb_start", "rb_ready", "rb_reroute"} /\ pc'[p] # "idle"
  <2>1. /\ current' = current /\ pc'[p] \in {"rb_ready", "rb_activate", "rb_abandon"}
        /\ pc[p] = "rb_reroute" => pc'[p] = "rb_abandon"
    BY <1>7 DEF RollbackEdge
  <2> QED
    BY <1>1, <1>2, <1>6, <1>7, <2>1 DEF VouchMove, Vouched, Kept
<1>8. CASE pc[p] = "rb_activate" /\ pc'[p] # "idle"
  <2>1. current' = job[p].release /\ pc'[p] \in {"rb_switch", "rb_record"}
    BY <1>8 DEF RollbackEdge
  <2> QED
    BY <1>1, <1>2, <1>3, <1>6, <1>8, <2>1 DEF VouchMove, Vouched, Kept
<1>9. CASE pc[p] \in {"rb_switch", "rb_health", "rb_drain", "rb_record"} /\ pc'[p] # "idle"
  <2>1. /\ current' = current
        /\ pc'[p] \in {"rb_health", "rb_undo_switch", "rb_drain", "rb_undo_health",
                       "rb_record", "rb_healthy"}
    BY <1>9 DEF RollbackEdge
  <2> QED
    BY <1>1, <1>2, <1>6, <1>9, <2>1 DEF VouchMove, Vouched, Kept
<1>10. CASE pc[p] \in {"rb_undo_switch", "rb_undo_health"} /\ pc'[p] # "idle"
  <2>1. current' = job[p].prev /\ pc'[p] \in RbUndone
    BY <1>4, <1>10 DEF RollbackEdge
  <2> QED
    BY <1>1, <1>2, <1>3, <1>6, <1>10, <2>1 DEF VouchMove, Vouched, Kept
<1> QED
  BY <1>5, <1>7, <1>8, <1>9, <1>10 DEF RollbackEdge

\* The ways a process moves: it opens an operation on a free lock, goes on with
\* it, does something beside the lock, or is killed.
Aside(p) == CancelStep(p) \/ \E d \in Ids : CancelLoad(p, d)

LEMMA Kinds ==
    ASSUME NEW p \in Procs, Request(p) \/ Step(p) \/ Crash(p)
    PROVE  Begin(p) \/ RbBegin(p) \/ CriticalStep(p) \/ Aside(p) \/ Crash(p)
BY DEF Request, Deploy, Redeploy, Step, CriticalStep, Aside

LEMMA AsideChanges ==
    ASSUME TypeInv, NEW p \in Procs, Aside(p)
    PROVE  /\ pc[p] \notin Critical /\ pc'[p] \notin Critical
           /\ UNCHANGED <<dirs, current, validated, health, crashes>>
           /\ lock' = lock \/ (lock = p /\ lock' = NoProc)
<1>1. pc \in [Procs -> Labels]
  BY DEF TypeInv, TypeOK
<1>2. /\ pc[p] \in {"idle"} \cup CancelPhases /\ pc'[p] \in {"idle"} \cup CancelPhases
  BY <1>1 DEF Aside, CancelLoad, CancelStep, CancelMark, CancelSave, Return, Goto,
              CancelPhases
<1>3. UNCHANGED <<dirs, current, validated, health, crashes>>
  BY DEF Aside, CancelLoad, CancelStep, CancelMark, CancelSave, host, ghost, record
<1>4. lock' = lock \/ (lock = p /\ lock' = NoProc)
  BY DEF Aside, CancelLoad, CancelStep, CancelMark, CancelSave, Return
<1> QED
  BY <1>2, <1>3, <1>4, LabelSets

\* The job of a deployment, and of a rollback, as it begins.
LEMMA BeginJob ==
    ASSUME TypeInv, NEW p \in Procs, Begin(p)
    PROVE  /\ NextId \in Ids /\ lock = NoProc /\ lock' = p
           /\ pc[p] = "idle" /\ pc'[p] = "source"
           /\ job'[p].id = NextId /\ job'[p].release = NextId /\ job'[p].prev = current
           /\ ~ job'[p].restored
           /\ UNCHANGED <<dirs, current, validated, health, markers, cancelPoint, crashes>>
<1> DEFINE j == [NoJob EXCEPT !.id = NextId, !.release = NextId,
                              !.prev = current, !.prevPort = NodePort(current),
                              !.commands = PostCommands]
<1>1. job' = [job EXCEPT ![p] = j] /\ Goto(p, "source")
  BY DEF Begin
<1>2. /\ j.id = NextId /\ j.release = NextId /\ j.prev = current
      /\ j.restored = FALSE
  BY DEF NoJob
<1> HIDE DEF j
<1>3. job'[p] = j /\ pc'[p] = "source"
  BY <1>1 DEF TypeInv, TypeOK, Goto
<1> QED
  BY <1>2, <1>3 DEF Begin, host, ghost

LEMMA RbBeginJob ==
    ASSUME TypeInv, NEW p \in Procs, RbBegin(p)
    PROVE  /\ NextId \in Ids /\ lock = NoProc /\ lock' = p
           /\ pc[p] = "idle" /\ pc'[p] \in {"rb_start", "rb_activate"}
           /\ job'[p].id = NextId /\ job'[p].prev = current
           /\ \E t \in Completed : /\ job'[p].release = db[t].release
                                   /\ db[t].release # current
           /\ UNCHANGED <<db, dirs, current, validated, health, markers, cancelPoint, crashes>>
<1> DEFINE t == db[Max(RollbackTargets)]
           j == [NoJob EXCEPT !.id = NextId, !.release = t.release,
                              !.port = t.port, !.commit = t.commit,
                              !.prev = current, !.prevPort = NodePort(current)]
<1>1. job' = [job EXCEPT ![p] = j] /\ RollbackTargets # {}
  BY DEF RbBegin
<1>2. pc'[p] \in {"rb_start", "rb_activate"}
  BY DEF RbBegin, Goto, TypeInv, TypeOK
<1>3. /\ j.id = NextId /\ j.release = t.release /\ j.prev = current
  BY DEF NoJob
<1>4. Max(RollbackTargets) \in RollbackTargets
  <2>1. RollbackTargets \subseteq Ids
    BY DEF RollbackTargets, Completed
  <2> QED
    BY <1>1, <2>1, MaxOfIds
<1>5. Max(RollbackTargets) \in Completed /\ t.release # current
  BY <1>4 DEF RollbackTargets
<1> HIDE DEF j
<1>6. job'[p] = j
  BY <1>1 DEF TypeInv, TypeOK
<1> QED
  BY <1>2, <1>3, <1>5, <1>6 DEF RbBegin, host, ghost, record

LEMMA RequestVouches ==
    ASSUME TypeInv, ReleaseInv, VouchInv, NEW p \in Procs, Begin(p) \/ RbBegin(p),
           Recorded \subseteq Recorded'
    PROVE  VouchMove(p)
<1> USE DEF Reversible, Untried, Settled, RbUntried, RbUndone, DeployPhases,
        RollbackPhases, PreparePhases, TrialPhases, SettlePhases, AbortPhases,
        RejectPhases, Critical
<1>1. validated \subseteq Recorded /\ current \in Recorded \cup {0}
  BY DEF VouchInv
<1>2. NextId \notin Recorded
  <2>1. PICK n \in 0 .. MaxDeployments : Recorded = 1 .. n
    BY DEF ReleaseInv, Recording
  <2> QED
    BY <2>1, NextIdFresh
<1>3. CASE Begin(p)
  <2>1. NextId # 0 /\ NextId # current
    BY <1>1, <1>2, <1>3, BeginJob DEF Ids
  <2> QED
    BY <1>1, <1>2, <1>3, <2>1, BeginJob DEF Vouched, VouchMove
<1>4. CASE RbBegin(p)
  <2>1. job'[p].release \in validated /\ job'[p].release # current
    BY <1>4, RbBeginJob DEF VouchInv
  <2> QED
    BY <1>1, <1>4, <2>1, RbBeginJob DEF Vouched, VouchMove
<1> QED
  BY <1>3, <1>4

LEMMA MoveVouches ==
    ASSUME TypeInv, ReleaseInv, VouchInv, NEW p \in Procs,
           Request(p) \/ Step(p) \/ Crash(p)
    PROVE  VouchMove(p)
<1>1. Recorded \subseteq Recorded'
  BY StoreSteps DEF Stored
<1>2. CASE CriticalStep(p)
  BY <1>1, <1>2, Edges, PrepareVouches, ValidateVouches, AbortVouches, RollbackVouches
     DEF Edge
<1>3. CASE Aside(p) \/ Crash(p)
  <2>1. pc'[p] \notin Critical /\ UNCHANGED <<current, validated>>
    <3>1. CASE Crash(p)
      <4>1. pc'[p] = "idle"
        BY <3>1 DEF Crash, Return, Goto, TypeInv, TypeOK
      <4> QED
        BY <3>1, <4>1, LabelSets DEF Crash, host
    <3> QED
      BY <1>3, <3>1, AsideChanges
  <2>2. pc'[p] \notin Reversible \cup DeployPhases \cup Untried \cup RbUntried \cup Settled
                      \cup RollbackPhases
    BY <2>1, LabelSets
  <2> QED
    BY <1>1, <2>1, <2>2 DEF VouchInv, VouchMove, Vouched
<1> QED
  BY <1>1, <1>2, <1>3, Kinds, RequestVouches

\* Under the lock of another process nothing a job relies on changes.
LEMMA OthersStill ==
    ASSUME TypeInv, LockInv, NEW p \in Procs, NEW q \in Procs, q # p,
           Request(p) \/ Step(p) \/ Crash(p), pc'[q] \in Critical
    PROVE  /\ pc'[q] = pc[q] /\ job'[q] = job[q] /\ pc[p] \notin Critical
           /\ lock = q /\ lock # NoProc
           /\ UNCHANGED <<dirs, current, validated>>
<1>1. pc'[q] = pc[q] /\ job'[q] = job[q]
  BY OthersUnmoved
<1>2. lock = q /\ pc[p] \notin Critical /\ lock # NoProc
  BY <1>1, ProcsAssumption DEF LockInv
<1> QED
  BY <1>1, <1>2, OutsideTheLock

LEMMA VouchInvNext ==
    ASSUME TypeInv, LockInv, ReleaseInv, VouchInv, [Next]_vars
    PROVE  VouchInv'
<1>1. CASE UNCHANGED vars
  <2>1. Recorded' = Recorded /\ Completed' = Completed
    BY <1>1 DEF vars, record, Recorded, Completed
  <2> QED
    BY <1>1, <2>1 DEF vars, record, host, ghost, VouchInv, Vouched
<1>2. ASSUME NEW p \in Procs, Request(p) \/ Step(p) \/ Crash(p)
      PROVE  VouchInv'
  <2>1. VouchMove(p) /\ Stored(p)
    BY <1>2, MoveVouches, StoreSteps
  <2>2. ASSUME NEW d \in Completed'
        PROVE  d \in validated' /\ db'[d].release = d
    <3>1. d \in Ids /\ db'[d].status = "completed"
      BY DEF Completed
    <3>2. CASE db'[d] = db[d]
      <4>1. d \in Completed
        BY <3>1, <3>2 DEF Completed
      <4> QED
        BY <2>1, <3>2, <4>1 DEF VouchInv, VouchMove
    <3>3. CASE /\ d = job[p].id /\ db'[d].release = job[p].release
               /\ pc[p] \in {"complete", "drain"} /\ db' # db
      <4>1. job[p].release = job[p].id
        BY <3>3 DEF VouchInv, Vouched, Settled, ReleaseInv, Standing, Reversible,
                    DeployPhases, SettlePhases
      <4>2. job[p].id \in validated'
        <5>1. CASE pc[p] = "drain"
          BY <2>1, <5>1 DEF VouchInv, Vouched, Settled, VouchMove
        <5>2. CASE pc[p] = "complete"
          <6>1. CriticalStep(p)
            <7>1. pc[p] \in Critical /\ pc[p] # "idle" /\ pc[p] \notin CancelPhases
              BY <5>2 DEF Critical, DeployPhases, SettlePhases, CancelPhases
            <7>2. ~ Crash(p)
              BY <3>3 DEF Crash, record
            <7>3. ~ Begin(p) /\ ~ RbBegin(p) /\ ~ Aside(p)
              BY <7>1, AsideChanges DEF Begin, RbBegin
            <7> QED
              BY <1>2, <7>2, <7>3, Kinds
          <6> QED
            BY <5>2, <6>1, Edges
               DEF Edge, PrepareEdge, ValidateEdge, AbortEdge, RejectEdge, RollbackEdge,
                   PreparePhases
        <5> QED
          BY <3>3, <5>1, <5>2
      <4> QED
        BY <3>3, <4>1, <4>2
    <3> QED
      BY <2>1, <3>1, <3>2, <3>3 DEF Stored
  <2>3. ASSUME NEW q \in Procs, q # p
        PROVE  Vouched(q)'
    <3>1. CASE pc'[q] \in Critical
      BY <1>2, <2>1, <2>3, <3>1, OthersStill DEF VouchInv, Vouched, Stored
    <3>2. CASE pc'[q] \notin Critical
      <4>1. pc'[q] \notin Reversible \cup DeployPhases \cup Untried \cup RbUntried \cup Settled
                          \cup RollbackPhases
        BY <3>2, LabelSets
      <4> QED
        BY <3>2, <4>1 DEF Vouched
    <3> QED
      BY <3>1, <3>2
  <2> QED
    BY <2>1, <2>2, <2>3 DEF VouchInv, VouchMove
<1> QED
  BY <1>1, <1>2 DEF Next

LEMMA InitLabels == Init => \A p \in Procs : pc[p] \notin Critical /\ pc[p] = "idle"
BY LabelSets DEF Init

LEMMA VouchInvInit == Init => VouchInv
<1> SUFFICES ASSUME Init PROVE VouchInv
  OBVIOUS
<1>1. Completed = {} /\ validated = {} /\ current = 0
  BY DEF Init, Completed, Absent
<1>2. \A p \in Procs : Vouched(p)
  <2> SUFFICES ASSUME NEW p \in Procs PROVE Vouched(p)
    OBVIOUS
  <2>1. pc[p] \notin Reversible \cup DeployPhases \cup Untried \cup RbUntried \cup Settled
                     \cup RollbackPhases \cup Critical
    BY InitLabels, LabelSets
  <2> QED
    BY <2>1 DEF Vouched
<1> QED
  BY <1>1, <1>2 DEF VouchInv

LEMMA LockInvInit == Init => LockInv
BY InitLabels DEF LockInv

LEMMA ReleaseInvInit == Init => ReleaseInv
<1> SUFFICES ASSUME Init PROVE ReleaseInv
  OBVIOUS
<1>1. Recorded = 1 .. 0 /\ 0 \in 0 .. MaxDeployments
  BY BoundsAssumption DEF Init, Recorded, Absent
<1>2. \A p \in Procs : pc[p] = "idle"
  BY DEF Init
<1>3. "idle" \notin Reversible \cup RollbackPhases \cup OnPrevious \cup OnRelease
                    \cup OnDisk \cup RejectPhases \cup DeployPhases \cup CancelPhases
  BY DEF Reversible, RollbackPhases, OnPrevious, OnRelease, OnDisk, RejectPhases,
         DeployPhases, PreparePhases, TrialPhases, SettlePhases, AbortPhases, CancelPhases
<1>4. Recording
  BY <1>1, <1>2, <1>3 DEF Recording, Init
<1>5. \A p \in Procs : Standing(p)
  BY <1>2, <1>3 DEF Standing
<1> QED
  BY <1>4, <1>5 DEF ReleaseInv, CurrentNeverDangles, Init

\* The invariants so far, and that they are one.
CoreInv == TypeInv /\ LockInv /\ ReleaseInv /\ VouchInv

LEMMA CoreInvInit == Init => CoreInv
BY TypeInvInit, LockInvInit, ReleaseInvInit, VouchInvInit DEF CoreInv

LEMMA CoreInvNext == CoreInv /\ [Next]_vars => CoreInv'
BY TypeInvNext, LockInvNext, ReleaseInvNext, VouchInvNext DEF CoreInv

-----------------------------------------------------------------------------
(* Only validated releases are live between operations.  Whatever fails, a  *)
(* deployment goes back to a validated release once there is one; before,   *)
(* and without faults, it goes back to nothing.                             *)

KnownInv == crashes = 0 =>
    /\ lock # NoProc => pc[lock] \in Critical
    /\ lock = NoProc /\ validated # {} => current \in validated
    /\ \A p \in Procs : pc[p] \in Reversible \cup RollbackPhases /\ validated # {}
                           => job[p].prev \in validated

LEMMA KnownInvNext ==
    ASSUME CoreInv, CoreInv', KnownInv, [Next]_vars
    PROVE  KnownInv'
<1> USE DEF CoreInv
<1>1. CASE UNCHANGED vars
  BY <1>1 DEF vars, host, ghost, KnownInv
<1>2. ASSUME NEW p \in Procs, Request(p) \/ Step(p) \/ Crash(p), crashes' = 0
      PROVE  /\ lock' # NoProc => pc'[lock'] \in Critical
             /\ lock' = NoProc /\ validated' # {} => current' \in validated'
             /\ pc'[p] \in Reversible \cup RollbackPhases /\ validated' # {}
                   => job'[p].prev \in validated'
  <2>1. crashes \in Nat /\ lock \in Procs \cup {NoProc}
    BY DEF TypeInv, TypeOK
  <2>2. ~ Crash(p)
    BY <1>2, <2>1 DEF Crash
  <2>3. \A q \in Procs \ {p} : pc'[q] = pc[q]
    BY <1>2, OthersUnmoved
  <2>4. CASE Begin(p) \/ RbBegin(p)
    <3>1. /\ lock = NoProc /\ lock' = p /\ UNCHANGED <<current, validated, crashes>>
          /\ job'[p].prev = current /\ pc'[p] \in {"source", "rb_start", "rb_activate"}
      BY <2>4, BeginJob, RbBeginJob
    <3>2. pc'[p] \in Critical
      BY <3>1 DEF Critical, DeployPhases, PreparePhases, RollbackPhases
    <3> QED
      BY <1>2, <3>1, <3>2, ProcsAssumption DEF KnownInv
  <2>5. CASE Aside(p)
    <3>1. /\ pc[p] \notin Critical /\ pc'[p] \notin Critical
          /\ UNCHANGED <<current, validated, crashes>>
          /\ lock' = lock \/ (lock = p /\ lock' = NoProc)
      BY <2>5, AsideChanges
    <3>2. lock # p
      BY <1>2, <3>1, ProcsAssumption DEF KnownInv
    <3> QED
      BY <1>2, <2>1, <2>3, <3>1, <3>2, LabelSets DEF KnownInv
  <2>6. CASE CriticalStep(p)
    <3>1. Edge(p) /\ Standing(p) /\ Vouched(p)
      BY <2>6, Edges DEF ReleaseInv, VouchInv
    <3>2. crashes = 0 /\ pc[p] \in Critical /\ lock = p
      BY <1>2, <2>6, <3>1, CriticalStepPhase
         DEF LockInv, Edge, PrepareEdge, ValidateEdge, AbortEdge, RejectEdge, RollbackEdge
    <3>3. pc[p] \in Reversible \cup RollbackPhases /\ validated # {} => job[p].prev \in validated
      BY <3>2 DEF KnownInv
    <3> USE DEF Reversible, Untried, Settled, RbUntried, RbUndone, DeployPhases,
            RollbackPhases, PreparePhases, TrialPhases, SettlePhases, AbortPhases,
            RejectPhases, Critical
    <3>4. CASE PrepareEdge(p)
      BY <3>2, <3>3, <3>4, ProcsAssumption DEF PrepareEdge, Kept
    <3>5. CASE ValidateEdge(p)
      BY <3>1, <3>2, <3>3, <3>5, ProcsAssumption DEF ValidateEdge, Kept, Return, Vouched
    <3>6. CASE AbortEdge(p) \/ RejectEdge(p)
      <4>1. CASE pc'[p] # "idle"
        BY <3>2, <3>3, <3>6, <4>1, ProcsAssumption DEF AbortEdge, RejectEdge, Kept
      <4>2. CASE pc'[p] = "idle"
        <5>1. /\ pc[p] \in OnPrevious /\ validated' = validated
              /\ lock' = IF lock = p THEN NoProc ELSE lock
              /\ current' \in {current, 0}
              /\ current' # current => ~ job[p].restored /\ pc[p] = "reject_cleanup"
          BY <3>6, <4>2 DEF AbortEdge, RejectEdge, Return, OnPrevious
        <5>2. validated # {} => current' = job[p].prev
          BY <3>1, <5>1 DEF Standing
        <5> QED
          BY <3>2, <3>3, <4>2, <5>1, <5>2, LabelSets DEF OnPrevious
      <4> QED
        BY <4>1, <4>2
    <3>7. CASE RollbackEdge(p)
      <4>1. CASE pc'[p] # "idle"
        BY <3>2, <3>3, <3>7, <4>1, ProcsAssumption DEF RollbackEdge, Kept
      <4>2. CASE pc'[p] = "idle"
        BY <3>1, <3>2, <3>3, <3>7, <4>2 DEF RollbackEdge, Return, Vouched
      <4> QED
        BY <4>1, <4>2
    <3> QED
      BY <3>1, <3>4, <3>5, <3>6, <3>7 DEF Edge
  <2> QED
    BY <1>2, <2>2, <2>4, <2>5, <2>6, Kinds
<1>3. ASSUME NEW p \in Procs, Request(p) \/ Step(p) \/ Crash(p), crashes' = 0
      PROVE  \A q \in Procs \ {p} : pc'[q] \in Reversible \cup RollbackPhases /\ validated' # {}
                   => job'[q].prev \in validated'
  <2>1. crashes = 0
    <3>1. crashes \in Nat /\ (crashes' = crashes \/ crashes' = crashes + 1)
      <4>1. crashes \in Nat
        BY DEF TypeInv, TypeOK
      <4>2. CASE Crash(p)
        BY <4>1, <4>2 DEF Crash
      <4>3. CASE Begin(p) \/ RbBegin(p) \/ Aside(p)
        BY <4>1, <4>3, BeginJob, RbBeginJob, AsideChanges
      <4>4. CASE CriticalStep(p)
        BY <4>1, <4>4, Edges
           DEF Edge, PrepareEdge, ValidateEdge, AbortEdge, RejectEdge, RollbackEdge
      <4> QED
        BY <1>3, <4>2, <4>3, <4>4, <4>1, Kinds
    <3> QED
      BY <1>3, <3>1
  <2> TAKE q \in Procs \ {p}
  <2>2. pc'[q] \in Reversible \cup RollbackPhases => pc'[q] \in Critical
    BY LabelSets
  <2> QED
    BY <1>3, <2>1, <2>2, OthersStill DEF KnownInv
<1> QED
  BY <1>1, <1>2, <1>3 DEF Next, KnownInv

LEMMA KnownInvInit == Init => KnownInv
BY InitLabels, LabelSets DEF Init, KnownInv

\* Between operations, once some release was validated, the live one was:
\* whatever nginx or systemctl failed to do, and however operations overlapped.
\* (KnownGoodServed without the time before the first validated release.)
THEOREM LiveWasValidated ==
    Spec => [](lock = NoProc /\ crashes = 0 /\ validated # {} => current \in validated)
<1>1. Init => CoreInv /\ KnownInv
  BY CoreInvInit, KnownInvInit
<1>2. CoreInv /\ KnownInv /\ [Next]_vars => CoreInv' /\ KnownInv'
  BY CoreInvNext, KnownInvNext
<1>3. CoreInv /\ KnownInv =>
          (lock = NoProc /\ crashes = 0 /\ validated # {} => current \in validated)
  BY DEF KnownInv
<1> QED
  BY <1>1, <1>2, <1>3, PTL DEF Spec

\* Until then, and without faults of nginx and systemctl, nothing is live.
First(p) ==
    /\ pc[p] \in Critical => /\ job[p].prev = 0 /\ ~ job[p].restored
                             /\ pc[p] \notin RollbackPhases \cup {"abort_restore"}
    /\ pc[p] \in AbortPhases => current = 0

FirstInv == crashes = 0 /\ validated = {} =>
    /\ lock = NoProc => current = 0
    /\ health \notin {"healthy", "healthy_after_rollback"}
    /\ \A p \in Procs : First(p)

LEMMA FirstInvInit == Init => FirstInv
BY InitLabels, LabelSets DEF Init, FirstInv, First

LEMMA CrashesGrow ==
    ASSUME TypeInv, NEW p \in Procs, Request(p) \/ Step(p) \/ Crash(p), crashes' = 0
    PROVE  crashes = 0 /\ ~ Crash(p)
<1>1. crashes \in Nat
  BY DEF TypeInv, TypeOK
<1>2. ~ Crash(p)
  BY <1>1 DEF Crash
<1>3. CASE Begin(p) \/ RbBegin(p) \/ Aside(p)
  <2>1. crashes = 0
    BY <1>3, BeginJob, RbBeginJob, AsideChanges
  <2> QED
    BY <1>2, <2>1
<1>4. CASE CriticalStep(p)
  <2>1. crashes = 0
    BY <1>4, Edges
       DEF Edge, PrepareEdge, ValidateEdge, AbortEdge, RejectEdge, RollbackEdge
  <2> QED
    BY <1>2, <2>1
<1> QED
  BY <1>2, <1>3, <1>4, Kinds

LEMMA FirstInvNext ==
    ASSUME ~ NginxFaults, ~ UnitFaults,
           CoreInv, CoreInv', KnownInv, FirstInv, [Next]_vars
    PROVE  FirstInv'
<1> USE DEF CoreInv
<1>1. CASE UNCHANGED vars
  BY <1>1 DEF vars, record, host, ghost, FirstInv, First
<1>2. ASSUME NEW p \in Procs, Request(p) \/ Step(p) \/ Crash(p),
             crashes' = 0, validated' = {}
      PROVE  FirstInv'
  <2>1. crashes = 0 /\ ~ Crash(p)
    BY <1>2, CrashesGrow
  <2>2. validated = {}
    BY <1>2, MoveVouches DEF VouchMove
  <2>3. /\ lock = NoProc => current = 0
        /\ health \notin {"healthy", "healthy_after_rollback"}
        /\ First(p)
    BY <2>1, <2>2 DEF FirstInv
  <2>4. \A q \in Procs \ {p} : First(q)'
    <3> SUFFICES ASSUME NEW q \in Procs \ {p} PROVE First(q)'
      OBVIOUS
    <3>1. CASE pc'[q] \in Critical
      BY <1>2, <2>1, <2>2, <3>1, OthersStill DEF FirstInv, First
    <3>2. CASE pc'[q] \notin Critical
      BY <3>2, LabelSets DEF First
    <3> QED
      BY <3>1, <3>2
  <2>5. /\ lock' = NoProc => current' = 0
        /\ health' \notin {"healthy", "healthy_after_rollback"}
        /\ First(p)'
    <3>1. CASE Begin(p)
      <4>1. pc'[p] = "source" /\ "source" \notin AbortPhases \cup RollbackPhases
        BY <3>1, BeginJob DEF AbortPhases, RollbackPhases
      <4> QED
        BY <2>3, <3>1, <4>1, BeginJob, ProcsAssumption DEF First
    <3>2. ~ RbBegin(p)
      <4> SUFFICES ASSUME RbBegin(p) PROVE FALSE
        OBVIOUS
      <4> QED
        BY <2>2, RbBeginJob DEF VouchInv
    <3>3. CASE Aside(p)
      <4>1. /\ pc[p] \notin Critical /\ pc'[p] \notin Critical
            /\ UNCHANGED <<current, health>>
            /\ lock' = lock \/ (lock = p /\ lock' = NoProc)
        BY <3>3, AsideChanges
      <4>2. lock # p
        BY <2>1, <4>1, ProcsAssumption DEF KnownInv
      <4> QED
        BY <2>3, <4>1, <4>2, LabelSets DEF First
    <3>4. CASE CriticalStep(p)
      <4>1. Edge(p) /\ Vouched(p) /\ pc[p] \in Critical /\ lock = p
        BY <3>4, Edges, CriticalStepPhase DEF VouchInv, LockInv
      <4>2. /\ job[p].prev = 0 /\ ~ job[p].restored /\ 0 \notin dirs
            /\ pc[p] \notin RollbackPhases \cup {"abort_restore"} \cup Settled
        BY <2>2, <2>3, <4>1 DEF First, TypeInv, TypeOK, Ids, Vouched
      <4> USE DEF Reversible, Untried, Settled, DeployPhases,
              RollbackPhases, PreparePhases, TrialPhases, SettlePhases, AbortPhases,
              RejectPhases, Critical
      <4>3. CASE PrepareEdge(p)
        BY <2>3, <4>1, <4>2, <4>3, ProcsAssumption DEF PrepareEdge, Kept, First, Vouched
      <4>4. CASE ValidateEdge(p)
        BY <1>2, <2>3, <4>1, <4>2, <4>4, ProcsAssumption DEF ValidateEdge, Kept, First
      <4>5. CASE AbortEdge(p)
        BY <2>3, <4>1, <4>2, <4>5, ProcsAssumption DEF AbortEdge, Kept, First, Return
      <4>6. CASE RejectEdge(p)
        BY <2>3, <4>1, <4>2, <4>6, ProcsAssumption
           DEF RejectEdge, Kept, First, Return, Restores
      <4>7. ~ RollbackEdge(p)
        BY <4>2 DEF RollbackEdge
      <4> QED
        BY <4>1, <4>3, <4>4, <4>5, <4>6, <4>7 DEF Edge
    <3> QED
      BY <1>2, <2>1, <3>1, <3>2, <3>3, <3>4, Kinds
  <2> QED
    BY <2>4, <2>5 DEF FirstInv
<1> QED
  BY <1>1, <1>2 DEF Next, FirstInv

\* Between operations `current' names nothing or a validated release, if nothing
\* crashed and nginx and systemctl do what they are told.
THEOREM OnlyKnownGoodServed ==
    ASSUME ~ NginxFaults, ~ UnitFaults
    PROVE  Spec => []KnownGoodServed
<1>1. Init => CoreInv /\ KnownInv /\ FirstInv
  BY CoreInvInit, KnownInvInit, FirstInvInit
<1>2. CoreInv /\ KnownInv /\ FirstInv /\ [Next]_vars => CoreInv' /\ KnownInv' /\ FirstInv'
  BY CoreInvNext, KnownInvNext, FirstInvNext
<1>3. CoreInv /\ KnownInv /\ FirstInv => KnownGoodServed
  BY DEF KnownInv, FirstInv, KnownGoodServed
<1> QED
  BY <1>1, <1>2, <1>3, PTL DEF Spec

\* The reported health is no better than the live release, under the same
\* conditions: healthy means that something was validated, and then it is live.
THEOREM HealthIsHonest ==
    ASSUME ~ NginxFaults, ~ UnitFaults
    PROVE  Spec => []HealthNotOverstated
<1>1. Init => CoreInv /\ KnownInv /\ FirstInv
  BY CoreInvInit, KnownInvInit, FirstInvInit
<1>2. CoreInv /\ KnownInv /\ FirstInv /\ [Next]_vars => CoreInv' /\ KnownInv' /\ FirstInv'
  BY CoreInvNext, KnownInvNext, FirstInvNext
<1>3. CoreInv /\ KnownInv /\ FirstInv => HealthNotOverstated
  BY DEF KnownInv, FirstInv, HealthNotOverstated
<1> QED
  BY <1>1, <1>2, <1>3, PTL DEF Spec

-----------------------------------------------------------------------------
(* Cancellations.  A marker left in time keeps the deployment out of the    *)
(* phases after the next look at it, and keeps everybody from going back    *)
(* to its release.                                                          *)

Cancelled(p) ==
    /\ pc[p] \in Critical /\ job[p].prev \in Ids => cancelPoint[job[p].prev] # "preparing"
    /\ pc[p] \in DeployPhases /\ cancelPoint[job[p].id] = "preparing" =>
          pc[p] \in PreparePhases \cup {"abort_remove", "abort_record", "abort_health"}
    /\ pc[p] \in DeployPhases /\ cancelPoint[job[p].id] = "on_trial" =>
          pc[p] \in TrialPhases \cup AbortPhases \cup RejectPhases

CancelInv ==
    /\ CancelHonoured
    /\ \A d \in Ids : cancelPoint[d] # "none" => d \in markers /\ d \in Recorded
    /\ \A p \in Procs : Cancelled(p)

LEMMA CancelInvInit == Init => CancelInv
<1> SUFFICES ASSUME Init PROVE CancelInv
  OBVIOUS
<1>1. \A p \in Procs : Cancelled(p)
  BY InitLabels, LabelSets DEF Cancelled
<1> QED
  BY <1>1 DEF Init, CancelInv, CancelHonoured

\* What the process under the lock does to its own standing and to the releases.
CancelMove(p) ==
    /\ Cancelled(p)'
    /\ current' \in Ids => cancelPoint[current'] # "preparing"
    /\ \A d \in validated' : cancelPoint[d] \notin {"preparing", "on_trial"}

LEMMA PrepareHonours ==
    ASSUME CoreInv, CancelInv, NEW p \in Procs, PrepareEdge(p)
    PROVE  CancelMove(p)
<1> USE DEF DeployPhases, PreparePhases, TrialPhases, SettlePhases, AbortPhases,
        RejectPhases, Critical, Reversible
<1>1. /\ Cancelled(p) /\ Kept(p) /\ validated' = validated /\ cancelPoint' = cancelPoint
      /\ \A d \in validated : cancelPoint[d] \notin {"preparing", "on_trial"}
      /\ current \in Ids => cancelPoint[current] # "preparing"
  BY DEF CancelInv, CancelHonoured, CoreInv, TypeInv, TypeOK, PrepareEdge
<1>2. /\ pc[p] \in Reversible => job[p].release = job[p].id
      /\ pc[p] # "idle" => job[p].id \in Ids
      /\ job[p].id \in Ids /\ job[p].id \notin markers => cancelPoint[job[p].id] = "none"
  BY DEF CoreInv, ReleaseInv, Standing, TypeInv, ActiveJobs, CancelInv
<1>3. CASE pc[p] \in PreparePhases
  <2>1. /\ current' = current
        /\ \/ pc'[p] \in PreparePhases \cup {"abort_remove"}
           \/ pc'[p] = "start" /\ job[p].id \notin markers
    BY <1>3 DEF PrepareEdge
  <2> QED
    BY <1>1, <1>2, <1>3, <2>1 DEF Cancelled, CancelMove, Kept
<1>4. CASE pc[p] \in {"start", "ready", "switch"}
  <2>1. /\ current' = current
        /\ pc'[p] \in {"ready", "activate", "health", "abort_remove", "abort_upstream",
                       "abort_restore"}
    BY <1>4 DEF PrepareEdge
  <2> QED
    BY <1>1, <1>2, <1>4, <2>1 DEF Cancelled, CancelMove, Kept
<1>5. CASE pc[p] = "activate"
  <2>1. current' = job[p].release /\ pc'[p] \in {"switch", "health"}
    BY <1>5 DEF PrepareEdge
  <2> QED
    BY <1>1, <1>2, <1>5, <2>1 DEF Cancelled, CancelMove, Kept
<1> QED
  BY <1>3, <1>4, <1>5 DEF PrepareEdge

LEMMA ValidateHonours ==
    ASSUME CoreInv, CancelInv, NEW p \in Procs, ValidateEdge(p)
    PROVE  CancelMove(p)
<1> USE DEF DeployPhases, PreparePhases, TrialPhases, SettlePhases, AbortPhases,
        RejectPhases, Critical, CancelMove
<1>1. /\ Cancelled(p) /\ current' = current /\ cancelPoint' = cancelPoint
      /\ \A d \in validated : cancelPoint[d] \notin {"preparing", "on_trial"}
      /\ current \in Ids => cancelPoint[current] # "preparing"
  BY DEF CancelInv, CancelHonoured, CoreInv, TypeInv, TypeOK, ValidateEdge
<1>2. /\ pc[p] # "idle" => job[p].id \in Ids
      /\ job[p].id \in Ids /\ job[p].id \notin markers => cancelPoint[job[p].id] = "none"
  BY DEF CoreInv, TypeInv, ActiveJobs, CancelInv
<1>3. CASE pc'[p] = "idle"
  BY <1>1, <1>3, LabelSets DEF ValidateEdge, Cancelled, RollbackPhases
<1>4. CASE pc[p] = "complete"
  <2>1. pc'[p] = "mark_healthy" /\ validated' = validated \cup {job[p].id} /\ Kept(p)
    BY <1>4 DEF ValidateEdge
  <2> QED
    BY <1>1, <1>2, <1>4, <2>1 DEF Cancelled, Kept
<1>5. CASE pc[p] = "health"
  <2>1. /\ \/ pc'[p] = "reject_restore"
           \/ pc'[p] = "post_deploy" /\ job[p].id \notin markers
        /\ validated' = validated /\ Kept(p)
    BY <1>5 DEF ValidateEdge
  <2> QED
    BY <1>1, <1>2, <1>5, <2>1 DEF Cancelled, Kept
<1>6. CASE pc[p] \in {"post_deploy", "post_command", "mark_healthy", "drain"} /\ pc'[p] # "idle"
  <2>1. /\ pc'[p] \in {"post_deploy", "post_command", "complete", "reject_restore", "drain",
                       "prune"}
        /\ validated' = validated /\ Kept(p)
    BY <1>6 DEF ValidateEdge
  <2> QED
    BY <1>1, <1>6, <2>1 DEF Cancelled, Kept
<1> QED
  BY <1>3, <1>4, <1>5, <1>6 DEF ValidateEdge

LEMMA AbortHonours ==
    ASSUME CoreInv, CancelInv, NEW p \in Procs, AbortEdge(p) \/ RejectEdge(p)
    PROVE  CancelMove(p)
<1> USE DEF DeployPhases, PreparePhases, TrialPhases, SettlePhases, AbortPhases,
        RejectPhases, Critical, RollbackPhases
<1>1. /\ Cancelled(p) /\ validated' = validated /\ cancelPoint' = cancelPoint
      /\ \A d \in validated : cancelPoint[d] \notin {"preparing", "on_trial"}
      /\ current \in Ids => cancelPoint[current] # "preparing"
  BY DEF CancelInv, CancelHonoured, CoreInv, TypeInv, TypeOK, AbortEdge, RejectEdge
<1>2. /\ pc[p] \in AbortPhases \cup RejectPhases
      /\ \/ pc'[p] = "idle"
         \/ /\ Kept(p) /\ pc'[p] \in AbortPhases \cup RejectPhases
            /\ pc[p] \in {"abort_remove", "abort_record", "abort_health"} =>
                  pc'[p] \in {"abort_record", "abort_health"}
  BY DEF AbortEdge, RejectEdge
<1>3. current' \in {current, job[p].prev, 0}
  BY DEF AbortEdge, RejectEdge, Restores
<1>4. Cancelled(p)'
  <2>1. CASE pc'[p] = "idle"
    BY <2>1 DEF Cancelled
  <2>2. CASE pc'[p] # "idle"
    BY <1>1, <1>2, <2>2 DEF Cancelled, Kept
  <2> QED
    BY <2>1, <2>2
<1>5. current' \in Ids => cancelPoint[current'] # "preparing"
  BY <1>1, <1>2, <1>3 DEF Cancelled, Ids
<1> QED
  BY <1>1, <1>4, <1>5 DEF CancelMove

LEMMA RollbackHonours ==
    ASSUME CoreInv, CancelInv, NEW p \in Procs, RollbackEdge(p)
    PROVE  CancelMove(p)
<1>1. /\ Cancelled(p) /\ validated' = validated /\ cancelPoint' = cancelPoint
      /\ \A d \in validated : cancelPoint[d] \notin {"preparing", "on_trial"}
      /\ current \in Ids => cancelPoint[current] # "preparing"
  BY DEF CancelInv, CancelHonoured, CoreInv, TypeInv, TypeOK, RollbackEdge
<1>2. /\ pc[p] \in RollbackPhases /\ job[p].release \in validated
      /\ \/ pc'[p] = "idle"
         \/ Kept(p) /\ pc'[p] \in RollbackPhases
  BY DEF CoreInv, VouchInv, Vouched, RollbackEdge, RollbackPhases, RbUndone
<1>3. current' \in {current, job[p].prev, job[p].release}
  BY DEF RollbackEdge
<1> QED
  BY <1>1, <1>2, <1>3, LabelSets DEF Cancelled, CancelMove, Kept

\* Beside the lock, and when a process is killed, only a marker may appear.
LEMMA AsideMarks ==
    ASSUME TypeInv, ReleaseInv, NEW p \in Procs, Aside(p) \/ Crash(p)
    PROVE  /\ pc'[p] \notin Critical /\ UNCHANGED <<current, validated>>
           /\ \/ UNCHANGED <<markers, cancelPoint>>
              \/ /\ job[p].id \in Recorded /\ job[p].id \in Ids /\ pc[p] \notin Critical
                 /\ markers' = markers \cup {job[p].id}
                 /\ cancelPoint' = IF job[p].id \in markers THEN cancelPoint
                                   ELSE [cancelPoint EXCEPT ![job[p].id] = Progress(job[p].id)]
<1>1. CASE Crash(p)
  <2>1. pc'[p] = "idle"
    BY <1>1 DEF Crash, Return, Goto, TypeInv, TypeOK
  <2> QED
    BY <1>1, <2>1, LabelSets DEF Crash, host, record
<1>2. CASE CancelMark(p)
  <2>1. pc[p] \in CancelPhases /\ pc[p] # "idle"
    BY <1>2 DEF CancelMark, CancelPhases
  <2>2. Aside(p)
    BY <1>2 DEF Aside, CancelStep
  <2> QED
    BY <1>2, <2>1, <2>2, AsideChanges DEF CancelMark, ReleaseInv, Recording, TypeInv, ActiveJobs
<1>3. CASE CancelSave(p) \/ \E d \in Ids : CancelLoad(p, d)
  <2>1. Aside(p)
    BY <1>3 DEF Aside, CancelStep
  <2> QED
    BY <1>3, <2>1, AsideChanges DEF CancelSave, CancelLoad, ghost, record
<1> QED
  BY <1>1, <1>2, <1>3 DEF Aside, CancelStep

\* A deployment that is marked as being prepared, or on trial, is: its process
\* holds the lock.
LEMMA ProgressWitness ==
    ASSUME NEW d \in Ids
    PROVE  /\ Progress(d) = "preparing" =>
                 \E q \in Procs : job[q].id = d /\ pc[q] \in PreparePhases
           /\ Progress(d) = "on_trial" =>
                 \E q \in Procs : job[q].id = d /\ pc[q] \in TrialPhases
<1> DEFINE At(labels) == \E q \in Procs : job[q].id = d /\ pc[q] \in labels
<1>1. Progress(d) = CASE At(PreparePhases) -> "preparing"
                      [] At(TrialPhases)   -> "on_trial"
                      [] At({"post_deploy", "post_command"}) -> "post_deploy"
                      [] OTHER -> "late"
  BY DEF Progress
<1> HIDE DEF At
<1>2. /\ Progress(d) = "preparing" => At(PreparePhases)
      /\ Progress(d) = "on_trial" => At(TrialPhases)
  BY <1>1
<1> QED
  BY <1>2 DEF At

LEMMA CancelInvNext ==
    ASSUME CoreInv, CancelInv, [Next]_vars
    PROVE  CancelInv'
<1> USE DEF CoreInv
<1>1. CASE UNCHANGED vars
  BY <1>1 DEF vars, record, host, ghost, CancelInv, CancelHonoured, Cancelled, Recorded
<1>2. ASSUME NEW p \in Procs, Request(p) \/ Step(p) \/ Crash(p)
      PROVE  CancelInv'
  <2>1. Recorded \subseteq Recorded'
    BY <1>2, StoreSteps DEF Stored
  <2>2. CASE CriticalStep(p) \/ Begin(p) \/ RbBegin(p)
    <3>1. UNCHANGED <<markers, cancelPoint>>
      BY <2>2, Edges, BeginJob, RbBeginJob
         DEF Edge, PrepareEdge, ValidateEdge, AbortEdge, RejectEdge, RollbackEdge
    <3>2. CancelMove(p)
      <4>1. CASE CriticalStep(p)
        BY <4>1, Edges, PrepareHonours, ValidateHonours, AbortHonours, RollbackHonours
           DEF Edge
      <4>2. CASE Begin(p) \/ RbBegin(p)
        <5>1. /\ current \in Ids => cancelPoint[current] # "preparing"
              /\ \A d \in validated : cancelPoint[d] \notin {"preparing", "on_trial"}
          BY DEF CancelInv, CancelHonoured, TypeInv, TypeOK
        <5>2. NextId \in Ids => cancelPoint[NextId] = "none"
          <6>1. PICK n \in 0 .. MaxDeployments : Recorded = 1 .. n
            BY DEF ReleaseInv, Recording
          <6> QED
            BY <6>1, NextIdFresh DEF CancelInv
        <5>3. /\ job'[p].prev = current /\ job'[p].id = NextId /\ NextId \in Ids
              /\ UNCHANGED <<current, validated>>
          BY <4>2, BeginJob, RbBeginJob
        <5> QED
          BY <3>1, <5>1, <5>2, <5>3 DEF CancelMove, Cancelled
      <4> QED
        BY <2>2, <4>1, <4>2
    <3>3. \A q \in Procs \ {p} : Cancelled(q)'
      <4> SUFFICES ASSUME NEW q \in Procs \ {p} PROVE Cancelled(q)'
        OBVIOUS
      <4>1. CASE pc'[q] \in Critical
        BY <1>2, <3>1, <4>1, OthersStill DEF CancelInv, Cancelled
      <4>2. CASE pc'[q] \notin Critical
        BY <4>2, LabelSets DEF Cancelled
      <4> QED
        BY <4>1, <4>2
    <3> QED
      BY <2>1, <3>1, <3>2, <3>3 DEF CancelInv, CancelHonoured, CancelMove
  <2>3. CASE (Aside(p) \/ Crash(p)) /\ UNCHANGED <<markers, cancelPoint>>
    <3>1. pc'[p] \notin Critical /\ UNCHANGED <<current, validated>>
      BY <2>3, AsideMarks
    <3>2. \A q \in Procs : Cancelled(q)'
      <4> SUFFICES ASSUME NEW q \in Procs PROVE Cancelled(q)'
        OBVIOUS
      <4>1. CASE pc'[q] \in Critical
        BY <1>2, <2>3, <3>1, <4>1, OthersStill DEF CancelInv, Cancelled
      <4>2. CASE pc'[q] \notin Critical
        BY <4>2, LabelSets DEF Cancelled
      <4> QED
        BY <4>1, <4>2
    <3> QED
      BY <2>1, <2>3, <3>1, <3>2 DEF CancelInv, CancelHonoured
  <2>4. CASE (Aside(p) \/ Crash(p)) /\ ~ UNCHANGED <<markers, cancelPoint>>
    <3> DEFINE d == job[p].id
    <3>1. /\ pc'[p] \notin Critical /\ UNCHANGED <<current, validated>>
          /\ d \in Recorded /\ d \in Ids /\ pc[p] \notin Critical
          /\ markers' = markers \cup {d}
          /\ cancelPoint' = IF d \in markers THEN cancelPoint
                            ELSE [cancelPoint EXCEPT ![d] = Progress(d)]
      BY <2>4, AsideMarks
    <3> HIDE DEF d
    <3>2. /\ \A e \in Ids \ {d} : cancelPoint'[e] = cancelPoint[e]
          /\ cancelPoint'[d] = cancelPoint[d] \/ cancelPoint'[d] = Progress(d)
      BY <3>1 DEF TypeInv, TypeOK
    \* If that changes what is recorded of d, its process is where it says.
    <3>3. ASSUME cancelPoint'[d] # cancelPoint[d], cancelPoint'[d] \in {"preparing", "on_trial"}
          PROVE  \E q \in Procs : /\ job[q].id = d
                                  /\ \/ cancelPoint'[d] = "preparing" /\ pc[q] \in PreparePhases
                                     \/ cancelPoint'[d] = "on_trial" /\ pc[q] \in TrialPhases
      BY <3>1, <3>2, <3>3, ProgressWitness
    <3>4. /\ cancelPoint'[d] = "preparing" => current # d
          /\ cancelPoint'[d] \in {"preparing", "on_trial"} => d \notin validated
      <4>1. CASE cancelPoint'[d] = cancelPoint[d]
        BY <3>1, <4>1 DEF CancelInv, CancelHonoured
      <4>2. CASE cancelPoint'[d] # cancelPoint[d] /\ cancelPoint'[d] \in {"preparing", "on_trial"}
        <5>1. PICK q \in Procs :
                  /\ job[q].id = d
                  /\ \/ cancelPoint'[d] = "preparing" /\ pc[q] \in PreparePhases
                     \/ cancelPoint'[d] = "on_trial" /\ pc[q] \in TrialPhases
          BY <3>3, <4>2
        <5>2. pc[q] \in Reversible /\ pc[q] \in DeployPhases
          BY <5>1 DEF Reversible, DeployPhases, PreparePhases, TrialPhases
        <5> QED
          BY <5>1, <5>2 DEF VouchInv, Vouched, Untried
      <4> QED
        BY <4>1, <4>2
    <3>5. ASSUME NEW q \in Procs
          PROVE  Cancelled(q)'
      <4>1. CASE pc'[q] \notin Critical
        BY <4>1, LabelSets DEF Cancelled
      <4>2. CASE pc'[q] \in Critical
        <5>1. /\ q # p /\ pc'[q] = pc[q] /\ job'[q] = job[q] /\ lock = q
          BY <1>2, <3>1, <4>2, OthersStill
        <5>2. Cancelled(q) /\ Vouched(q)
          BY DEF CancelInv, VouchInv
        <5>3. CASE cancelPoint'[d] = cancelPoint[d]
          <6>1. job[q].prev \in Ids => cancelPoint'[job[q].prev] = cancelPoint[job[q].prev]
            BY <3>2, <5>3
          <6>2. job[q].id \in Ids /\ cancelPoint'[job[q].id] = cancelPoint[job[q].id]
            <7>1. job[q].id \in Ids
              BY <4>2, <5>1 DEF TypeInv, ActiveJobs, Critical, DeployPhases, RollbackPhases,
                 PreparePhases, TrialPhases, SettlePhases, AbortPhases, RejectPhases
            <7> QED
              BY <3>2, <5>3, <7>1
          <6> QED
            BY <5>1, <5>2, <6>1, <6>2 DEF Cancelled
        <5>4. CASE cancelPoint'[d] # cancelPoint[d] /\ cancelPoint'[d] \in {"preparing", "on_trial"}
          <6>1. PICK r \in Procs :
                    /\ job[r].id = d
                    /\ \/ cancelPoint'[d] = "preparing" /\ pc[r] \in PreparePhases
                       \/ cancelPoint'[d] = "on_trial" /\ pc[r] \in TrialPhases
            BY <3>3, <5>4
          <6>2. pc[r] \in Critical /\ pc[r] \in DeployPhases
            BY <6>1 DEF Critical, DeployPhases
          <6>3. r = q
            BY <5>1, <6>2 DEF LockInv
          <6>4. job[q].prev # d
            BY <5>2, <6>1, <6>2, <6>3 DEF Vouched
          <6>5. job[q].prev \in Ids => cancelPoint'[job[q].prev] = cancelPoint[job[q].prev]
            BY <3>2, <6>4
          <6> QED
            BY <5>1, <5>2, <6>1, <6>3, <6>5 DEF Cancelled
        <5>5. CASE cancelPoint'[d] \notin {"preparing", "on_trial"}
          <6>1. \A e \in Ids : cancelPoint'[e] \in {"preparing", "on_trial"}
                                  => cancelPoint'[e] = cancelPoint[e]
            BY <3>2, <5>5
          <6>2. job[q].id \in Ids
            BY <4>2, <5>1 DEF TypeInv, ActiveJobs, Critical, DeployPhases, RollbackPhases,
               PreparePhases, TrialPhases, SettlePhases, AbortPhases, RejectPhases
          <6> QED
            BY <5>1, <5>2, <6>1, <6>2 DEF Cancelled
        <5> QED
          BY <5>3, <5>4, <5>5
      <4> QED
        BY <4>1, <4>2
    <3>6. \A e \in Ids : cancelPoint'[e] # "none" => e \in markers' /\ e \in Recorded'
      BY <2>1, <3>1, <3>2 DEF CancelInv
    <3>7. CancelHonoured'
      <4>1. \A e \in Ids \ {d} : /\ cancelPoint'[e] = "preparing" => current' # e
                                 /\ cancelPoint'[e] \in {"preparing", "on_trial"}
                                       => e \notin validated'
        BY <3>1, <3>2 DEF CancelInv, CancelHonoured
      <4> QED
        BY <3>1, <3>4, <4>1 DEF CancelHonoured
    <3> QED
      BY <3>5, <3>6, <3>7 DEF CancelInv
  <2> QED
    BY <1>2, <2>2, <2>3, <2>4, Kinds
<1> QED
  BY <1>1, <1>2 DEF Next

\* A deployment cancelled before its activation never goes live, and one
\* cancelled before its health gate is never completed: whatever fails,
\* whoever crashes, and whichever operations follow.
THEOREM CancellationsHonoured == Spec => []CancelHonoured
<1>1. Init => CoreInv /\ CancelInv
  BY CoreInvInit, CancelInvInit
<1>2. CoreInv /\ CancelInv /\ [Next]_vars => CoreInv' /\ CancelInv'
  BY CoreInvNext, CancelInvNext
<1>3. CancelInv => CancelHonoured
  BY DEF CancelInv
<1> QED
  BY <1>1, <1>2, <1>3, PTL DEF Spec

-----------------------------------------------------------------------------
(* The lifecycle implements the release gate.  Each edge is one of the      *)
(* gate's actions or leaves its variables alone; an operation that ends     *)
(* leaves the release it validated, or the one it found.                    *)

\* What a step under the lock may do to them: nothing; put the candidate on
\* trial; accept it; go back; or end the operation.
GateMove(p) ==
    \/ /\ lock' = p /\ job'[p].prev = job[p].prev
       /\ \/ UNCHANGED <<current, validated>>
          \/ /\ current = job[p].prev /\ current' \in Ids /\ current' # job[p].prev
             /\ validated' = validated
          \/ /\ current \in Ids /\ current # job[p].prev
             /\ validated' = validated \cup {current} /\ current' = current
          \/ current' = job[p].prev /\ validated' = validated
    \/ /\ lock' = NoProc /\ validated' = validated
       /\ current' \in {current, job[p].prev} \cap (validated \cup {job[p].prev})

LEMMA GateMoves ==
    ASSUME NEW p \in Procs, lock = p, GateMove(p)
    PROVE  Gate!GateNext \/ UNCHANGED Gate!gateVars
<1>1. lock # NoProc
  BY ProcsAssumption
<1>2. CASE lock' = p /\ job'[p].prev = job[p].prev /\ UNCHANGED <<current, validated>>
  BY <1>1, <1>2 DEF Gate!gateVars
<1>3. CASE /\ lock' = p /\ job'[p].prev = job[p].prev
           /\ current = job[p].prev /\ current' \in Ids /\ current' # job[p].prev
           /\ validated' = validated
  <2>1. Gate!Try(current')
    BY <1>1, <1>3 DEF Gate!Try
  <2> QED
    BY <1>3, <2>1 DEF Gate!GateNext
<1>4. CASE /\ lock' = p /\ job'[p].prev = job[p].prev
           /\ current \in Ids /\ current # job[p].prev
           /\ validated' = validated \cup {current} /\ current' = current
  BY <1>1, <1>4 DEF Gate!GateNext, Gate!Accept
<1>5. CASE /\ lock' = p /\ job'[p].prev = job[p].prev
           /\ current' = job[p].prev /\ validated' = validated
  BY <1>1, <1>5 DEF Gate!GateNext, Gate!Restore
<1>6. CASE /\ lock' = NoProc /\ validated' = validated
           /\ current' \in {current, job[p].prev} \cap (validated \cup {job[p].prev})
  BY <1>1, <1>6 DEF Gate!GateNext, Gate!Finish
<1> QED
  BY <1>2, <1>3, <1>4, <1>5, <1>6 DEF GateMove

LEMMA EdgesMoveTheGate ==
    ASSUME ~ NginxFaults, ~ UnitFaults, CoreInv, FirstInv, crashes = 0,
           NEW p \in Procs, lock = p, pc[p] \in Critical, Edge(p)
    PROVE  GateMove(p)
<1> USE DEF CoreInv, Reversible, Untried, Settled, RbUntried, RbUndone, DeployPhases,
        RollbackPhases, PreparePhases, TrialPhases, SettlePhases, AbortPhases,
        RejectPhases, Critical
<1>1. Vouched(p) /\ Standing(p)
  BY DEF VouchInv, ReleaseInv
<1>2. job[p].release \in Ids /\ job[p].id \in Ids /\ current \in Ids \cup {0} /\ 0 \notin dirs
  BY DEF TypeInv, TypeOK, ActiveJobs, Ids, IdsOrNone
<1>3. validated = {} => /\ job[p].prev = 0 /\ ~ job[p].restored
                        /\ pc[p] \notin RollbackPhases \cup {"abort_restore"}
                        /\ pc[p] \in AbortPhases => current = 0
  BY DEF FirstInv, First
<1>4. CASE PrepareEdge(p)
  <2>1. CASE pc[p] = "activate"
    <3>1. current' = job[p].release /\ validated' = validated /\ Kept(p)
      BY <1>4, <2>1 DEF PrepareEdge
    <3>2. current = job[p].prev /\ job[p].release # job[p].prev
      BY <1>1, <2>1 DEF Vouched, Standing
    <3> QED
      BY <1>2, <3>1, <3>2 DEF GateMove, Kept
  <2>2. CASE pc[p] # "activate"
    BY <1>4, <2>2 DEF PrepareEdge, GateMove, Kept
  <2> QED
    BY <2>1, <2>2
<1>5. CASE ValidateEdge(p)
  <2>1. CASE pc[p] = "complete"
    <3>1. current' = current /\ validated' = validated \cup {job[p].id} /\ Kept(p)
      BY <1>5, <2>1 DEF ValidateEdge
    <3>2. current = job[p].id /\ job[p].prev # job[p].id
      BY <1>1, <2>1 DEF Vouched, Standing, OnRelease
    <3> QED
      BY <1>2, <3>1, <3>2 DEF GateMove, Kept
  <2>2. CASE pc[p] = "prune"
    <3>1. current' = current /\ validated' = validated /\ lock' = NoProc
      BY <1>5, <2>2 DEF ValidateEdge, Return
    <3>2. current \in validated
      BY <1>1, <2>2 DEF Vouched
    <3> QED
      BY <3>1, <3>2 DEF GateMove
  <2>3. CASE pc[p] \notin {"complete", "prune"}
    BY <1>5, <2>3 DEF ValidateEdge, GateMove, Kept
  <2> QED
    BY <2>1, <2>2, <2>3
<1>6. CASE AbortEdge(p)
  <2>1. CASE pc[p] = "abort_health"
    <3>1. current' = current /\ validated' = validated /\ lock' = NoProc
      BY <1>6, <2>1 DEF AbortEdge, Return
    <3>2. current = job[p].prev
      BY <1>1, <1>3, <2>1 DEF Standing, OnPrevious
    <3> QED
      BY <3>1, <3>2 DEF GateMove
  <2>2. CASE pc[p] # "abort_health"
    BY <1>6, <2>2 DEF AbortEdge, GateMove, Kept, Restores
  <2> QED
    BY <2>1, <2>2
<1>7. CASE RejectEdge(p)
  <2>1. CASE pc[p] = "reject_cleanup"
    <3>1. /\ validated' = validated /\ lock' = NoProc
          /\ current' = IF job[p].restored THEN current ELSE 0
      BY <1>7, <2>1 DEF RejectEdge, Return
    <3>2. /\ job[p].restored => current = job[p].prev
          /\ ~ job[p].restored => job[p].prev = 0
      BY <1>1, <1>3, <2>1 DEF Standing, OnPrevious
    <3> QED
      BY <3>1, <3>2 DEF GateMove
  <2>2. CASE pc[p] # "reject_cleanup"
    BY <1>7, <2>2 DEF RejectEdge, GateMove, Kept, Restores
  <2> QED
    BY <2>1, <2>2
<1>8. CASE RollbackEdge(p)
  <2>1. CASE pc'[p] = "idle"
    <3>1. current' = current /\ validated' = validated /\ lock' = NoProc
      BY <1>8, <2>1 DEF RollbackEdge, Return
    <3>2. pc[p] \in {"rb_start", "rb_abandon", "rb_healthy"}
      BY <1>8, <2>1 DEF RollbackEdge
    <3>3. current = job[p].prev \/ current \in validated
      BY <1>1, <3>2 DEF Vouched
    <3> QED
      BY <3>1, <3>3 DEF GateMove
  <2>2. CASE pc[p] = "rb_activate" /\ pc'[p] # "idle"
    <3>1. current' = job[p].release /\ validated' = validated /\ Kept(p)
      BY <1>8, <2>2 DEF RollbackEdge
    <3>2. current = job[p].prev /\ job[p].release # job[p].prev
      BY <1>1, <2>2 DEF Vouched
    <3> QED
      BY <1>2, <3>1, <3>2 DEF GateMove, Kept
  <2>3. CASE pc[p] # "rb_activate" /\ pc'[p] # "idle"
    BY <1>8, <2>3 DEF RollbackEdge, GateMove, Kept
  <2> QED
    BY <2>1, <2>2, <2>3
<1> QED
  BY <1>4, <1>5, <1>6, <1>7, <1>8 DEF Edge

LEMMA GateStep ==
    ASSUME ~ NginxFaults, ~ UnitFaults, MaxCrashes = 0,
           CoreInv, KnownInv, FirstInv, [Next]_vars
    PROVE  Gate!GateNext \/ UNCHANGED Gate!gateVars
<1> USE DEF CoreInv
<1>1. CASE UNCHANGED vars
  BY <1>1 DEF vars, host, ghost, Gate!gateVars
<1>2. ASSUME NEW p \in Procs, Request(p) \/ Step(p) \/ Crash(p)
      PROVE  Gate!GateNext \/ UNCHANGED Gate!gateVars
  <2>1. crashes = 0 /\ lock \in Procs \cup {NoProc}
    BY DEF TypeInv, TypeOK
  <2>2. ~ Crash(p)
    BY <2>1 DEF Crash
  <2>3. CASE Begin(p) \/ RbBegin(p)
    <3>1. /\ lock = NoProc /\ lock' = p /\ job'[p].prev = current
          /\ UNCHANGED <<current, validated>>
      BY <2>3, BeginJob, RbBeginJob
    <3>2. Gate!Acquire
      BY <3>1, ProcsAssumption DEF Gate!Acquire
    <3> QED
      BY <3>2 DEF Gate!GateNext
  <2>4. CASE CriticalStep(p)
    <3>1. Edge(p) /\ pc[p] \in Critical /\ lock = p
      BY <2>4, Edges, CriticalStepPhase DEF LockInv
    <3>2. GateMove(p)
      BY <2>1, <3>1, EdgesMoveTheGate
    <3> QED
      BY <3>1, <3>2, GateMoves
  <2>5. CASE Aside(p)
    <3>1. /\ pc[p] \notin Critical /\ UNCHANGED <<current, validated>>
          /\ lock' = lock \/ (lock = p /\ lock' = NoProc)
      BY <2>5, AsideChanges
    <3>2. lock # p /\ lock' = lock
      BY <2>1, <3>1, ProcsAssumption DEF KnownInv
    <3>3. lock # NoProc => job'[lock] = job[lock]
      BY <1>2, <2>1, <3>2, OthersUnmoved
    <3> QED
      BY <3>1, <3>2, <3>3 DEF Gate!gateVars
  <2> QED
    BY <1>2, <2>2, <2>3, <2>4, <2>5, Kinds
<1> QED
  BY <1>1, <1>2 DEF Next

\* What users are promised holds of every interleaving of deployments,
\* redeployments, rollbacks and cancellations: one operation at a time puts one
\* release on trial, and when it ends the live release is the accepted one or
\* the one from before.  (No crashes, and nginx and systemctl do as told.)
THEOREM LifecycleImplementsGate ==
    ASSUME ~ NginxFaults, ~ UnitFaults, MaxCrashes = 0
    PROVE  Spec => GateImplemented
<1>1. Init => Gate!GateInit
  BY DEF Init, Gate!GateInit
<1>2. Init => CoreInv /\ KnownInv /\ FirstInv
  BY CoreInvInit, KnownInvInit, FirstInvInit
<1>3. CoreInv /\ KnownInv /\ FirstInv /\ [Next]_vars => CoreInv' /\ KnownInv' /\ FirstInv'
  BY CoreInvNext, KnownInvNext, FirstInvNext
<1>4. CoreInv /\ KnownInv /\ FirstInv /\ [Next]_vars => [Gate!GateNext]_(Gate!gateVars)
  BY GateStep
<1> QED
  BY <1>1, <1>2, <1>3, <1>4, PTL DEF Spec, GateImplemented, Gate!GateSpec

-----------------------------------------------------------------------------
(* What is kept on disk: enough for a rollback, and no more than retained.  *)

USE BoundsAssumption

\* The newest of a set of deployments, as many as are retained.
Newest(V) == {d \in V : Cardinality({e \in V : e > d}) < Retention}

-----------------------------------------------------------------------------
(* How many are the newest, and how they change.                            *)

\* A nonempty set of identifiers has a least member.
LEMMA LeastOfIds ==
    ASSUME NEW S, S \subseteq Ids, S # {}
    PROVE  \E m \in S : \A d \in S : m <= d
<1> DEFINE N == MaxDeployments + 1
           T == {N - d : d \in S}
<1>1. T \subseteq Ids /\ T # {}
  <2>1. \A d \in Ids : N - d \in Ids
    BY DEF Ids
  <2>2. PICK d \in S : TRUE
    OBVIOUS
  <2>3. N - d \in T
    BY <2>2
  <2> QED
    BY <2>1, <2>3
<1>2. Max(T) \in T /\ \A t \in T : t <= Max(T)
  <2> HIDE DEF T
  <2> QED
    BY <1>1, MaxOfIds
<1>3. PICK m \in S : Max(T) = N - m
  BY <1>2
<1>4. ASSUME NEW d \in S PROVE m <= d
  <2>1. N - d <= N - m
    BY <1>2, <1>3
  <2>2. m \in Int /\ d \in Int
    BY DEF Ids
  <2> QED
    BY <2>1, <2>2
<1> QED
  BY <1>4

LEMMA IdsAreNumbers == \A d \in Ids : d \in Int
BY DEF Ids

LEMMA IdsFinite ==
    ASSUME NEW S, S \subseteq Ids
    PROVE  IsFiniteSet(S) /\ Cardinality(S) \in Nat
<1>1. IsFiniteSet(Ids)
  BY FS_Interval DEF Ids
<1> QED
  BY <1>1, FS_Subset, FS_CardinalityType

LEMMA FewerIds ==
    ASSUME NEW S, NEW T, S \subseteq Ids, T \subseteq S
    PROVE  Cardinality(T) <= Cardinality(S)
BY IdsFinite, FS_Subset

LEMMA NewestAreFew ==
    ASSUME NEW V, V \subseteq Ids
    PROVE  Cardinality(Newest(V)) <= Retention
<1>1. CASE Newest(V) = {}
  BY <1>1, FS_EmptySet
<1>2. CASE Newest(V) # {}
  <2>1. Newest(V) \subseteq Ids
    BY DEF Newest
  <2>2. PICK m \in Newest(V) : \A d \in Newest(V) : m <= d
    BY <1>2, <2>1, LeastOfIds
  <2> DEFINE Above == {e \in V : e > m}
  <2>3. Cardinality(Above) < Retention /\ m \notin Above /\ Above \subseteq Ids
    <3>1. m \notin Above /\ Above \subseteq Ids
      <4>1. m \in Int
        BY <2>1, <2>2 DEF Ids
      <4>2. ~ (m > m)
        BY <4>1
      <4> QED
        BY <4>2
    <3>2. Cardinality(Above) < Retention
      BY <2>2 DEF Newest
    <3> QED
      BY <3>1, <3>2
  <2>4. Newest(V) \subseteq Above \cup {m}
    BY <2>1, <2>2 DEF Newest, Ids
  <2>5. Above \cup {m} \subseteq Ids
    BY <2>1, <2>2, <2>3
  <2> HIDE DEF Above
  <2>6. Cardinality(Above \cup {m}) = Cardinality(Above) + 1
    BY <2>3, IdsFinite, FS_AddElement
  <2>7. Cardinality(Newest(V)) <= Cardinality(Above \cup {m})
    BY <2>4, <2>5, FewerIds
  <2>8. Cardinality(Above) \in Nat /\ Cardinality(Newest(V)) \in Nat
    BY <2>1, <2>3, IdsFinite
  <2> QED
    BY <2>3, <2>6, <2>7, <2>8
<1> QED
  BY <1>1, <1>2

\* With one more deployment no other joins the newest.
LEMMA NewestOfMore ==
    ASSUME NEW V, NEW n \in Ids, V \subseteq Ids
    PROVE  Newest(V \cup {n}) \subseteq Newest(V) \cup {n}
<1> SUFFICES ASSUME NEW d \in Newest(V \cup {n}), d # n
             PROVE  d \in Newest(V)
  OBVIOUS
<1> DEFINE S == {e \in V \cup {n} : e > d}
           T == {e \in V : e > d}
<1>1. d \in V /\ Cardinality(S) < Retention
  BY DEF Newest
<1>2. T \subseteq S /\ S \subseteq Ids
  OBVIOUS
<1>3. T \subseteq Ids
  BY <1>2
<1> HIDE DEF S, T
<1>4. Cardinality(T) <= Cardinality(S) /\ Cardinality(S) \in Nat /\ Cardinality(T) \in Nat
  BY <1>2, <1>3, FewerIds, IdsFinite
<1>5. Cardinality(T) < Retention
  BY <1>1, <1>4
<1> QED
  BY <1>1, <1>5 DEF Newest, T

\* Two retained means two of the newest, if there are two at all.
LEMMA TwoNewest ==
    ASSUME NEW V, V \subseteq Ids, Retention >= 2, Cardinality(V) >= 2
    PROVE  \E a, b \in Newest(V) : a # b
<1>1. V # {}
  BY FS_EmptySet
<1> DEFINE a == Max(V)
           b == Max(V \ {a})
<1>2. a \in V /\ \A d \in V : d <= a
  BY <1>1, MaxOfIds
<1>3. V \ {a} # {}
  <2>1. SUFFICES ASSUME V \ {a} = {} PROVE FALSE
    OBVIOUS
  <2>2. V = {a}
    BY <1>2, <2>1
  <2> HIDE DEF a
  <2>3. Cardinality(V) = 1
    BY <2>2, FS_Singleton
  <2> QED
    BY <2>3
<1>4. b \in V \ {a} /\ \A d \in V \ {a} : d <= b
  <2> HIDE DEF a
  <2>1. V \ {a} \subseteq Ids
    OBVIOUS
  <2> QED
    BY <1>3, <2>1, MaxOfIds
<1> HIDE DEF a, b
<1>5. a \in Int /\ b \in Int /\ V \subseteq Int
  BY <1>2, <1>4 DEF Ids
<1>6. {e \in V : e > a} = {} /\ {e \in V : e > b} \subseteq {a}
  <2>1. \A e \in V : ~ (e > a)
    BY <1>2, <1>5
  <2>2. \A e \in V : e > b => e = a
    BY <1>4, <1>5
  <2> QED
    BY <2>1, <2>2
<1>7. Cardinality({e \in V : e > a}) = 0 /\ Cardinality({e \in V : e > b}) <= 1
  <2>1. Cardinality({a}) = 1 /\ {a} \subseteq Ids
    BY <1>2, FS_Singleton
  <2>2. Cardinality({e \in V : e > b}) <= Cardinality({a})
    BY <1>6, <2>1, FewerIds
  <2> QED
    BY <1>6, <2>1, <2>2, FS_EmptySet
<1>8. Cardinality({e \in V : e > b}) \in Nat
  BY IdsFinite
<1>9. a \in Newest(V) /\ b \in Newest(V) /\ a # b
  BY <1>2, <1>4, <1>7, <1>8 DEF Newest
<1> QED
  BY <1>9

-----------------------------------------------------------------------------
(* What the operations keep on disk.                                        *)

\* Without cancellations the completed records are those of what was validated.
CountedInv ==
    /\ \A p \in Procs : pc[p] \notin CancelPhases
    /\ Completed = validated

\* The newest are on disk, whatever fails.
StockInv == Newest(validated) \subseteq dirs

\* Nothing else is, but what an operation in progress has made.
Spare(p) ==
    /\ pc[p] \in Reversible =>
          /\ \A d \in validated : d < job[p].id
          /\ dirs \ {job[p].id} \subseteq validated
          /\ Cardinality(dirs \ {job[p].id}) <= Retention
          /\ pc[p] \in {"abort_record", "abort_health"} => job[p].id \notin dirs
    /\ pc[p] \in Settled =>
          /\ \A d \in validated : d <= job[p].id
          /\ dirs \subseteq validated
    /\ pc[p] \in RollbackPhases => dirs \subseteq validated /\ Cardinality(dirs) <= Retention

SpareInv == crashes = 0 /\ Retention >= 1 =>
    /\ lock = NoProc => dirs \subseteq validated /\ Cardinality(dirs) <= Retention
    /\ \A p \in Procs : Spare(p)

LEMMA CountedInvInit == Init => CountedInv
<1> SUFFICES ASSUME Init PROVE CountedInv
  OBVIOUS
<1>1. Completed = {} /\ validated = {}
  BY DEF Init, Completed, Absent
<1> QED
  BY <1>1, InitLabels DEF CountedInv, CancelPhases

\* Who moves, when nobody cancels.
LEMMA NobodyCancels ==
    ASSUME ~ Cancels, CountedInv, NEW p \in Procs, Request(p) \/ Step(p) \/ Crash(p)
    PROVE  Begin(p) \/ RbBegin(p) \/ CriticalStep(p) \/ Crash(p)
<1>1. ~ Aside(p)
  BY DEF Aside, CancelLoad, CancelStep, CancelMark, CancelSave, CancelPhases, CountedInv
<1> QED
  BY <1>1, Kinds

LEMMA CountedInvNext ==
    ASSUME ~ Cancels, CoreInv, CoreInv', CountedInv, [Next]_vars
    PROVE  CountedInv'
<1> USE DEF CoreInv
<1>1. CASE UNCHANGED vars
  <2>1. Completed' = Completed
    BY <1>1 DEF vars, record, Completed
  <2> QED
    BY <1>1, <2>1 DEF vars, ghost, CountedInv
<1>2. ASSUME NEW p \in Procs, Request(p) \/ Step(p) \/ Crash(p)
      PROVE  CountedInv'
  <2>1. Begin(p) \/ RbBegin(p) \/ CriticalStep(p) \/ Crash(p)
    BY <1>2, NobodyCancels
  <2>2. \A q \in Procs : pc'[q] \notin CancelPhases
    <3>1. \A q \in Procs \ {p} : pc'[q] = pc[q]
      BY <1>2, OthersUnmoved
    <3>2. pc'[p] \notin CancelPhases
      <4>1. CASE Begin(p) \/ RbBegin(p)
        BY <4>1, BeginJob, RbBeginJob DEF CancelPhases
      <4>2. CASE CriticalStep(p)
        BY <4>2, Edges DEF Edge, PrepareEdge, ValidateEdge, AbortEdge, RejectEdge,
           RollbackEdge, PreparePhases, RbUndone, CancelPhases
      <4>3. CASE Crash(p)
        BY <4>3 DEF Crash, Return, Goto, TypeInv, TypeOK, CancelPhases
      <4> QED
        BY <2>1, <4>1, <4>2, <4>3
    <3> QED
      BY <3>1, <3>2 DEF CountedInv
  <2>3. Completed' \subseteq validated'
    BY DEF VouchInv
  <2>4. ASSUME NEW d \in validated' PROVE d \in Completed'
    <3>1. d \in Ids
      BY DEF TypeInv, TypeOK
    <3>2. CASE db' = db /\ validated' = validated
      BY <3>2 DEF CountedInv, Completed
    <3>3. CASE Begin(p)
      <4> DEFINE j == [NoJob EXCEPT !.id = NextId, !.release = NextId,
                                    !.prev = current, !.prevPort = NodePort(current),
                                    !.commands = PostCommands]
      <4>1. Upsert(j, "started") /\ j.id = NextId /\ validated' = validated
        BY <3>3 DEF Begin, NoJob, ghost
      <4> HIDE DEF j
      <4>2. PICK n \in 0 .. MaxDeployments : Recorded = 1 .. n
        BY DEF ReleaseInv, Recording
      <4>3. NextId \notin validated
        BY <4>2, NextIdFresh DEF VouchInv
      <4>4. db'[d] = db[d]
        BY <2>4, <3>1, <4>1, <4>3 DEF Upsert, TypeInv, TypeOK
      <4> QED
        BY <2>4, <3>1, <4>1, <4>4 DEF CountedInv, Completed
    <3>4. CASE CriticalStep(p)
      <4>1. CASE pc[p] \in {"complete", "drain"} /\ d = job[p].id
        BY <3>1, <3>4, <4>1, CriticalWrites DEF Completed
      <4>2. CASE ~ (pc[p] \in {"complete", "drain"} /\ d = job[p].id)
        <5>1. d \in validated
          BY <2>4, <3>4, <4>2, Edges
             DEF Edge, PrepareEdge, ValidateEdge, AbortEdge, RejectEdge, RollbackEdge
        <5>2. d = job[p].id => pc[p] \notin Reversible \cup (RollbackPhases \ {"rb_healthy"})
          BY <5>1 DEF VouchInv, Vouched, ReleaseInv, Recording
        <5>3. db'[d] = db[d]
          BY <3>1, <3>4, <4>2, <5>2, CriticalWrites
        <5> QED
          BY <3>1, <5>1, <5>3 DEF CountedInv, Completed
      <4> QED
        BY <4>1, <4>2
    <3> QED
      BY <2>1, <3>2, <3>3, <3>4, RbBeginJob DEF Crash, record
  <2> QED
    BY <2>2, <2>3, <2>4 DEF CountedInv
<1> QED
  BY <1>1, <1>2 DEF Next

\* What a step does to the directories, when the records are as they should be.
DirsMove(p) ==
    \/ pc[p] = "checkout" /\ dirs' \in {dirs, dirs \cup {job[p].id}}
    \/ /\ pc[p] \in {"abort_remove", "reject_cleanup"} /\ dirs' = dirs \ {job[p].id}
       /\ pc[p] = "abort_remove" => pc'[p] = "abort_record"
    \/ pc[p] = "prune" /\ dirs' = dirs \ ((validated \ Newest(validated)) \ {current})
    \/ /\ pc[p] \notin {"checkout", "abort_remove", "reject_cleanup", "prune"}
       /\ dirs' = dirs

LEMMA DirsMoves ==
    ASSUME CoreInv, CountedInv, NEW p \in Procs, CriticalStep(p)
    PROVE  DirsMove(p)
<1> USE DEF CoreInv, host
<1>1. pc \in [Procs -> Labels] /\ job \in [Procs -> Jobs]
  BY DEF TypeInv, TypeOK
<1>2. CASE PhaseSucceeds(p)
  <2> DEFINE j == [job[p] EXCEPT !.commit = @ \/ pc[p] = "checkout"]
  <2>1. /\ pc[p] \in PreparePhases
        /\ dirs' = IF pc[p] = "checkout" THEN dirs \cup {j.id} ELSE dirs
    BY <1>2 DEF PhaseSucceeds
  <2>2. j.id = job[p].id
    BY <1>1 DEF Jobs
  <2> HIDE DEF j
  <2> QED
    BY <2>1, <2>2 DEF DirsMove, PreparePhases
<1>3. CASE PhaseFails(p)
  BY <1>3 DEF PhaseFails, DirsMove, PreparePhases
<1>4. CASE AbortRemove(p) \/ RejectCleanup(p)
  <2>1. pc[p] \in {"abort_remove", "reject_cleanup"} /\ dirs' = dirs \ {job[p].release}
    BY <1>4 DEF AbortRemove, RejectCleanup
  <2>2. pc[p] = "abort_remove" => pc'[p] = "abort_record"
    BY <1>1, <1>4 DEF AbortRemove, RejectCleanup, Goto
  <2>3. job[p].release = job[p].id
    BY <2>1 DEF ReleaseInv, Standing, Reversible, DeployPhases, AbortPhases, RejectPhases
  <2> QED
    BY <2>1, <2>2, <2>3 DEF DirsMove
<1>5. CASE Prune(p)
  <2>1. {db[d].release : d \in Completed \ Retained} = validated \ Newest(validated)
    <3>1. Retained = Newest(validated) /\ Completed = validated
      BY DEF CountedInv, Retained, Newest
    <3>2. \A d \in Completed : db[d].release = d
      BY DEF VouchInv
    <3> QED
      BY <3>1, <3>2
  <2> QED
    BY <1>5, <2>1 DEF Prune, DirsMove
<1>6. CASE PrepareStep(p) /\ ~ PhaseSucceeds(p) /\ ~ PhaseFails(p)
  BY <1>6 DEF PrepareStep, StartSucceeds, StartFails, ReadySucceeds, ReadyFails, Activate,
     SwitchSucceeds, SwitchFails, DirsMove
<1>7. CASE ValidateStep(p) /\ ~ Prune(p)
  BY <1>7 DEF ValidateStep, HealthPasses, HealthFails, PostDeployBegins, PostDeploySucceeds,
     PostDeployFails, Complete, MarkHealthy, Drain, DirsMove
<1>8. CASE AbortStep(p) /\ ~ AbortRemove(p)
  BY <1>8 DEF AbortStep, AbortRestore, AbortUpstream, AbortStop, AbortRecord, AbortHealth,
     DirsMove
<1>9. CASE RejectStep(p) /\ ~ RejectCleanup(p)
  BY <1>9 DEF RejectStep, RejectRestore, RejectUpstream, RejectUpstreamFails, RejectStop,
     RejectStopFails, RejectRecord, RejectHealth, DirsMove
<1>10. CASE RollbackStep(p)
  BY <1>10 DEF RollbackStep, RbStart, RbStartFails, RbReady, RbActivate, RbSwitch, RbHealth,
     RbReactivate, RbReroute, RbAbandon, RbDrain, RbDrainFails, RbRecord, RbHealthy, DirsMove
<1> QED
  BY <1>2, <1>3, <1>4, <1>5, <1>6, <1>7, <1>8, <1>9, <1>10 DEF CriticalStep

LEMMA StockInvInit == Init => StockInv
BY DEF Init, StockInv, Newest

\* What is validated only grows, by a deployment that completes.
LEMMA ValidatedMove ==
    ASSUME CoreInv, ~ Cancels, CountedInv, NEW p \in Procs, Request(p) \/ Step(p) \/ Crash(p)
    PROVE  \/ validated' = validated
           \/ /\ CriticalStep(p) /\ pc[p] = "complete" /\ pc'[p] = "mark_healthy"
              /\ validated' = validated \cup {job[p].id} /\ job'[p].id = job[p].id
              /\ job[p].id \in dirs /\ job[p].id \in Ids
<1> USE DEF CoreInv
<1>1. CASE CriticalStep(p) /\ pc[p] = "complete"
  <2>1. /\ pc'[p] \in {"mark_healthy"} /\ validated' = validated \cup {job[p].id}
        /\ job'[p].id = job[p].id
    BY <1>1, Edges DEF Edge, PrepareEdge, ValidateEdge, AbortEdge, RejectEdge, RollbackEdge,
       Kept, PreparePhases
  <2>2. job[p].id \in dirs /\ job[p].id \in Ids
    BY <1>1 DEF ReleaseInv, Standing, Reversible, OnDisk, OnRelease, DeployPhases,
       SettlePhases, TypeInv, ActiveJobs
  <2> QED
    BY <1>1, <2>1, <2>2
<1>2. CASE CriticalStep(p) /\ pc[p] # "complete"
  BY <1>2, Edges DEF Edge, PrepareEdge, ValidateEdge, AbortEdge, RejectEdge, RollbackEdge
<1>3. CASE Begin(p) \/ RbBegin(p) \/ Crash(p)
  BY <1>3, BeginJob, RbBeginJob DEF Crash
<1> QED
  BY <1>1, <1>2, <1>3, NobodyCancels

LEMMA StockInvNext ==
    ASSUME ~ Cancels, CoreInv, CountedInv, StockInv, [Next]_vars
    PROVE  StockInv'
<1> USE DEF CoreInv
<1>1. CASE UNCHANGED vars
  BY <1>1 DEF vars, host, ghost, StockInv, Newest
<1>2. ASSUME NEW p \in Procs, Request(p) \/ Step(p) \/ Crash(p)
      PROVE  StockInv'
  <2>1. PICK V : V = validated'
    OBVIOUS
  <2>2. Newest(validated') = Newest(V) /\ (StockInv' <=> Newest(V) \subseteq dirs')
    BY <2>1 DEF StockInv, Newest
  <2>3. validated \subseteq Ids /\ Newest(validated) \subseteq validated
    BY DEF TypeInv, TypeOK, Newest
  <2>4. CASE V = validated
    <3>1. Newest(validated) \subseteq dirs'
      <4>1. CASE CriticalStep(p)
        <5>1. DirsMove(p)
          BY <4>1, DirsMoves
        <5>2. pc[p] \in {"abort_remove", "reject_cleanup"} => job[p].id \notin validated
          BY DEF VouchInv, Vouched, Reversible, DeployPhases, AbortPhases, RejectPhases
        <5> QED
          BY <2>3, <5>1, <5>2 DEF DirsMove, StockInv
      <4>2. CASE Begin(p) \/ RbBegin(p) \/ Crash(p)
        BY <4>2, BeginJob, RbBeginJob DEF Crash, host, StockInv
      <4> QED
        BY <1>2, <4>1, <4>2, NobodyCancels
    <3> QED
      BY <2>2, <2>4, <3>1
  <2>5. CASE V # validated
    <3>1. /\ CriticalStep(p) /\ pc[p] = "complete" /\ V = validated \cup {job[p].id}
          /\ job[p].id \in dirs /\ job[p].id \in Ids
      BY <1>2, <2>1, <2>5, ValidatedMove
    <3>2. dirs' = dirs
      BY <3>1, DirsMoves DEF DirsMove
    <3>3. Newest(V) \subseteq Newest(validated) \cup {job[p].id}
      BY <2>3, <3>1, NewestOfMore
    <3> QED
      BY <2>2, <3>1, <3>2, <3>3 DEF StockInv
  <2> QED
    BY <2>4, <2>5
<1> QED
  BY <1>1, <1>2 DEF Next

LEMMA SpareInvInit == Init => SpareInv
<1> SUFFICES ASSUME Init PROVE SpareInv
  OBVIOUS
<1>1. dirs = {} /\ Cardinality({}) = 0
  BY FS_EmptySet DEF Init
<1> QED
  BY <1>1, InitLabels, LabelSets DEF SpareInv, Spare

LEMMA FewerDirs ==
    ASSUME TypeInv, NEW D, D \subseteq dirs, Cardinality(dirs) <= Retention
    PROVE  Cardinality(D) <= Retention
<1>1. dirs \subseteq Ids /\ D \subseteq Ids
  BY DEF TypeInv, TypeOK
<1>2. Cardinality(D) <= Cardinality(dirs) /\ Cardinality(D) \in Nat /\ Cardinality(dirs) \in Nat
  BY <1>1, FewerIds, IdsFinite
<1> QED
  BY <1>2

\* The process under the lock, in an operation that goes on.
LEMMA SpareGoesOn ==
    ASSUME ~ Cancels, CoreInv, CountedInv, Retention >= 1, NEW p \in Procs,
           CriticalStep(p), Spare(p), pc'[p] # "idle"
    PROVE  Spare(p)'
<1> USE DEF CoreInv
<1>1. DirsMove(p) /\ Edge(p) /\ validated \subseteq Ids /\ dirs \subseteq Ids
  BY DirsMoves, Edges DEF TypeInv, TypeOK
<1> USE DEF Reversible, Settled, RollbackPhases, RbUndone, DeployPhases, PreparePhases,
        TrialPhases, SettlePhases, AbortPhases, RejectPhases
<1>2. Kept(p)
  BY <1>1 DEF Edge, PrepareEdge, ValidateEdge, AbortEdge, RejectEdge, RollbackEdge
<1>3. CASE pc[p] = "complete"
  <2>1. /\ pc'[p] = "mark_healthy" /\ validated' = validated \cup {job[p].id} /\ dirs' = dirs
        /\ job'[p].id = job[p].id /\ job[p].id \in Ids
    <3>1. dirs' = dirs
      BY <1>1, <1>3 DEF DirsMove
    <3>2. pc'[p] = "mark_healthy" /\ validated' = validated \cup {job[p].id}
      BY <1>1, <1>3 DEF Edge, PrepareEdge, ValidateEdge, AbortEdge, RejectEdge, RollbackEdge
    <3> QED
      BY <1>2, <1>3, <3>1, <3>2 DEF Kept, TypeInv, ActiveJobs
  <2>2. /\ \A d \in validated : d < job[p].id
        /\ dirs \ {job[p].id} \subseteq validated
    BY <1>3 DEF Spare
  <2>3. job[p].id \in Int /\ \A d \in validated : d \in Int
    BY <1>1, <2>1, IdsAreNumbers
  <2>4. \A d \in validated' : d <= job[p].id
    BY <2>1, <2>2, <2>3
  <2>5. dirs' \subseteq validated' /\ \A d \in validated' : d <= job'[p].id
    BY <2>1, <2>2, <2>4
  <2> QED
    BY <2>1, <2>5 DEF Spare
<1>4. CASE pc[p] \in Reversible \ {"complete"}
  <2>1. /\ pc'[p] \in Reversible /\ validated' = validated
        /\ job'[p].id = job[p].id
        /\ pc'[p] \in {"abort_record", "abort_health"} =>
              pc[p] \in {"abort_remove", "abort_record"}
    BY <1>1, <1>2, <1>4
       DEF Kept, Edge, PrepareEdge, ValidateEdge, AbortEdge, RejectEdge, RollbackEdge
  <2>2. dirs' \ {job[p].id} = dirs \ {job[p].id}
    BY <1>1, <1>4 DEF DirsMove
  <2>3. pc'[p] \in {"abort_record", "abort_health"} => job[p].id \notin dirs'
    BY <1>1, <1>4, <2>1, <2>2 DEF DirsMove, Spare
  <2>4. /\ \A d \in validated : d < job[p].id
        /\ dirs \ {job[p].id} \subseteq validated
        /\ Cardinality(dirs \ {job[p].id}) <= Retention
    BY <1>4 DEF Spare
  <2> HIDE DEF Reversible, Settled, RollbackPhases, DeployPhases
  <2>5. pc'[p] \notin Settled \cup RollbackPhases
    BY <2>1, LabelSets
  <2> QED
    BY <2>1, <2>2, <2>3, <2>4, <2>5 DEF Spare
<1>5. CASE pc[p] \in Settled \cup RollbackPhases
  <2>1. /\ validated' = validated /\ dirs' = dirs /\ job'[p].id = job[p].id
        /\ pc[p] \in Settled => pc'[p] \in Settled
        /\ pc[p] \in RollbackPhases => pc'[p] \in RollbackPhases
    BY <1>1, <1>2, <1>5
       DEF DirsMove, Kept, Edge, PrepareEdge, ValidateEdge, AbortEdge, RejectEdge, RollbackEdge
  <2> HIDE DEF Reversible, Settled, RollbackPhases, DeployPhases
  <2>2. pc'[p] \notin Reversible
    BY <1>5, <2>1, LabelSets
  <2>3. pc'[p] \in Settled => pc[p] \in Settled
    BY <1>5, <2>1, LabelSets
  <2>4. pc'[p] \in RollbackPhases => pc[p] \in RollbackPhases
    BY <1>5, <2>1, LabelSets
  <2> QED
    BY <2>1, <2>2, <2>3, <2>4 DEF Spare
<1>6. pc[p] \in Reversible \cup Settled \cup RollbackPhases
  BY CriticalStepPhase DEF Critical
<1> QED
  BY <1>3, <1>4, <1>5, <1>6

\* And in one that ends: retention has been seen to.
LEMMA SpareEnds ==
    ASSUME ~ Cancels, ~ NginxFaults, ~ UnitFaults, CoreInv, CountedInv, Retention >= 1,
           NEW p \in Procs, CriticalStep(p), Spare(p), pc'[p] = "idle"
    PROVE  /\ validated' = validated
           /\ dirs' \subseteq validated /\ Cardinality(dirs') <= Retention
<1> USE DEF CoreInv
<1>1. DirsMove(p) /\ Edge(p) /\ validated \subseteq Ids /\ dirs \subseteq Ids
  BY DirsMoves, Edges DEF TypeInv, TypeOK
<1> USE DEF Reversible, Settled, RollbackPhases, RbUndone, DeployPhases, PreparePhases,
        TrialPhases, SettlePhases, AbortPhases, RejectPhases
<1>2. /\ validated' = validated
      /\ pc[p] \in {"prune", "abort_health", "reject_cleanup"} \cup RollbackPhases
  BY <1>1 DEF Edge, PrepareEdge, ValidateEdge, AbortEdge, RejectEdge, RollbackEdge, Kept
<1>3. CASE pc[p] = "prune"
  <2>1. /\ dirs' = dirs \ ((validated \ Newest(validated)) \ {current})
        /\ dirs \subseteq validated /\ \A d \in validated : d <= job[p].id
    BY <1>1, <1>3 DEF DirsMove, Spare
  <2>2. current = job[p].id /\ job[p].id \in validated
    BY <1>3 DEF VouchInv, Vouched
  <2>3. current \in Newest(validated)
    <3>1. {e \in validated : e > current} = {}
      <4>1. \A e \in validated : e <= current /\ e \in Int /\ current \in Int
        BY <1>1, <2>1, <2>2, IdsAreNumbers
      <4>2. \A e \in validated : ~ (e > current)
        BY <4>1
      <4> QED
        BY <4>2
    <3>2. Cardinality({e \in validated : e > current}) = 0
      BY <3>1, FS_EmptySet
    <3> QED
      BY <2>2, <3>2 DEF Newest
  <2>4. dirs' \subseteq Newest(validated) /\ Newest(validated) \subseteq Ids
    BY <1>1, <2>1, <2>3 DEF Newest
  <2>5. Cardinality(dirs') <= Cardinality(Newest(validated))
    BY <2>4, FewerIds
  <2>6. Cardinality(Newest(validated)) <= Retention
    BY <1>1, NewestAreFew
  <2>7. Cardinality(dirs') \in Nat /\ Cardinality(Newest(validated)) \in Nat
    BY <1>1, <2>1, <2>4, IdsFinite
  <2> QED
    BY <1>2, <2>1, <2>5, <2>6, <2>7
<1>4. CASE pc[p] \in {"abort_health", "reject_cleanup"}
  <2>1. /\ dirs \ {job[p].id} \subseteq validated
        /\ Cardinality(dirs \ {job[p].id}) <= Retention
        /\ pc[p] = "abort_health" => job[p].id \notin dirs
    BY <1>4 DEF Spare
  <2>2. dirs' = dirs \ {job[p].id}
    BY <1>1, <1>4, <2>1 DEF DirsMove
  <2> QED
    BY <1>2, <2>1, <2>2
<1>5. CASE pc[p] \in RollbackPhases
  <2>1. dirs' = dirs
    BY <1>1, <1>5 DEF DirsMove
  <2> QED
    BY <1>2, <1>5, <2>1 DEF Spare
<1> QED
  BY <1>2, <1>3, <1>4, <1>5

LEMMA SpareInvNext ==
    ASSUME ~ Cancels, ~ NginxFaults, ~ UnitFaults,
           CoreInv, KnownInv, CountedInv, SpareInv, [Next]_vars
    PROVE  SpareInv'
<1> USE DEF CoreInv
<1>1. CASE UNCHANGED vars
  BY <1>1 DEF vars, host, ghost, SpareInv, Spare
<1>2. ASSUME NEW p \in Procs, Request(p) \/ Step(p) \/ Crash(p), crashes' = 0, Retention >= 1
      PROVE  SpareInv'
  <2>1. crashes = 0 /\ ~ Crash(p) /\ lock \in Procs \cup {NoProc}
    BY <1>2, CrashesGrow DEF TypeInv, TypeOK
  <2>2. /\ lock = NoProc => dirs \subseteq validated /\ Cardinality(dirs) <= Retention
        /\ \A q \in Procs : Spare(q)
    BY <1>2, <2>1 DEF SpareInv
  <2>3. ASSUME NEW q \in Procs, q # p
        PROVE  Spare(q)'
    <3>1. CASE pc'[q] \in Critical
      BY <1>2, <2>2, <2>3, <3>1, OthersStill DEF Spare
    <3>2. CASE pc'[q] \notin Critical
      BY <3>2, LabelSets DEF Spare
    <3> QED
      BY <3>1, <3>2
  <2>4. /\ Spare(p)'
        /\ lock' = NoProc => dirs' \subseteq validated' /\ Cardinality(dirs') <= Retention
    <3>1. CASE Begin(p) \/ RbBegin(p)
      <4>1. /\ lock = NoProc /\ lock' = p /\ UNCHANGED <<dirs, validated>>
            /\ pc'[p] \in {"source", "rb_start", "rb_activate"} /\ job'[p].id = NextId
        BY <3>1, BeginJob, RbBeginJob
      <4>2. \A d \in validated : d < NextId
        <5>1. PICK n \in 0 .. MaxDeployments : Recorded = 1 .. n
          BY DEF ReleaseInv, Recording
        <5> QED
          BY <5>1, NextIdFresh DEF VouchInv
      <4>3. Cardinality(dirs \ {NextId}) <= Retention
        BY <2>2, <4>1, FewerDirs
      <4>4. pc'[p] \notin Settled \cup {"abort_record", "abort_health"}
        BY <4>1 DEF Settled
      <4> QED
        BY <2>2, <4>1, <4>2, <4>3, <4>4, ProcsAssumption DEF Spare
    <3>2. CASE CriticalStep(p)
      <4>1. CASE pc'[p] = "idle"
        <5>1. Spare(p)'
          BY <4>1, LabelSets DEF Spare
        <5> QED
          BY <1>2, <2>2, <3>2, <4>1, <5>1, SpareEnds
      <4>2. CASE pc'[p] # "idle"
        <5>1. lock' = lock /\ lock = p
          <6>1. Edge(p) /\ lock = p
            BY <3>2, Edges, CriticalStepPhase DEF LockInv
          <6> QED
            BY <4>2, <6>1 DEF Edge, PrepareEdge, ValidateEdge, AbortEdge, RejectEdge,
               RollbackEdge, Kept
        <5> QED
          BY <1>2, <2>2, <3>2, <4>2, <5>1, SpareGoesOn, ProcsAssumption
      <4> QED
        BY <4>1, <4>2
    <3> QED
      BY <1>2, <2>1, <3>1, <3>2, NobodyCancels
  <2> QED
    BY <2>3, <2>4 DEF SpareInv
<1>3. SpareInv' \/ (crashes' = 0 /\ Retention >= 1)
  BY DEF SpareInv
<1> QED
  BY <1>1, <1>2, <1>3 DEF Next

\* Between operations no more release directories are kept than the retention
\* says, and with two retained a rollback finds a target once two deployments
\* have completed.  (Nobody cancels, nginx and systemctl do as told.)
THEOREM ReleasesAreRetained ==
    ASSUME ~ Cancels, ~ NginxFaults, ~ UnitFaults
    PROVE  Spec => []RetentionKept
<1> DEFINE Inv == CoreInv /\ KnownInv /\ CountedInv /\ StockInv /\ SpareInv
<1>1. Init => Inv
  BY CoreInvInit, KnownInvInit, CountedInvInit, StockInvInit, SpareInvInit
<1>2. Inv /\ [Next]_vars => Inv'
  BY CoreInvNext, KnownInvNext, CountedInvNext, StockInvNext, SpareInvNext
<1>3. ASSUME Inv, Retention >= 2, Cardinality(validated) >= 2
      PROVE  RollbackTargets # {}
  <2>1. validated \subseteq Ids
    BY <1>3 DEF CoreInv, TypeInv, TypeOK
  <2>2. PICK a, b \in Newest(validated) : a # b
    BY <1>3, <2>1, TwoNewest
  <2>3. PICK d \in {a, b} : d # current
    BY <2>2
  <2>4. d \in Completed /\ db[d].release = d /\ d \in dirs
    BY <1>3, <2>2, <2>3 DEF CountedInv, StockInv, Newest, CoreInv, VouchInv
  <2> QED
    BY <2>3, <2>4 DEF RollbackTargets
<1>4. Inv => RetentionKept
  BY <1>3 DEF SpareInv, RetentionKept, RollbackAvailable, ReleasesBounded
<1> QED
  BY <1>1, <1>2, <1>4, PTL DEF Spec
-----------------------------------------------------------------------------
(* Who listens where while a Node application is handed from one release to  *)
(* the next: for every number of processes, deployments and rollbacks, users *)
(* are served at every step, and a readiness probe is answered by the        *)
(* release it asks for.                                                      *)

-----------------------------------------------------------------------------
(* Units and ports: us maps each release unit to its port, bs each port to   *)
(* the unit that listens on it.                                              *)

\* Only the unit u runs, on the port q (neither if they are 0).
Alone(us, bs, u, q) ==
    /\ us = [d \in Ids |-> IF d = u THEN q ELSE 0]
    /\ bs = [x \in Ports |-> IF x = q THEN u ELSE 0]

\* The unit w runs beside it, on the port r.
Beside(us, bs, u, q, w, r) ==
    /\ us = [d \in Ids |-> IF d = u THEN q ELSE IF d = w THEN r ELSE 0]
    /\ bs = [x \in Ports |-> IF x = q THEN u ELSE IF x = r THEN w ELSE 0]

\* A unit started on another port finds it free.
LEMMA StartsBeside ==
    ASSUME NEW u, NEW q, NEW w \in Ids, NEW r \in Ports, w # u, r # q,
           Alone(units, bound, u, q), StartUnit(w, r)
    PROVE  Beside(units', bound', u, q, w, r)
<1>1. units' = [d \in Ids |-> IF d = u THEN q ELSE IF d = w THEN r ELSE 0]
  BY DEF Alone, StartUnit
<1>2. bound[r] = 0
  BY DEF Alone
<1>3. bound' = [x \in Ports |-> IF x = q THEN u ELSE IF x = r THEN w ELSE 0]
  BY <1>2 DEF Alone, StartUnit
<1> QED
  BY <1>1, <1>3 DEF Beside

\* A unit on a port of its own leaves the port free, whichever stops.
LEMMA CandidateStops ==
    ASSUME NEW u, NEW q, NEW w \in Ids, NEW r \in Ports, w # u, r # q,
           Beside(units, bound, u, q, w, r), StopUnit(w)
    PROVE  Alone(units', bound', u, q)
<1>0. 0 \notin Ids /\ 0 \notin Ports
  BY DEF Ids, Ports
<1>1. units' = [d \in Ids |-> IF d = u THEN q ELSE 0]
  BY DEF Beside, StopUnit
<1>2. PICK v \in {0} \cup {v \in Ids \ {w} : units[v] # 0 /\ units[v] = units[w]} :
          bound' = [x \in Ports |-> IF bound[x] = w THEN v ELSE bound[x]]
  BY DEF StopUnit
<1>3. units[w] = r /\ \A d \in Ids \ {w} : units[d] # r
  BY <1>0 DEF Beside
<1>4. v = 0
  BY <1>2, <1>3
<1>5. \A x \in Ports : (IF bound[x] = w THEN 0 ELSE bound[x]) = (IF x = q THEN u ELSE 0)
  BY <1>0 DEF Beside
<1>6. bound' = [x \in Ports |-> IF x = q THEN u ELSE 0]
  BY <1>2, <1>4, <1>5
<1> QED
  BY <1>1, <1>6 DEF Alone

LEMMA PreviousStops ==
    ASSUME NEW u \in Ids, NEW q \in Ports, NEW w \in Ids, NEW r \in Ports, w # u, r # q,
           Beside(units, bound, u, q, w, r), StopUnit(u)
    PROVE  Alone(units', bound', w, r)
<1>1. Beside(units, bound, w, r, u, q)
  BY DEF Beside
<1> QED
  BY <1>1, CandidateStops

LEMMA NothingBeside ==
    ASSUME NEW us, NEW bs, NEW w, NEW r, Beside(us, bs, 0, 0, w, r)
    PROVE  Alone(us, bs, w, r)
<1>0. 0 \notin Ids /\ 0 \notin Ports
  BY DEF Ids, Ports
<1> QED
  BY <1>0 DEF Alone, Beside

-----------------------------------------------------------------------------
(* The inductive invariant: where an operation is says which units run,      *)
(* which ports they hold and where nginx forwards to.                        *)

\* Labels at which only the previous release runs, both do, or only the new one.
BeforeHandoff == PreparePhases \cup
    {"start", "abort_remove", "abort_record", "abort_health",
     "reject_record", "reject_health", "reject_cleanup", "rb_start"}
DuringHandoff ==
    {"ready", "activate", "switch", "health", "post_deploy", "post_command", "complete",
     "mark_healthy", "drain", "abort_upstream", "abort_stop",
     "reject_restore", "reject_upstream", "reject_stop",
     "rb_ready", "rb_activate", "rb_switch", "rb_health", "rb_undo_health",
     "rb_reroute", "rb_abandon", "rb_drain"}
AfterHandoff == {"prune", "rb_record", "rb_healthy"}

\* Labels at which nginx still, or again, forwards to the previous release.
OldRoute == BeforeHandoff \cup
    {"ready", "activate", "switch", "abort_upstream", "abort_stop", "reject_stop",
     "rb_ready", "rb_activate", "rb_switch", "rb_abandon"}

\* An operation hands over from job.prev on job.prevPort to job.release on job.port.
HandingOver(p) ==
    /\ pc[p] \in BeforeHandoff \cup DuringHandoff \cup AfterHandoff
    /\ \/ job[p].prev = 0 /\ job[p].prevPort = 0
       \/ job[p].prev \in validated /\ job[p].prevPort = db[job[p].prev].port
    /\ pc[p] \in BeforeHandoff => Alone(units, bound, job[p].prev, job[p].prevPort)
    /\ pc[p] \in DuringHandoff =>
          Beside(units, bound, job[p].prev, job[p].prevPort, job[p].release, job[p].port)
    /\ pc[p] \in AfterHandoff => Alone(units, bound, job[p].release, job[p].port)
    /\ pc[p] \in DuringHandoff \cup AfterHandoff \cup RollbackPhases =>
          job[p].port \in Ports /\ job[p].port # job[p].prevPort
    /\ pc[p] \in Settled \cup RollbackPhases => db[job[p].release].port = job[p].port
    /\ pc[p] \in OldRoute /\ job[p].prev # 0 => upstream = job[p].prevPort
    /\ pc[p] \notin OldRoute => upstream = job[p].port

Resting ==
    \/ current = 0 /\ Alone(units, bound, 0, 0)
    \/ /\ current \in validated
       /\ Alone(units, bound, current, db[current].port)
       /\ upstream = db[current].port

HandoffInv == ~clashed =>
    /\ \A d \in validated : db[d].status = "completed" /\ db[d].port \in Ports
    /\ \A p \in Procs : pc[p] \notin CancelPhases
    /\ lock = NoProc => Resting
    /\ \A p \in Procs : pc[p] \in Critical => HandingOver(p)

-----------------------------------------------------------------------------
(* Steps that move nothing: neither units nor nginx, nor the operation from  *)
(* one part of the handoff to another.                                       *)

SameJob(p) ==
    /\ job'[p].prev = job[p].prev /\ job'[p].prevPort = job[p].prevPort
    /\ job'[p].release = job[p].release /\ job'[p].port = job[p].port

\* The records that count stay: completed ones on their ports.
RecordsStay ==
    /\ validated \subseteq validated'
    /\ \A d \in validated : db'[d].port = db[d].port

Quiet(p) ==
    /\ SameJob(p) /\ UNCHANGED <<units, bound, upstream>>
    /\ \/ pc[p] \in BeforeHandoff /\ pc'[p] \in BeforeHandoff
       \/ pc[p] \in DuringHandoff /\ pc'[p] \in DuringHandoff
       \/ pc[p] \in AfterHandoff /\ pc'[p] \in AfterHandoff
    /\ pc'[p] \in OldRoute <=> pc[p] \in OldRoute
    /\ pc'[p] \in Settled \cup RollbackPhases <=> pc[p] \in Settled \cup RollbackPhases
    /\ pc'[p] \in RollbackPhases <=> pc[p] \in RollbackPhases

LEMMA Regions ==
    /\ BeforeHandoff \cap DuringHandoff = {} /\ BeforeHandoff \cap AfterHandoff = {}
    /\ DuringHandoff \cap AfterHandoff = {}
    /\ BeforeHandoff \subseteq OldRoute
    /\ "idle" \notin BeforeHandoff \cup DuringHandoff \cup AfterHandoff
BY DEF BeforeHandoff, DuringHandoff, AfterHandoff, OldRoute, PreparePhases

LEMMA QuietKeeps ==
    ASSUME NEW p \in Procs, HandingOver(p), Quiet(p), RecordsStay,
           pc[p] \in Settled \cup RollbackPhases => job[p].release \in validated
    PROVE  HandingOver(p)'
<1> USE DEF SameJob, Quiet
<1>1. \/ job'[p].prev = 0 /\ job'[p].prevPort = 0
      \/ job'[p].prev \in validated' /\ job'[p].prevPort = db'[job'[p].prev].port
  BY DEF HandingOver, RecordsStay
<1>2. /\ pc'[p] \in BeforeHandoff \cup DuringHandoff \cup AfterHandoff
      /\ pc'[p] \in BeforeHandoff => pc[p] \in BeforeHandoff
      /\ pc'[p] \in DuringHandoff => pc[p] \in DuringHandoff
      /\ pc'[p] \in AfterHandoff => pc[p] \in AfterHandoff
  BY Regions
<1>3. pc'[p] \in Settled \cup RollbackPhases => db'[job'[p].release].port = job'[p].port
  BY DEF HandingOver, RecordsStay
<1> QED
  BY <1>1, <1>2, <1>3 DEF HandingOver

\* The steps that are not quiet, when nothing fails and no operation ends.
MovingStep(p) ==
    \/ StartSucceeds(p) \/ SwitchSucceeds(p) \/ Complete(p) \/ Drain(p)
    \/ AbortStop(p) \/ RejectUpstream(p) \/ RejectStop(p)
    \/ RbStart(p) \/ RbSwitch(p) \/ RbReroute(p) \/ RbDrain(p)

EndingStep(p) ==
    \/ Prune(p) \/ AbortHealth(p) \/ RejectCleanup(p)
    \/ RbStartFails(p) \/ RbAbandon(p) \/ RbHealthy(p)

LEMMA QuietPrepare ==
    ASSUME Handoff, ~ NginxFaults, ~ UnitFaults, TypeInv, NEW p \in Procs,
           HandingOver(p), PrepareStep(p), ~ StartSucceeds(p), ~ SwitchSucceeds(p)
    PROVE  Quiet(p)
<1> USE DEF host, ghost, record, SameJob, BeforeHandoff, DuringHandoff, AfterHandoff,
        OldRoute, Settled, RollbackPhases, PreparePhases
<1>1. pc \in [Procs -> Labels] /\ job \in [Procs -> Jobs]
  BY DEF TypeInv, TypeOK
<1>2. CASE PhaseSucceeds(p)
  <2> DEFINE j == [job[p] EXCEPT !.commit = @ \/ pc[p] = "checkout"]
  <2>1. /\ pc[p] \in PreparePhases /\ job' = [job EXCEPT ![p] = j]
        /\ UNCHANGED <<units, bound, upstream>>
        /\ Goto(p, "abort_remove") \/ Goto(p, NextPhase(pc[p]))
    BY <1>2 DEF PhaseSucceeds
  <2>2. /\ j.prev = job[p].prev /\ j.prevPort = job[p].prevPort
        /\ j.release = job[p].release /\ j.port = job[p].port
    BY <1>1 DEF Jobs
  <2> HIDE DEF j
  <2>3. job'[p] = j
    BY <1>1, <2>1
  <2>4. pc'[p] \in PreparePhases \cup {"abort_remove", "start"}
    BY <1>1, <2>1 DEF Goto, NextPhase
  <2> QED
    BY <2>1, <2>2, <2>3, <2>4 DEF Quiet
<1>3. CASE PhaseFails(p)
  <2>1. /\ pc[p] \in PreparePhases /\ Goto(p, "abort_remove")
        /\ UNCHANGED <<units, bound, upstream>>
    BY <1>3 DEF PhaseFails
  <2>2. PICK resolved \in BOOLEAN :
            job' = [job EXCEPT ![p] = [job[p] EXCEPT !.commit = resolved]]
    BY <1>1, <1>3 DEF PhaseFails, Jobs
  <2>3. /\ job'[p].prev = job[p].prev /\ job'[p].prevPort = job[p].prevPort
        /\ job'[p].release = job[p].release /\ job'[p].port = job[p].port
    BY <1>1, <2>2 DEF Jobs
  <2>4. pc'[p] = "abort_remove"
    BY <1>1, <2>1 DEF Goto
  <2> QED
    BY <2>1, <2>3, <2>4 DEF Quiet
<1>4. CASE StartFails(p) \/ ReadySucceeds(p) \/ ReadyFails(p)
  BY <1>1, <1>4 DEF StartFails, ReadySucceeds, ReadyFails, Goto, Quiet
<1>5. CASE Activate(p)
  <2>1. pc[p] = "activate" /\ job[p].port # 0
    BY <1>5 DEF Activate, HandingOver, Ports
  <2> QED
    BY <1>1, <1>5, <2>1 DEF Activate, Goto, Quiet
<1>6. CASE SwitchFails(p)
  BY <1>6 DEF SwitchFails
<1> QED
  BY <1>2, <1>3, <1>4, <1>5, <1>6 DEF PrepareStep

LEMMA QuietSettle ==
    ASSUME Handoff, ~ NginxFaults, ~ UnitFaults, TypeInv, NEW p \in Procs, HandingOver(p),
           ValidateStep(p) \/ AbortStep(p) \/ RejectStep(p) \/ RollbackStep(p),
           ~ MovingStep(p), ~ EndingStep(p)
    PROVE  Quiet(p)
<1> USE DEF host, ghost, record, SameJob, BeforeHandoff, DuringHandoff, AfterHandoff,
        OldRoute, Settled, RollbackPhases, PreparePhases
<1>1. pc \in [Procs -> Labels] /\ job \in [Procs -> Jobs]
  BY DEF TypeInv, TypeOK
<1>2. CASE HealthPasses(p) \/ HealthFails(p) \/ PostDeployBegins(p) \/ PostDeployFails(p)
           \/ MarkHealthy(p)
  <2>1. SameJob(p)
    BY <1>1, <1>2 DEF HealthPasses, HealthFails, PostDeployBegins, PostDeployFails,
       MarkHealthy, Jobs
  <2> QED
    BY <1>1, <1>2, <2>1 DEF HealthPasses, HealthFails, PostDeployBegins, PostDeployFails,
       MarkHealthy, Goto, Quiet
<1>3. CASE PostDeploySucceeds(p)
  <2>1. SameJob(p)
    BY <1>1, <1>3 DEF PostDeploySucceeds, Jobs
  <2> QED
    BY <1>1, <1>3, <2>1 DEF PostDeploySucceeds, Goto, Quiet
<1>4. CASE AbortRestore(p) \/ AbortUpstream(p) \/ AbortRemove(p)
  <2>1. CASE AbortRestore(p)
    BY <2>1 DEF AbortRestore, HandingOver
  <2>2. CASE AbortUpstream(p)
    <3>1. pc[p] = "abort_upstream" /\ (job[p].prevPort # 0 => upstream = job[p].prevPort)
      BY <2>2 DEF AbortUpstream, HandingOver, TypeInv, TypeOK, Ids
    <3>2. upstream' = upstream
      BY <2>2, <3>1 DEF AbortUpstream
    <3> QED
      BY <1>1, <2>2, <3>1, <3>2 DEF AbortUpstream, Goto, Quiet
  <2>3. CASE AbortRemove(p)
    BY <1>1, <2>3 DEF AbortRemove, Goto, Quiet
  <2> QED
    BY <1>4, <2>1, <2>2, <2>3
<1>5. CASE AbortRecord(p)
  <2>1. SameJob(p)
    BY <1>1, <1>5 DEF AbortRecord, Jobs
  <2> QED
    BY <1>1, <1>5, <2>1 DEF AbortRecord, Goto, Quiet
<1>6. CASE RejectRestore(p)
  <2>1. SameJob(p)
    BY <1>1, <1>6 DEF RejectRestore, Jobs
  <2>2. pc[p] = "reject_restore" /\ job[p].port # 0
    BY <1>6 DEF RejectRestore, HandingOver, Ports
  <2> QED
    BY <1>1, <1>6, <2>1, <2>2 DEF RejectRestore, Goto, Quiet
<1>7. CASE RejectRecord(p) \/ RejectHealth(p)
  BY <1>1, <1>7 DEF RejectRecord, RejectHealth, Goto, Quiet
<1>8. CASE RejectUpstreamFails(p) \/ RejectStopFails(p) \/ RbDrainFails(p)
  BY <1>8 DEF RejectUpstreamFails, RejectStopFails, RbDrainFails, StopFails
<1>9. CASE RbReady(p) \/ RbHealth(p) \/ RbRecord(p)
  BY <1>1, <1>9 DEF RbReady, RbHealth, RbRecord, Goto, Quiet
<1>10. CASE RbActivate(p)
  <2>1. pc[p] = "rb_activate" /\ job[p].port # 0
    BY <1>10 DEF RbActivate, HandingOver, Ports
  <2> QED
    BY <1>1, <1>10, <2>1 DEF RbActivate, Goto, Quiet
<1>11. CASE RbReactivate(p)
  BY <1>1, <1>11 DEF RbReactivate, Goto, Quiet, HandingOver
<1> QED
  BY <1>2, <1>3, <1>4, <1>5, <1>6, <1>7, <1>8, <1>9, <1>10, <1>11
     DEF ValidateStep, AbortStep, RejectStep, RollbackStep, MovingStep, EndingStep

-----------------------------------------------------------------------------
(* The steps that start or stop a unit, or move nginx.                      *)

\* Where a handoff is, as far as its moving steps tell.
Hands(p) ==
    /\ \/ job[p].prev = 0 /\ job[p].prevPort = 0
       \/ /\ job[p].prev \in Ids /\ job[p].prevPort \in Ports
          /\ job[p].prev \in validated /\ job[p].prevPort = db[job[p].prev].port
    /\ job[p].release \in Ids /\ job[p].release # job[p].prev

LEMMA HandsOf ==
    ASSUME TypeInv, VouchInv, ReleaseInv, NEW p \in Procs, HandingOver(p),
           \A d \in validated : db[d].port \in Ports
    PROVE  Hands(p)
<1>1. pc[p] \in Critical
  BY DEF HandingOver, BeforeHandoff, DuringHandoff, AfterHandoff, Critical, DeployPhases,
         RollbackPhases, PreparePhases, TrialPhases, SettlePhases, AbortPhases, RejectPhases
<1>2. validated \subseteq Ids /\ job[p].release \in Ids
  BY <1>1 DEF TypeInv, TypeOK, ActiveJobs
<1>3. job[p].release # job[p].prev
  <2>1. Vouched(p) /\ Standing(p)
    BY DEF VouchInv, ReleaseInv
  <2>2. CASE pc[p] \in RollbackPhases
    BY <2>1, <2>2 DEF Vouched
  <2>3. CASE pc[p] \in Reversible
    BY <2>1, <2>3, LabelSets DEF Vouched, Standing
  <2>4. CASE pc[p] \in Settled
    BY <2>1, <2>4, LabelSets DEF Vouched
  <2>5. DeployPhases = Reversible \cup Settled
    BY DEF Reversible, Settled, DeployPhases, SettlePhases
  <2> QED
    BY <1>1, <2>2, <2>3, <2>4, <2>5, LabelSets
<1> QED
  BY <1>2, <1>3 DEF Hands, HandingOver

\* What a step that moves something leaves as it was.
MovesOn(p) ==
    /\ SameJob(p) /\ RecordsStay
    /\ pc'[p] \in Settled \cup RollbackPhases => db'[job[p].release].port = job[p].port

\* It comes to the same to say where the operation is after the step.
LEMMA MovedInto ==
    ASSUME NEW p \in Procs, Hands(p), MovesOn(p),
           pc'[p] \in BeforeHandoff \cup DuringHandoff \cup AfterHandoff,
           pc'[p] \in BeforeHandoff => Alone(units', bound', job[p].prev, job[p].prevPort),
           pc'[p] \in DuringHandoff =>
              Beside(units', bound', job[p].prev, job[p].prevPort, job[p].release, job[p].port),
           pc'[p] \in AfterHandoff => Alone(units', bound', job[p].release, job[p].port),
           pc'[p] \in DuringHandoff \cup AfterHandoff \cup RollbackPhases =>
              job[p].port \in Ports /\ job[p].port # job[p].prevPort,
           pc'[p] \in OldRoute /\ job[p].prev # 0 => upstream' = job[p].prevPort,
           pc'[p] \notin OldRoute => upstream' = job[p].port
    PROVE  HandingOver(p)'
<1> USE DEF SameJob, MovesOn
<1>1. \/ job'[p].prev = 0 /\ job'[p].prevPort = 0
      \/ job'[p].prev \in validated' /\ job'[p].prevPort = db'[job'[p].prev].port
  BY DEF Hands, RecordsStay
<1> QED
  BY <1>1 DEF HandingOver

LEMMA SwitchMoves ==
    ASSUME TypeInv, NEW p \in Procs, HandingOver(p), Hands(p), MovesOn(p),
           SwitchSucceeds(p) \/ RejectUpstream(p) \/ RbSwitch(p) \/ RbReroute(p),
           ~ NginxFaults
    PROVE  HandingOver(p)'
<1> USE DEF BeforeHandoff, DuringHandoff, AfterHandoff, OldRoute, Settled, RollbackPhases,
        PreparePhases
<1>1. pc \in [Procs -> Labels] /\ 0 \notin Ids /\ 0 \notin Ports
  BY DEF TypeInv, TypeOK, Ids, Ports
<1>2. /\ UNCHANGED <<units, bound>>
      /\ \/ pc[p] = "switch" /\ pc'[p] = "health" /\ upstream' = job[p].port
         \/ /\ pc[p] = "reject_upstream" /\ pc'[p] = "reject_stop"
            /\ job[p].prev # 0 => upstream' = job[p].prevPort
         \/ pc[p] = "rb_switch" /\ pc'[p] = "rb_health" /\ upstream' = job[p].port
         \/ /\ pc[p] = "rb_reroute" /\ pc'[p] = "rb_abandon"
            /\ job[p].prev # 0 => upstream' = job[p].prevPort
  BY <1>1 DEF SwitchSucceeds, RejectUpstream, RbSwitch, RbReroute, Goto, host, Hands
<1>3. /\ pc[p] \in DuringHandoff
      /\ pc'[p] \in DuringHandoff /\ pc'[p] \notin BeforeHandoff \cup AfterHandoff
      /\ pc'[p] \in OldRoute /\ job[p].prev # 0 => upstream' = job[p].prevPort
      /\ pc'[p] \notin OldRoute => upstream' = job[p].port
  BY <1>2
<1>4. /\ Beside(units', bound', job[p].prev, job[p].prevPort, job[p].release, job[p].port)
      /\ job[p].port \in Ports /\ job[p].port # job[p].prevPort
  BY <1>2, <1>3 DEF HandingOver, Beside
<1> HIDE DEF BeforeHandoff, DuringHandoff, AfterHandoff, OldRoute, RollbackPhases
<1> QED
  BY <1>3, <1>4, MovedInto

LEMMA StopMoves ==
    ASSUME TypeInv, Handoff, NEW p \in Procs, HandingOver(p), Hands(p), MovesOn(p),
           AbortStop(p) \/ RejectStop(p) \/ Drain(p) \/ RbDrain(p), ~ UnitFaults
    PROVE  HandingOver(p)'
<1> USE DEF BeforeHandoff, DuringHandoff, AfterHandoff, OldRoute, Settled, RollbackPhases,
        PreparePhases
<1>1. pc \in [Procs -> Labels] /\ 0 \notin Ids /\ 0 \notin Ports
  BY DEF TypeInv, TypeOK, Ids, Ports
<1>2. /\ pc[p] \in DuringHandoff /\ upstream' = upstream
      /\ \/ /\ pc[p] \in {"abort_stop", "reject_stop"}
            /\ pc'[p] \in {"abort_remove", "reject_record"} /\ StopUnit(job[p].release)
         \/ /\ pc[p] \in {"drain", "rb_drain"} /\ pc'[p] \in {"prune", "rb_record"}
            /\ IF job[p].prevPort # 0 THEN StopUnit(job[p].prev) ELSE UNCHANGED <<units, bound>>
  BY <1>1 DEF AbortStop, RejectStop, Drain, RbDrain, StopFails, Goto, Hands
<1>3. /\ Beside(units, bound, job[p].prev, job[p].prevPort, job[p].release, job[p].port)
      /\ job[p].port \in Ports /\ job[p].port # job[p].prevPort
  BY <1>2 DEF HandingOver
<1>4. CASE pc[p] \in {"abort_stop", "reject_stop"}
  <2>1. Alone(units', bound', job[p].prev, job[p].prevPort)
    BY <1>2, <1>3, <1>4, CandidateStops DEF Hands
  <2>2. /\ pc'[p] \in BeforeHandoff /\ pc'[p] \in OldRoute
        /\ pc'[p] \notin DuringHandoff \cup AfterHandoff \cup RollbackPhases
        /\ job[p].prev # 0 => upstream' = job[p].prevPort
    BY <1>2, <1>4 DEF HandingOver
  <2> HIDE DEF BeforeHandoff, DuringHandoff, AfterHandoff, OldRoute, RollbackPhases
  <2> QED
    BY <2>1, <2>2, MovedInto
<1>5. CASE pc[p] \in {"drain", "rb_drain"}
  <2>1. Alone(units', bound', job[p].release, job[p].port)
    <3>1. CASE job[p].prevPort = 0
      BY <1>1, <1>2, <1>3, <1>5, <3>1, NothingBeside DEF Hands
    <3>2. CASE job[p].prevPort # 0
      <4>1. job[p].prev \in Ids /\ job[p].prevPort \in Ports /\ StopUnit(job[p].prev)
        BY <1>2, <1>5, <3>2 DEF Hands
      <4> QED
        BY <1>3, <4>1, PreviousStops DEF Hands
    <3> QED
      BY <3>1, <3>2
  <2>2. /\ pc'[p] \in AfterHandoff /\ pc'[p] \notin OldRoute
        /\ pc'[p] \notin BeforeHandoff \cup DuringHandoff
        /\ upstream' = job[p].port
    BY <1>2, <1>5 DEF HandingOver
  <2> HIDE DEF BeforeHandoff, DuringHandoff, AfterHandoff, OldRoute, RollbackPhases
  <2> QED
    BY <1>3, <2>1, <2>2, MovedInto
<1> QED
  BY <1>2, <1>4, <1>5

LEMMA StartMoves ==
    ASSUME TypeInv, Handoff, NEW p \in Procs, HandingOver(p), Hands(p), RecordsStay,
           Standing(p), StartSucceeds(p) \/ (RbStart(p) /\ MovesOn(p))
    PROVE  HandingOver(p)'
<1> USE DEF BeforeHandoff, DuringHandoff, AfterHandoff, OldRoute, Settled, RollbackPhases,
        PreparePhases
<1>1. pc \in [Procs -> Labels] /\ job \in [Procs -> Jobs] /\ 0 \notin Ids /\ 0 \notin Ports
  BY DEF TypeInv, TypeOK, Ids, Ports
<1>2. CASE StartSucceeds(p)
  <2> DEFINE q == InactivePort(job[p].prevPort)
             j == [job[p] EXCEPT !.port = q]
  <2>1. /\ StartUnit(j.id, j.port) /\ job' = [job EXCEPT ![p] = j]
        /\ pc[p] = "start" /\ Goto(p, "ready") /\ upstream' = upstream
    BY <1>2 DEF StartSucceeds
  <2>2. q \in Ports /\ q # job[p].prevPort
    BY DEF InactivePort, Ports, PrimaryPort, SecondaryPort
  <2>3. /\ j.id = job[p].id /\ j.port = q /\ j.prev = job[p].prev
        /\ j.prevPort = job[p].prevPort /\ j.release = job[p].release
    BY <1>1 DEF Jobs
  <2> HIDE DEF j, q
  <2>4. job'[p] = j /\ pc'[p] = "ready"
    BY <1>1, <2>1 DEF Goto
  <2>5. Beside(units', bound', job[p].prev, job[p].prevPort, job[p].release, q)
    <3>1. job[p].id = job[p].release
      BY <2>1 DEF Standing, Reversible, DeployPhases, TrialPhases
    <3>2. Alone(units, bound, job[p].prev, job[p].prevPort)
      BY <2>1 DEF HandingOver
    <3> QED
      BY <2>1, <2>2, <2>3, <3>1, <3>2, StartsBeside DEF Hands
  <2>6. /\ pc'[p] \in DuringHandoff /\ pc'[p] \notin BeforeHandoff \cup AfterHandoff
        /\ pc'[p] \notin Settled \cup RollbackPhases
        /\ pc'[p] \in OldRoute /\ (job[p].prev # 0 => upstream' = job[p].prevPort)
    BY <2>1, <2>4 DEF HandingOver
  <2>7. \/ job[p].prev = 0 /\ job[p].prevPort = 0
        \/ job[p].prev \in validated' /\ job[p].prevPort = db'[job[p].prev].port
    BY DEF Hands, RecordsStay
  <2> HIDE DEF BeforeHandoff, DuringHandoff, AfterHandoff, OldRoute, RollbackPhases, Settled
  <2> QED
    BY <2>2, <2>3, <2>4, <2>5, <2>6, <2>7 DEF HandingOver
<1>3. CASE RbStart(p) /\ MovesOn(p)
  <2>1. /\ pc[p] = "rb_start" /\ pc'[p] = "rb_ready" /\ upstream' = upstream
        /\ StartUnit(job[p].release, job[p].port)
    BY <1>1, <1>3 DEF RbStart, Goto
  <2>2. /\ job[p].port \in Ports /\ job[p].port # job[p].prevPort
        /\ Alone(units, bound, job[p].prev, job[p].prevPort)
        /\ job[p].prev # 0 => upstream' = job[p].prevPort
    BY <2>1 DEF HandingOver
  <2>3. Beside(units', bound', job[p].prev, job[p].prevPort, job[p].release, job[p].port)
    BY <2>1, <2>2, StartsBeside DEF Hands
  <2>4. /\ pc'[p] \in DuringHandoff /\ pc'[p] \notin BeforeHandoff \cup AfterHandoff
        /\ pc'[p] \in OldRoute
    BY <2>1
  <2> HIDE DEF BeforeHandoff, DuringHandoff, AfterHandoff, OldRoute, RollbackPhases, Settled
  <2> QED
    BY <1>3, <2>2, <2>3, <2>4, MovedInto
<1> QED
  BY <1>2, <1>3

LEMMA CompleteMoves ==
    ASSUME TypeInv, NEW p \in Procs, HandingOver(p), Hands(p), MovesOn(p), Complete(p)
    PROVE  HandingOver(p)'
<1> USE DEF BeforeHandoff, DuringHandoff, AfterHandoff, OldRoute, PreparePhases
<1>1. /\ pc[p] = "complete" /\ pc'[p] = "mark_healthy"
      /\ UNCHANGED <<units, bound, upstream>>
  BY DEF Complete, Goto, TypeInv, TypeOK, host
<1>2. /\ pc[p] \in DuringHandoff \ OldRoute
      /\ pc'[p] \in DuringHandoff /\ pc'[p] \notin BeforeHandoff \cup AfterHandoff
      /\ pc'[p] \notin OldRoute
  BY <1>1
<1>3. /\ Beside(units', bound', job[p].prev, job[p].prevPort, job[p].release, job[p].port)
      /\ job[p].port \in Ports /\ job[p].port # job[p].prevPort /\ upstream' = job[p].port
  BY <1>1, <1>2 DEF HandingOver
<1> HIDE DEF BeforeHandoff, DuringHandoff, AfterHandoff, OldRoute
<1> QED
  BY <1>2, <1>3, MovedInto

\* An operation that ends leaves one release running, the live one.
LEMMA EndingRests ==
    ASSUME ~ UnitFaults, CoreInv, FirstInv, crashes = 0, NEW p \in Procs,
           HandingOver(p), Hands(p), RecordsStay, EndingStep(p)
    PROVE  Resting'
<1> USE DEF CoreInv, BeforeHandoff, DuringHandoff, AfterHandoff, OldRoute, Settled,
        RollbackPhases, PreparePhases, host, RbUntried, RbUndone
<1>1. Vouched(p) /\ Standing(p) /\ 0 \notin Ids /\ 0 \notin Ports /\ validated \subseteq Ids
  BY DEF VouchInv, ReleaseInv, TypeInv, TypeOK, Ids, Ports
<1>2. CASE Prune(p) \/ RbHealthy(p)
  <2>1. /\ pc[p] \in {"prune", "rb_healthy"}
        /\ UNCHANGED <<units, bound, upstream, current>>
    BY <1>2 DEF Prune, RbHealthy
  <2>2. current = job[p].release /\ job[p].release \in validated
    BY <1>1, <2>1 DEF Vouched, DeployPhases, SettlePhases
  <2>3. /\ Alone(units, bound, current, job[p].port) /\ upstream = job[p].port
        /\ db[current].port = job[p].port
    BY <2>1, <2>2 DEF HandingOver
  <2> QED
    BY <2>1, <2>2, <2>3 DEF Resting, RecordsStay
<1>3. CASE AbortHealth(p) \/ RejectCleanup(p) \/ RbStartFails(p) \/ RbAbandon(p)
  <2>1. /\ pc[p] \in {"abort_health", "reject_cleanup", "rb_start", "rb_abandon"}
        /\ upstream' = upstream
        /\ current' = IF pc[p] = "reject_cleanup" /\ ~ job[p].restored THEN 0 ELSE current
    BY <1>3 DEF AbortHealth, RejectCleanup, RbStartFails, RbAbandon
  <2>2. current' = job[p].prev
    <3>1. CASE pc[p] \in {"rb_start", "rb_abandon"}
      BY <1>1, <2>1, <3>1 DEF Vouched
    <3>2. CASE pc[p] \in {"abort_health", "reject_cleanup"} /\ validated # {}
      <4>1. /\ pc[p] \in OnPrevious
            /\ pc[p] = "reject_cleanup" => pc[p] \in RejectPhases \ {"reject_restore"}
        BY <3>2 DEF OnPrevious, AbortPhases, RejectPhases
      <4> QED
        BY <1>1, <2>1, <3>2, <4>1 DEF Standing
    <3>3. CASE pc[p] \in {"abort_health", "reject_cleanup"} /\ validated = {}
      <4>1. pc[p] \in Critical /\ (pc[p] = "abort_health" => pc[p] \in AbortPhases)
        BY <3>3 DEF Critical, DeployPhases, AbortPhases, RejectPhases
      <4> QED
        BY <2>1, <3>3, <4>1 DEF FirstInv, First
    <3> QED
      BY <2>1, <3>1, <3>2, <3>3
  <2>3. Alone(units', bound', job[p].prev, job[p].prevPort)
    <3>1. CASE RbAbandon(p)
      <4>1. /\ StopUnit(job[p].release)
            /\ Beside(units, bound, job[p].prev, job[p].prevPort, job[p].release, job[p].port)
            /\ job[p].port \in Ports /\ job[p].port # job[p].prevPort
        BY <3>1 DEF RbAbandon, StopFails, HandingOver
      <4> QED
        BY <4>1, CandidateStops DEF Hands
    <3>2. CASE AbortHealth(p) \/ RejectCleanup(p) \/ RbStartFails(p)
      <4>1. pc[p] \in BeforeHandoff /\ UNCHANGED <<units, bound>>
        BY <3>2 DEF AbortHealth, RejectCleanup, RbStartFails
      <4> QED
        BY <4>1 DEF HandingOver
    <3> QED
      BY <1>3, <3>1, <3>2
  <2>4. job[p].prev # 0 => upstream' = job[p].prevPort
    BY <2>1 DEF HandingOver
  <2> QED
    BY <1>1, <2>2, <2>3, <2>4 DEF Resting, RecordsStay, Hands
<1> QED
  BY <1>2, <1>3 DEF EndingStep

-----------------------------------------------------------------------------
(* The records the handoff relies on: a completed deployment keeps its      *)
(* status and its port, for only its own last steps write it again.         *)

LEMMA ValidatedStay ==
    ASSUME CoreInv, NEW p \in Procs, ~clashed, HandoffInv,
           Begin(p) \/ RbBegin(p) \/ CriticalStep(p)
    PROVE  /\ \A d \in validated : db'[d].status = "completed" /\ db'[d].port = db[d].port
           /\ pc[p] = "complete" => /\ db'[job[p].id].status = "completed"
                                    /\ db'[job[p].id].port = job[p].port
<1> USE DEF CoreInv
<1>1. validated \subseteq Recorded /\ \A d \in validated : db[d].status = "completed"
  BY DEF VouchInv, HandoffInv
<1>2. CASE Begin(p)
  <2> DEFINE j == [NoJob EXCEPT !.id = NextId, !.release = NextId,
                                !.prev = current, !.prevPort = NodePort(current),
                                !.commands = PostCommands]
  <2>1. Upsert(j, "started") /\ pc[p] = "idle"
    BY <1>2 DEF Begin
  <2>2. j.id = NextId
    BY DEF NoJob
  <2>3. PICK n \in 0 .. MaxDeployments : Recorded = 1 .. n
    BY DEF ReleaseInv, Recording
  <2>4. NextId \notin validated
    BY <1>1, <2>3, NextIdFresh
  <2> HIDE DEF j
  <2>5. \A d \in validated : db'[d] = db[d]
    BY <2>1, <2>2, <2>4 DEF Upsert, TypeInv, TypeOK
  <2> QED
    BY <1>1, <2>1, <2>5
<1>3. CASE RbBegin(p)
  BY <1>1, <1>3 DEF RbBegin, record
<1>4. CASE CriticalStep(p)
  <2>1. CASE db' = db
    BY <1>1, <1>4, <2>1, CriticalWrites
  <2>2. CASE db' # db
    <3>1. /\ \A d \in Ids \ {job[p].id} : db'[d] = db[d]
          /\ pc[p] \in Reversible \cup (RollbackPhases \ {"rb_healthy"}) \cup {"drain"}
          /\ pc[p] \in {"complete", "drain"} =>
                 /\ db'[job[p].id].status = "completed"
                 /\ db'[job[p].id].port = job[p].port
      BY <1>4, <2>2, CriticalWrites
    <3>2. job[p].id \in validated => pc[p] = "drain"
      BY <1>1, <3>1 DEF VouchInv, Vouched, ReleaseInv, Recording
    <3>3. pc[p] = "drain" => /\ job[p].release = job[p].id
                             /\ db[job[p].release].port = job[p].port
      <4> SUFFICES ASSUME pc[p] = "drain"
                   PROVE  /\ job[p].release = job[p].id
                          /\ db[job[p].release].port = job[p].port
        OBVIOUS
      <4>1. pc[p] \in Settled /\ pc[p] \in Critical
        BY DEF Settled, Critical, DeployPhases, SettlePhases
      <4> QED
        BY <4>1 DEF HandoffInv, HandingOver, VouchInv, Vouched
    <3>4. validated \subseteq Ids
      BY DEF TypeInv, TypeOK
    <3> QED
      BY <1>1, <3>1, <3>2, <3>3, <3>4
  <2> QED
    BY <2>1, <2>2
<1> QED
  BY <1>2, <1>3, <1>4

-----------------------------------------------------------------------------
(* The operations begin.                                                    *)

\* The port of the live release is that of its record.
LEMMA LivePort ==
    ASSUME CoreInv, Resting,
           \A d \in validated : db[d].status = "completed" /\ db[d].port \in Ports
    PROVE  \/ current = 0 /\ NodePort(current) = 0
           \/ current \in validated /\ NodePort(current) = db[current].port
<1> USE DEF CoreInv
<1>1. /\ 0 \notin Ids /\ 0 \notin Ports /\ validated \subseteq Ids
      /\ \A d \in Completed : db[d].release = d /\ d \in Ids
  BY DEF TypeInv, TypeOK, Ids, Ports, VouchInv, Completed
<1>2. CASE current = 0
  <2>1. NodeRecords(current) = {}
    BY <1>1, <1>2 DEF NodeRecords
  <2> QED
    BY <1>2, <2>1 DEF NodePort
<1>3. CASE current \in validated
  <2>1. current \in Completed /\ db[current].port # 0
    BY <1>1, <1>3 DEF Completed
  <2>2. NodeRecords(current) = {current}
    BY <1>1, <2>1 DEF NodeRecords
  <2>3. Max(NodeRecords(current)) = current
    <3>1. NodeRecords(current) # {} /\ NodeRecords(current) \subseteq Ids
      BY <1>1, <1>3, <2>2
    <3>2. Max(NodeRecords(current)) \in NodeRecords(current)
      BY <3>1, MaxOfIds
    <3> QED
      BY <2>2, <3>2
  <2> QED
    BY <1>3, <2>2, <2>3 DEF NodePort
<1> QED
  BY <1>2, <1>3 DEF Resting

\* What Begin and RbBegin leave in the job, as far as ports go.
LEMMA BeginPorts ==
    ASSUME TypeInv, NEW p \in Procs, Begin(p)
    PROVE  /\ pc'[p] = "source" /\ job'[p].prev = current
           /\ job'[p].prevPort = NodePort(current)
           /\ UNCHANGED <<units, bound, upstream, current, validated>>
<1> DEFINE j == [NoJob EXCEPT !.id = NextId, !.release = NextId,
                              !.prev = current, !.prevPort = NodePort(current),
                              !.commands = PostCommands]
<1>1. job' = [job EXCEPT ![p] = j] /\ Goto(p, "source")
  BY DEF Begin
<1>2. j.prev = current /\ j.prevPort = NodePort(current)
  BY DEF NoJob
<1> HIDE DEF j
<1>3. job'[p] = j /\ pc'[p] = "source"
  BY <1>1 DEF TypeInv, TypeOK, Goto
<1> QED
  BY <1>2, <1>3 DEF Begin, host, ghost

LEMMA RbBeginPorts ==
    ASSUME TypeInv, NEW p \in Procs, RbBegin(p), ~clashed'
    PROVE  \E t \in Completed :
              /\ job'[p].release = db[t].release /\ job'[p].port = db[t].port
              /\ db[t].port # 0 => pc'[p] = "rb_start" /\ db[t].port # NodePort(current)
              /\ job'[p].prev = current /\ job'[p].prevPort = NodePort(current)
              /\ UNCHANGED <<db, units, bound, upstream, current, validated>>
<1> DEFINE n == Max(RollbackTargets)
           j == [NoJob EXCEPT !.id = NextId, !.release = db[n].release,
                              !.port = db[n].port, !.commit = db[n].commit,
                              !.prev = current, !.prevPort = NodePort(current)]
<1>1. /\ job' = [job EXCEPT ![p] = j] /\ RollbackTargets # {}
      /\ Goto(p, IF db[n].port # 0 THEN "rb_start" ELSE "rb_activate")
      /\ clashed' = (clashed \/ (db[n].port # 0 /\ db[n].port = NodePort(current)))
  BY DEF RbBegin
<1>2. /\ j.release = db[n].release /\ j.port = db[n].port
      /\ j.prev = current /\ j.prevPort = NodePort(current)
  BY DEF NoJob
<1>3. n \in Completed
  <2>1. RollbackTargets \subseteq Ids
    BY DEF RollbackTargets, Completed
  <2>2. n \in RollbackTargets
    BY <1>1, <2>1, MaxOfIds
  <2> QED
    BY <2>2 DEF RollbackTargets
<1> HIDE DEF j, n
<1>4. job'[p] = j /\ pc'[p] = (IF db[n].port # 0 THEN "rb_start" ELSE "rb_activate")
  BY <1>1 DEF TypeInv, TypeOK, Goto
<1>5. UNCHANGED <<db, units, bound, upstream, current, validated>>
  BY DEF RbBegin, host, record
<1> QED
  BY <1>1, <1>2, <1>3, <1>4, <1>5

LEMMA RequestHands ==
    ASSUME CoreInv, NEW p \in Procs, HandoffInv, ~clashed, ~clashed', lock = NoProc,
           Begin(p) \/ RbBegin(p)
    PROVE  HandingOver(p)'
<1> USE DEF CoreInv, BeforeHandoff, DuringHandoff, AfterHandoff, OldRoute, Settled,
        RollbackPhases, PreparePhases
<1>1. /\ Resting
      /\ \A d \in validated : db[d].status = "completed" /\ db[d].port \in Ports
  BY DEF HandoffInv
<1>2. /\ \/ current = 0 /\ NodePort(current) = 0
         \/ current \in validated /\ NodePort(current) = db[current].port
      /\ Alone(units, bound, current, NodePort(current))
      /\ current # 0 => upstream = NodePort(current)
  BY <1>1, LivePort DEF Resting, TypeInv, TypeOK, Ids
<1>3. \A d \in validated : db'[d].port = db[d].port
  BY ValidatedStay
<1>4. CASE Begin(p)
  <2>1. /\ pc'[p] = "source" /\ job'[p].prev = current
        /\ job'[p].prevPort = NodePort(current)
        /\ UNCHANGED <<units, bound, upstream, current, validated>>
    BY <1>4, BeginPorts
  <2> QED
    BY <1>2, <1>3, <2>1 DEF HandingOver
<1>5. CASE RbBegin(p)
  <2>1. PICK t \in Completed :
              /\ job'[p].release = db[t].release /\ job'[p].port = db[t].port
              /\ db[t].port # 0 => pc'[p] = "rb_start" /\ db[t].port # NodePort(current)
              /\ job'[p].prev = current /\ job'[p].prevPort = NodePort(current)
              /\ UNCHANGED <<db, units, bound, upstream, current, validated>>
    BY <1>5, RbBeginPorts
  <2>2. t \in validated /\ db[t].release = t /\ db[t].port \in Ports /\ db[t].port # 0
    BY <1>1 DEF VouchInv, Ports
  <2> QED
    BY <1>2, <2>1, <2>2 DEF HandingOver
<1> QED
  BY <1>4, <1>5

-----------------------------------------------------------------------------
(* Every step keeps the invariant.                                          *)

LEMMA CriticalHands ==
    ASSUME Handoff, ~ NginxFaults, ~ UnitFaults, CoreInv, FirstInv, crashes = 0,
           HandoffInv, NEW p \in Procs, ~clashed, CriticalStep(p)
    PROVE  IF EndingStep(p) THEN Resting' ELSE HandingOver(p)'
<1> USE DEF CoreInv
<1>1. pc[p] \in Critical /\ HandingOver(p) /\ Vouched(p) /\ Standing(p)
  BY CriticalStepPhase DEF HandoffInv, VouchInv, ReleaseInv
<1>2. Hands(p)
  BY <1>1, HandsOf DEF HandoffInv
<1>3. RecordsStay
  BY ValidatedStay, MoveVouches DEF RecordsStay, VouchMove, Step, CriticalStep
<1>4. CASE EndingStep(p)
  BY <1>1, <1>2, <1>3, <1>4, EndingRests
<1>5. CASE StartSucceeds(p)
  <2>1. HandingOver(p)'
    BY <1>1, <1>2, <1>3, <1>5, StartMoves
  <2>2. ~ EndingStep(p)
    BY <1>5 DEF StartSucceeds, EndingStep, Prune, AbortHealth, RejectCleanup, RbStartFails,
       RbAbandon, RbHealthy
  <2> QED
    BY <2>1, <2>2
<1>6. CASE MovingStep(p) /\ ~ StartSucceeds(p) /\ ~ EndingStep(p)
  <2>1. SameJob(p)
    BY <1>6 DEF MovingStep, SwitchSucceeds, Complete, Drain, AbortStop, RejectUpstream,
       RejectStop, RbStart, RbSwitch, RbReroute, RbDrain, SameJob
  <2>2. pc'[p] \in Settled \cup RollbackPhases => db'[job[p].release].port = job[p].port
    <3>1. CASE Complete(p)
      <4>1. pc[p] = "complete" /\ job[p].release = job[p].id
        BY <1>1, <3>1 DEF Complete, Standing, Reversible, DeployPhases, SettlePhases
      <4> QED
        BY <4>1, ValidatedStay
    <3>2. CASE ~ Complete(p)
      <4>1. pc'[p] \in Settled \cup RollbackPhases => pc[p] \in Settled \cup RollbackPhases
        BY <1>6, <3>2 DEF MovingStep, SwitchSucceeds, Drain, AbortStop, RejectUpstream,
           RejectStop, RbStart, RbSwitch, RbReroute, RbDrain, Goto, TypeInv, TypeOK,
           Settled, RollbackPhases
      <4>2. pc[p] \in Settled \cup RollbackPhases => job[p].release \in validated
        BY <1>1 DEF Vouched
      <4> QED
        BY <1>1, <1>3, <4>1, <4>2 DEF HandingOver, RecordsStay
    <3> QED
      BY <3>1, <3>2
  <2>3. MovesOn(p)
    BY <1>3, <2>1, <2>2 DEF MovesOn
  <2> QED
    BY <1>1, <1>2, <1>3, <1>6, <2>3, SwitchMoves, StopMoves, StartMoves, CompleteMoves
       DEF MovingStep
<1>7. CASE ~ MovingStep(p) /\ ~ EndingStep(p)
  <2>1. Quiet(p)
    BY <1>1, <1>7, QuietPrepare, QuietSettle DEF CriticalStep, MovingStep
  <2>2. pc[p] \in Settled \cup RollbackPhases => job[p].release \in validated
    BY <1>1 DEF Vouched
  <2> QED
    BY <1>1, <1>3, <1>7, <2>1, <2>2, QuietKeeps
<1> QED
  BY <1>4, <1>5, <1>6, <1>7

LEMMA HandoffInvNext ==
    ASSUME Handoff, ~ Cancels, ~ NginxFaults, ~ UnitFaults, MaxCrashes = 0,
           CoreInv, KnownInv, FirstInv, HandoffInv, [Next]_vars
    PROVE  HandoffInv'
<1> USE DEF CoreInv
<1>1. CASE UNCHANGED vars
  BY <1>1 DEF vars, record, host, ghost, HandoffInv, HandingOver, Resting, Alone, Beside
<1>2. ASSUME NEW p \in Procs, Request(p) \/ Step(p) \/ Crash(p), ~clashed'
      PROVE  HandoffInv'
  <2>1. crashes = 0 /\ ~ Crash(p) /\ lock \in Procs \cup {NoProc}
    BY DEF TypeInv, TypeOK, Crash
  <2>2. ~clashed
    BY <1>2 DEF Request, Deploy, Redeploy, Begin, RbBegin, CancelLoad, Step, PrepareStep,
       PhaseSucceeds, PhaseFails, StartSucceeds, StartFails, ReadySucceeds, ReadyFails,
       Activate, SwitchSucceeds, SwitchFails, ValidateStep, HealthPasses, HealthFails,
       PostDeployBegins, PostDeploySucceeds, PostDeployFails, Complete, MarkHealthy, Drain,
       Prune, AbortStep, AbortRestore, AbortUpstream, AbortStop, AbortRemove, AbortRecord,
       AbortHealth, RejectStep, RejectRestore, RejectUpstream, RejectUpstreamFails,
       RejectStop, RejectStopFails, RejectRecord, RejectHealth, RejectCleanup,
       RollbackStep, RbStart, RbStartFails, RbReady, RbActivate, RbSwitch, RbHealth,
       RbReactivate, RbReroute, RbAbandon, RbDrain, RbDrainFails, RbRecord, RbHealthy,
       CancelStep, CancelMark, CancelSave, Crash, ghost
  <2>3. Begin(p) \/ RbBegin(p) \/ CriticalStep(p)
    <3>1. ~ Aside(p)
      BY <2>2 DEF Aside, CancelLoad, CancelStep, CancelMark, CancelSave, CancelPhases, HandoffInv
    <3> QED
      BY <1>2, <2>1, <3>1, Kinds
  \* The moving process.
  <2>4. /\ lock' # NoProc => HandingOver(p)'
        /\ lock' = NoProc => Resting'
        /\ pc'[p] \in Critical => HandingOver(p)'
        /\ pc'[p] \notin CancelPhases
    <3>1. CASE Begin(p) \/ RbBegin(p)
      <4>1. lock = NoProc /\ lock' = p /\ pc'[p] \in Critical
        <5>1. /\ lock = NoProc /\ lock' = p
              /\ pc'[p] \in {"source", "rb_start", "rb_activate"}
          BY <3>1, BeginJob, RbBeginJob
        <5> QED
          BY <5>1 DEF Critical, DeployPhases, RollbackPhases, PreparePhases
      <4>2. HandingOver(p)'
        BY <1>2, <2>2, <3>1, <4>1, RequestHands
      <4> QED
        BY <4>1, <4>2, LabelSets, ProcsAssumption
    <3>2. CASE CriticalStep(p)
      <4>1. IF EndingStep(p) THEN Resting' ELSE HandingOver(p)'
        BY <2>1, <2>2, <3>2, CriticalHands
      <4>2. CASE EndingStep(p)
        <5>1. lock = p
          BY <3>2, CriticalStepPhase DEF LockInv
        <5>2. lock' = NoProc /\ pc'[p] = "idle"
          BY <4>2, <5>1 DEF EndingStep, Prune, AbortHealth, RejectCleanup, RbStartFails,
             RbAbandon, RbHealthy, Return, Goto, TypeInv, TypeOK
        <5> QED
          BY <4>1, <4>2, <5>2, LabelSets DEF CancelPhases
      <4>3. CASE ~ EndingStep(p)
        <5>1. HandingOver(p)' /\ pc'[p] # "idle"
          BY <4>1, <4>3, Regions DEF HandingOver
        <5>2. lock' = lock /\ lock = p
          <6>1. Edge(p) /\ lock = p
            BY <3>2, Edges, CriticalStepPhase DEF LockInv
          <6> QED
            BY <5>1, <6>1 DEF Edge, PrepareEdge, ValidateEdge, AbortEdge, RejectEdge,
               RollbackEdge, Kept
        <5>3. pc'[p] \notin CancelPhases
          BY <5>1 DEF HandingOver, BeforeHandoff, DuringHandoff, AfterHandoff, CancelPhases,
             PreparePhases
        <5> QED
          BY <5>1, <5>2, <5>3, ProcsAssumption
      <4> QED
        BY <4>2, <4>3
    <3> QED
      BY <2>3, <3>1, <3>2
  <2>5. \A d \in validated' : db'[d].status = "completed" /\ db'[d].port \in Ports
    <3>1. \A d \in validated : db'[d].status = "completed" /\ db'[d].port \in Ports
      BY <2>2, <2>3, ValidatedStay DEF HandoffInv
    <3>2. CASE validated' = validated
      BY <3>1, <3>2
    <3>3. CASE CriticalStep(p) /\ validated' # validated
      <4>1. pc[p] = "complete" /\ validated' = validated \cup {job[p].id}
        BY <3>3, Edges DEF Edge, PrepareEdge, ValidateEdge, AbortEdge, RejectEdge, RollbackEdge
      <4>2. job[p].port \in Ports
        <5>1. pc[p] \in DuringHandoff /\ pc[p] \in Critical
          BY <4>1 DEF DuringHandoff, Critical, DeployPhases, SettlePhases
        <5> QED
          BY <2>2, <5>1 DEF HandoffInv, HandingOver
      <4> QED
        BY <2>2, <3>1, <3>3, <4>1, <4>2, ValidatedStay
    <3> QED
      BY <2>3, <3>2, <3>3, BeginJob, RbBeginJob
  \* The others stand still outside the lock.
  <2>6. ASSUME NEW q \in Procs, q # p
        PROVE  pc'[q] \notin Critical \cup CancelPhases
    <3>1. pc'[q] = pc[q]
      BY <1>2, <2>6, OthersUnmoved
    <3>2. pc[q] \notin CancelPhases
      BY <2>2 DEF HandoffInv
    <3>3. pc[q] \notin Critical
      <4>1. lock = NoProc \/ lock = p
        BY <2>3, BeginJob, RbBeginJob, CriticalStepPhase DEF LockInv
      <4> QED
        BY <2>6, <4>1, ProcsAssumption DEF LockInv
    <3> QED
      BY <3>1, <3>2, <3>3
  <2> QED
    BY <2>4, <2>5, <2>6 DEF HandoffInv
<1>3. HandoffInv' \/ ~clashed'
  BY DEF HandoffInv
<1> QED
  BY <1>1, <1>2, <1>3 DEF Next

LEMMA HandoffInvInit == Init => HandoffInv
<1> SUFFICES ASSUME Init PROVE HandoffInv
  OBVIOUS
<1>1. current = 0 /\ validated = {} /\ Alone(units, bound, 0, 0)
  BY DEF Init, Alone
<1> QED
  BY <1>1, InitLabels, LabelSets DEF HandoffInv, Resting, CancelPhases

-----------------------------------------------------------------------------
(* The theorems.                                                            *)

LEMMA HandoffServes ==
    ASSUME Handoff, CoreInv, KnownInv, FirstInv, HandoffInv, crashes = 0
    PROVE  TrafficIsServed /\ ReadinessIsTheCandidates
<1> USE DEF CoreInv
<1>0. 0 \notin Ids /\ 0 \notin Ports /\ validated \subseteq Ids /\ lock \in Procs \cup {NoProc}
  BY DEF Ids, Ports, TypeInv, TypeOK
<1> SUFFICES ASSUME ~clashed
             PROVE  /\ TrafficReachesCurrent /\ NoDowntime
                    /\ \A p \in Procs : pc[p] \in {"activate", "rb_activate"} /\ job[p].port # 0
                          => bound[job[p].port] = job[p].release
  BY DEF TrafficIsServed, ReadinessIsTheCandidates
<1>1. lock = NoProc /\ current # 0 => /\ upstream # 0 /\ bound[upstream] = current
  BY <1>0 DEF HandoffInv, Resting, Alone
<1>2. ASSUME NEW p \in Procs, pc[p] \in DuringHandoff
      PROVE  /\ bound[job[p].port] = job[p].release /\ job[p].release \in Ids
             /\ job[p].port \in Ports
             /\ job[p].prev \in Ids => /\ job[p].prevPort \in Ports
                                       /\ bound[job[p].prevPort] = job[p].prev
  <2>1. pc[p] \in Critical
    BY <1>2 DEF DuringHandoff, Critical, DeployPhases, RollbackPhases, PreparePhases,
       TrialPhases, SettlePhases, AbortPhases, RejectPhases
  <2>2. HandingOver(p) /\ Hands(p)
    BY <2>1, HandsOf DEF HandoffInv
  <2> QED
    BY <1>0, <1>2, <2>2 DEF HandingOver, Hands, Beside
<1>3. ASSUME NEW p \in Procs, pc[p] \in {"activate", "rb_activate"}
      PROVE  bound[job[p].port] = job[p].release
  BY <1>2, <1>3 DEF DuringHandoff
<1>4. ASSUME validated # {}
      PROVE  upstream # 0 /\ bound[upstream] # 0
  <2>1. CASE lock = NoProc
    <3>1. current \in validated
      BY <1>4, <2>1 DEF KnownInv
    <3> QED
      BY <1>0, <1>1, <2>1, <3>1
  <2>2. CASE lock # NoProc
    <3>1. PICK p \in Procs : p = lock
      BY <1>0, <2>2
    <3>2. pc[p] \in Critical
      BY <2>2, <3>1 DEF KnownInv
    <3>3. HandingOver(p) /\ Hands(p)
      BY <3>2, HandsOf DEF HandoffInv
    <3>4. CASE pc[p] \in OldRoute
      <4>1. pc[p] \in Reversible \cup RollbackPhases
        BY <3>4 DEF OldRoute, BeforeHandoff, Reversible, DeployPhases, RollbackPhases,
           PreparePhases, TrialPhases, SettlePhases, AbortPhases, RejectPhases
      <4>2. job[p].prev \in validated /\ job[p].prev \in Ids
        BY <1>0, <1>4, <4>1 DEF KnownInv
      <4>3. upstream = job[p].prevPort /\ job[p].prevPort \in Ports
        BY <1>0, <3>3, <3>4, <4>2 DEF HandingOver, Hands
      <4>4. pc[p] \notin AfterHandoff
        BY <3>4 DEF OldRoute, BeforeHandoff, AfterHandoff, PreparePhases
      <4>5. bound[job[p].prevPort] = job[p].prev
        BY <3>3, <4>3, <4>4 DEF HandingOver, Alone, Beside
      <4> QED
        BY <1>0, <4>2, <4>3, <4>5
    <3>5. CASE pc[p] \notin OldRoute
      <4>1. upstream = job[p].port /\ pc[p] \in DuringHandoff \cup AfterHandoff
        BY <3>3, <3>5, Regions DEF HandingOver
      <4>2. job[p].port \in Ports
        BY <3>3, <4>1 DEF HandingOver
      <4>3. bound[job[p].port] = job[p].release
        BY <3>3, <4>1, <4>2 DEF HandingOver, Alone, Beside
      <4> QED
        BY <1>0, <3>3, <4>1, <4>2, <4>3 DEF Hands
    <3> QED
      BY <3>4, <3>5
  <2> QED
    BY <2>1, <2>2
<1> QED
  BY <1>1, <1>3, <1>4 DEF TrafficReachesCurrent, NoDowntime

\* Users are served at every step of every deployment and rollback, and by the
\* live release between them, as long as no rollback is to a release on the port
\* of the live one.  (No crashes, nginx and systemctl do as told, and nobody
\* cancels: a late cancellation overwrites the record of the live release, and
\* with it the port the next deployment must avoid.)
THEOREM UsersAreServed ==
    ASSUME Handoff, ~ Cancels, ~ NginxFaults, ~ UnitFaults, MaxCrashes = 0
    PROVE  Spec => []TrafficIsServed
<1>1. Init => CoreInv /\ KnownInv /\ FirstInv /\ HandoffInv
  BY CoreInvInit, KnownInvInit, FirstInvInit, HandoffInvInit
<1>2. CoreInv /\ KnownInv /\ FirstInv /\ HandoffInv /\ [Next]_vars
          => CoreInv' /\ KnownInv' /\ FirstInv' /\ HandoffInv'
  BY CoreInvNext, KnownInvNext, FirstInvNext, HandoffInvNext
<1>3. CoreInv /\ KnownInv /\ FirstInv /\ HandoffInv => TrafficIsServed
  <2>1. CoreInv => crashes = 0
    BY DEF CoreInv, TypeInv, TypeOK
  <2> QED
    BY <2>1, HandoffServes
<1> QED
  BY <1>1, <1>2, <1>3, PTL DEF Spec

\* Whoever answered the readiness probe of a release about to be activated is
\* that release, under the same conditions.
THEOREM ProbesReachTheCandidate ==
    ASSUME Handoff, ~ Cancels, ~ NginxFaults, ~ UnitFaults, MaxCrashes = 0
    PROVE  Spec => []ReadinessIsTheCandidates
<1>1. Init => CoreInv /\ KnownInv /\ FirstInv /\ HandoffInv
  BY CoreInvInit, KnownInvInit, FirstInvInit, HandoffInvInit
<1>2. CoreInv /\ KnownInv /\ FirstInv /\ HandoffInv /\ [Next]_vars
          => CoreInv' /\ KnownInv' /\ FirstInv' /\ HandoffInv'
  BY CoreInvNext, KnownInvNext, FirstInvNext, HandoffInvNext
<1>3. CoreInv /\ KnownInv /\ FirstInv /\ HandoffInv => ReadinessIsTheCandidates
  <2>1. CoreInv => crashes = 0
    BY DEF CoreInv, TypeInv, TypeOK
  <2> QED
    BY <2>1, HandoffServes
<1> QED
  BY <1>1, <1>2, <1>3, PTL DEF Spec
=============================================================================
