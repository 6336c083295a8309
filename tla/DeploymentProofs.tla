--------------------------- MODULE DeploymentProofs ---------------------------
(* Theorems about Deployment, for every value of its constants. *)
EXTENDS Deployment, FiniteSetTheorems, WellFoundedInduction, TLAPS

USE ProcsAssumption, BoundsAssumption, SwitchesAssumption

\* A nonempty set of identifiers has a greatest member, and Max returns it.
LEMMA MaxOfIds ==
    ASSUME NEW S, S \subseteq Ids, S # {}
    PROVE  Max(S) \in S /\ \A d \in S : d <= Max(S)
<1> DEFINE T == {n \in Nat : n <= MaxDeployments /\ MaxDeployments - n \in S}
           R == OpToRel(<, Nat)
<1>1. T \subseteq Nat
  OBVIOUS
<1>2. T # {}
  <2>1. PICK d \in S : TRUE
    OBVIOUS
  <2>2. d \in Int /\ 1 <= d /\ d <= MaxDeployments
    BY <2>1 DEF Ids
  <2>3. MaxDeployments - d \in T
    BY <2>1, <2>2
  <2> QED
    BY <2>3
<1>3. PICK n \in T : \A m \in T : ~ (<<m, n>> \in R)
  <2> HIDE DEF T, R
  <2>1. IsWellFoundedOn(R, Nat)
    BY NatLessThanWellFounded DEF R
  <2> QED
    BY <1>1, <1>2, <2>1, WFMin
<1>4. ASSUME NEW m \in T
      PROVE  n <= m
  <2>1. R = {ss \in Nat \X Nat : ss[1] < ss[2]}
    BY DEF OpToRel
  <2> HIDE DEF T, R
  <2>2. <<m, n>> \notin R
    BY <1>3
  <2>3. m \in Nat /\ n \in Nat
    BY <1>1
  <2> QED
    BY <2>1, <2>2, <2>3
<1>5. ASSUME NEW d \in S
      PROVE  d <= MaxDeployments - n
  <2>1. d \in Int /\ 1 <= d /\ d <= MaxDeployments
    BY DEF Ids
  <2>2. MaxDeployments - d \in T
    BY <2>1
  <2> QED
    BY <1>4, <2>1, <2>2
<1>6. MaxDeployments - n \in S
  OBVIOUS
<1>7. \E x \in S : \A y \in S : x >= y
  BY <1>5, <1>6 DEF Ids
<1> HIDE DEF T, R
<1> QED
  BY <1>7 DEF Max, Ids

\* The port of the previous Node release is one of the pair, or none.
LEMMA NodePortType ==
    ASSUME TypeOK, NEW release
    PROVE  NodePort(release) \in Ports \cup {0}
<1>1. CASE NodeRecords(release) = {}
  BY <1>1 DEF NodePort
<1>2. CASE NodeRecords(release) # {}
  <2>1. NodeRecords(release) \subseteq Ids
    BY DEF NodeRecords, Completed
  <2>2. Max(NodeRecords(release)) \in Ids
    BY <1>2, <2>1, MaxOfIds
  <2> QED
    BY <1>2, <2>2 DEF NodePort, TypeOK, Deployments
<1> QED
  BY <1>1, <1>2

-----------------------------------------------------------------------------
(* Type correctness.  A process in mid-operation works on an identifier it  *)
(* may write, and one that holds the lock on a release it may activate.     *)

ActiveJobs ==
    \A p \in Procs :
        /\ pc[p] # "idle" => job[p].id \in Ids
        /\ pc[p] \in Critical => job[p].release \in Ids

TypeInv == TypeOK /\ ActiveJobs

\* Storing a record of known status keeps the store well typed.
LEMMA UpsertType ==
    ASSUME TypeOK, NEW j \in Jobs, j.id \in Ids, NEW status \in Statuses,
           Upsert(j, status)
    PROVE  db' \in [Ids -> Deployments]
BY DEF TypeOK, Jobs, Upsert, Deployments

\* Starting or stopping a known unit keeps the units and ports well typed.
LEMMA UnitsType ==
    ASSUME TypeOK, NEW u \in Ids, NEW port \in Ports \cup {0},
           StartUnit(u, port) \/ StopUnit(u) \/ StopFails \/ UNCHANGED <<units, bound>>
    PROVE  units' \in [Ids -> Ports \cup {0}] /\ bound' \in [Ports -> IdsOrNone]
<1>0. Ids \subseteq IdsOrNone /\ 0 \in IdsOrNone
  BY DEF Ids, IdsOrNone
<1>1. CASE StartUnit(u, port)
  BY <1>0, <1>1 DEF TypeOK, StartUnit
<1>2. CASE StopUnit(u)
  BY <1>0, <1>2 DEF TypeOK, StopUnit
<1>3. CASE StopFails \/ UNCHANGED <<units, bound>>
  BY <1>3 DEF TypeOK, StopFails
<1> QED
  BY <1>1, <1>2, <1>3

\* The phases of a preparation lead to one another or to the start.
LEMMA NextPhaseType ==
    ASSUME NEW phase \in PreparePhases
    PROVE  NextPhase(phase) \in DeployPhases
BY DEF PreparePhases, NextPhase, DeployPhases, TrialPhases

\* What a step does to the moving process: its label and its record.
LEMMA FrameType ==
    ASSUME TypeInv, NEW p \in Procs, NEW label \in Labels, NEW j \in Jobs,
           Goto(p, label), job' = [job EXCEPT ![p] = j],
           label # "idle" => j.id \in Ids,
           label \in Critical => j.release \in Ids
    PROVE  /\ pc' \in [Procs -> Labels]
           /\ job' \in [Procs -> Jobs]
           /\ ActiveJobs'
BY DEF TypeInv, TypeOK, ActiveJobs, Goto

LEMMA NoJobType == NoJob \in Jobs
BY DEF NoJob, Jobs, IdsOrNone, Ports

\* Returning is always well typed: the lock is free or somebody else's.
LEMMA ReturnType ==
    ASSUME TypeInv, NEW p \in Procs, Return(p)
    PROVE  /\ pc' \in [Procs -> Labels]
           /\ job' \in [Procs -> Jobs]
           /\ lock' \in Procs \cup {NoProc}
           /\ ActiveJobs'
<1>1. "idle" \in Labels /\ "idle" \notin Critical
  BY DEF Labels, Critical, DeployPhases, PreparePhases, TrialPhases, SettlePhases,
         AbortPhases, RejectPhases, RollbackPhases
<1>2. Goto(p, "idle") /\ job' = [job EXCEPT ![p] = NoJob]
  BY DEF Return
<1>3. lock' \in Procs \cup {NoProc}
  BY DEF Return, TypeInv, TypeOK
<1> QED
  BY <1>1, <1>2, <1>3, NoJobType, FrameType

\* A step that moves to another critical label and leaves the record alone.
LEMMA MoveType ==
    ASSUME TypeInv, NEW p \in Procs, pc[p] \in Critical, NEW label \in Critical,
           Goto(p, label), UNCHANGED job
    PROVE  /\ pc' \in [Procs -> Labels]
           /\ job' \in [Procs -> Jobs]
           /\ ActiveJobs'
<1>1. label \in Labels /\ pc[p] # "idle"
  BY DEF Labels, Critical, DeployPhases, PreparePhases, TrialPhases, SettlePhases,
         AbortPhases, RejectPhases, RollbackPhases
<1>2. job[p] \in Jobs /\ job' = [job EXCEPT ![p] = job[p]]
  BY DEF TypeInv, TypeOK
<1>3. job[p].id \in Ids /\ job[p].release \in Ids
  BY <1>1 DEF TypeInv, ActiveJobs
<1> QED
  BY <1>1, <1>2, <1>3, FrameType

LEMMA RequestType ==
    ASSUME TypeInv, NEW p \in Procs, Request(p)
    PROVE  TypeInv'
<1> USE DEF TypeInv
<1>0. Ids \subseteq IdsOrNone /\ 0 \in IdsOrNone
  BY DEF Ids, IdsOrNone
<1>1. ASSUME Begin(p)
      PROVE  TypeInv'
  <2> DEFINE j == [NoJob EXCEPT !.id = NextId, !.release = NextId,
                                !.prev = current, !.prevPort = NodePort(current),
                                !.commands = PostCommands]
  <2>1. NextId \in Ids /\ Goto(p, "source") /\ lock' = p
        /\ UNCHANGED <<health, markers, host, ghost>>
    BY <1>1 DEF Begin
  <2>2. job' = [job EXCEPT ![p] = j] /\ Upsert(j, "started")
    BY <1>1 DEF Begin
  <2>3. j \in Jobs
    <3>1. NodePort(current) \in Ports \cup {0} /\ current \in IdsOrNone
      BY NodePortType DEF TypeOK
    <3>2. NextId \in IdsOrNone /\ PostCommands \in 0 .. PostCommands
      BY <1>0, <2>1
    <3> QED
      BY <1>0, <3>1, <3>2 DEF NoJob, Jobs
  <2>4. "source" \in Labels /\ "started" \in Statuses
    BY DEF Labels, Critical, DeployPhases, PreparePhases, Statuses
  <2>5. j.id \in Ids /\ j.release \in Ids
    BY <2>1 DEF NoJob
  <2> HIDE DEF j
  <2>6. db' \in [Ids -> Deployments]
    BY <2>2, <2>3, <2>4, <2>5, UpsertType
  <2>7. pc' \in [Procs -> Labels] /\ job' \in [Procs -> Jobs] /\ ActiveJobs'
    BY <2>1, <2>2, <2>3, <2>4, <2>5, FrameType
  <2> QED
    BY <2>1, <2>6, <2>7 DEF TypeOK, host, ghost
<1>2. ASSUME RbBegin(p)
      PROVE  TypeInv'
  <2> DEFINE t == db[Max(RollbackTargets)]
             j == [NoJob EXCEPT !.id = NextId, !.release = t.release,
                                !.port = t.port, !.commit = t.commit,
                                !.prev = current, !.prevPort = NodePort(current)]
             label == IF t.port # 0 THEN "rb_start" ELSE "rb_activate"
  <2>1. NextId \in Ids /\ RollbackTargets # {} /\ Goto(p, label) /\ lock' = p
        /\ UNCHANGED <<record, host, crashes, validated, cancelPoint>>
    BY <1>2 DEF RbBegin
  <2>2. job' = [job EXCEPT ![p] = j]
    BY <1>2 DEF RbBegin
  <2>3. Max(RollbackTargets) \in RollbackTargets
    BY <2>1, MaxOfIds DEF RollbackTargets, Completed
  <2>4. t \in Deployments /\ t.release \in Ids
    BY <2>3 DEF RollbackTargets, Completed, TypeOK
  <2>5. j \in Jobs /\ j.id \in Ids /\ j.release \in Ids
    <3>1. NodePort(current) \in Ports \cup {0} /\ current \in IdsOrNone
      BY NodePortType DEF TypeOK
    <3>2. t.port \in Ports \cup {0} /\ t.commit \in BOOLEAN
      BY <2>4 DEF Deployments
    <3>3. t.release \in IdsOrNone /\ NextId \in IdsOrNone /\ 0 \in 0 .. PostCommands
      BY <1>0, <2>1, <2>4
    <3> HIDE DEF t
    <3> QED
      BY <1>0, <2>1, <2>4, <3>1, <3>2, <3>3 DEF NoJob, Jobs
  <2>6. label \in Labels
    BY DEF Labels, Critical, RollbackPhases
  <2>7. clashed' \in BOOLEAN
    BY <1>2 DEF RbBegin
  <2> HIDE DEF t, j, label
  <2>8. pc' \in [Procs -> Labels] /\ job' \in [Procs -> Jobs] /\ ActiveJobs'
    BY <2>1, <2>2, <2>5, <2>6, FrameType
  <2> QED
    BY <2>1, <2>7, <2>8 DEF TypeOK, host, record
<1>3. ASSUME NEW d \in Ids, CancelLoad(p, d)
      PROVE  TypeInv'
  <2> DEFINE j == [NoJob EXCEPT !.id = d, !.release = db[d].release,
                                !.port = db[d].port, !.commit = db[d].commit]
  <2>1. Goto(p, "cancel_mark") /\ UNCHANGED <<record, lock, host, ghost>>
        /\ job' = [job EXCEPT ![p] = j]
    BY <1>3 DEF CancelLoad
  <2>2. j \in Jobs /\ j.id \in Ids
    <3>1. db[d] \in Deployments
      BY DEF TypeOK
    <3>2. /\ db[d].release \in IdsOrNone
          /\ db[d].port \in Ports \cup {0}
          /\ db[d].commit \in BOOLEAN
      BY <3>1 DEF Deployments
    <3>3. 0 \in Ports \cup {0} /\ 0 \in 0 .. PostCommands
      OBVIOUS
    <3> QED
      BY <1>0, <3>2, <3>3 DEF NoJob, Jobs
  <2>3. "cancel_mark" \in Labels /\ "cancel_mark" \notin Critical
    BY DEF Labels, CancelPhases, Critical, DeployPhases, PreparePhases, TrialPhases,
           SettlePhases, AbortPhases, RejectPhases, RollbackPhases
  <2> HIDE DEF j
  <2>4. pc' \in [Procs -> Labels] /\ job' \in [Procs -> Jobs] /\ ActiveJobs'
    BY <2>1, <2>2, <2>3, FrameType
  <2> QED
    BY <2>1, <2>4 DEF TypeOK, host, ghost, record
<1> QED
  BY <1>1, <1>2, <1>3 DEF Request, Deploy, Redeploy

LEMMA PrepareType ==
    ASSUME TypeInv, NEW p \in Procs, PrepareStep(p)
    PROVE  TypeInv'
<1> USE DEF TypeInv
<1>0. Ids \subseteq IdsOrNone /\ 0 \in IdsOrNone /\ "started" \in Statuses
      /\ "cancelled" \in Statuses
  BY DEF Ids, IdsOrNone, Statuses
<1>1. job[p] \in Jobs
  BY DEF TypeOK
<1>2. pc[p] \in Critical => job[p].id \in Ids /\ job[p].release \in Ids
  BY DEF ActiveJobs, Critical, DeployPhases, PreparePhases, TrialPhases, SettlePhases,
         AbortPhases, RejectPhases, RollbackPhases
<1>3. PreparePhases \cup TrialPhases \cup AbortPhases \subseteq Critical
      /\ Critical \subseteq Labels
  BY DEF Critical, DeployPhases, Labels
<1>4. ASSUME PhaseSucceeds(p)
      PROVE  TypeInv'
  <2> DEFINE phase == pc[p]
             j == [job[p] EXCEPT !.commit = @ \/ phase = "checkout"]
  <2>1. /\ phase \in PreparePhases
        /\ job' = [job EXCEPT ![p] = j]
        /\ dirs' = IF phase = "checkout" THEN dirs \cup {j.id} ELSE dirs
        /\ UNCHANGED <<health, markers, lock, current, units, bound, upstream, ghost>>
    BY <1>4 DEF PhaseSucceeds
  <2>2. PICK label, status :
            /\ <<label, status>> \in {<<"abort_remove", "cancelled">>,
                                      <<NextPhase(phase), "started">>}
            /\ Upsert(j, status) /\ Goto(p, label)
    BY <1>4 DEF PhaseSucceeds
  <2>3. label \in Critical /\ label \in Labels /\ status \in Statuses
    BY <1>0, <1>3, <2>1, <2>2, NextPhaseType DEF AbortPhases, Critical
  <2>4. j \in Jobs /\ j.id \in Ids /\ j.release \in Ids
    BY <1>1, <1>2, <1>3, <2>1 DEF Jobs
  <2> HIDE DEF j, phase
  <2>5. db' \in [Ids -> Deployments]
    BY <2>2, <2>3, <2>4, UpsertType
  <2>6. pc' \in [Procs -> Labels] /\ job' \in [Procs -> Jobs] /\ ActiveJobs'
    BY <2>1, <2>2, <2>3, <2>4, FrameType
  <2> QED
    BY <2>1, <2>4, <2>5, <2>6 DEF TypeOK, ghost
<1>5. ASSUME PhaseFails(p)
      PROVE  TypeInv'
  <2>1. /\ pc[p] \in PreparePhases
        /\ Goto(p, "abort_remove")
        /\ dirs' = dirs \/ dirs' = dirs \cup {job[p].id}
        /\ db' = db \/ Upsert(job[p], "started")
        /\ UNCHANGED <<health, markers, lock, current, units, bound, upstream, ghost>>
    BY <1>5 DEF PhaseFails
  <2>2. PICK c \in {job[p].commit, pc[p] = "checkout"} :
            job' = [job EXCEPT ![p].commit = @ \/ c]
    BY <1>5 DEF PhaseFails
  <2> DEFINE j == [job[p] EXCEPT !.commit = @ \/ c]
  <2>3. job' = [job EXCEPT ![p] = j]
    BY <2>2 DEF TypeOK
  <2>4. j \in Jobs /\ j.id \in Ids /\ j.release \in Ids
    BY <1>1, <1>2, <1>3, <2>1 DEF Jobs
  <2> HIDE DEF j
  <2>5. db' \in [Ids -> Deployments]
    BY <1>0, <1>1, <1>2, <1>3, <2>1, UpsertType DEF TypeOK
  <2>6. pc' \in [Procs -> Labels] /\ job' \in [Procs -> Jobs] /\ ActiveJobs'
    BY <1>3, <2>1, <2>3, <2>4, FrameType DEF AbortPhases
  <2> QED
    BY <1>2, <1>3, <2>1, <2>5, <2>6 DEF TypeOK, ghost
<1>6. ASSUME StartSucceeds(p)
      PROVE  TypeInv'
  <2>1. pc[p] = "start" /\ UNCHANGED <<health, markers, lock, dirs, current, upstream, ghost>>
        /\ pc[p] \in Critical
    BY <1>3, <1>6 DEF StartSucceeds, TrialPhases
  <2>2. CASE ~Handoff
    <3>1. Goto(p, "activate") /\ UNCHANGED <<units, bound, job, db>>
      BY <1>6, <2>2 DEF StartSucceeds
    <3>2. pc' \in [Procs -> Labels] /\ job' \in [Procs -> Jobs] /\ ActiveJobs'
      BY <1>3, <2>1, <3>1, MoveType DEF TrialPhases
    <3> QED
      BY <2>1, <3>1, <3>2 DEF TypeOK, ghost
  <2>3. CASE Handoff
    <3> DEFINE j == [job[p] EXCEPT !.port = InactivePort(job[p].prevPort)]
    <3>1. /\ StartUnit(j.id, j.port)
          /\ job' = [job EXCEPT ![p] = j]
          /\ Upsert(j, "started")
          /\ Goto(p, "ready")
      BY <1>6, <2>3 DEF StartSucceeds
    <3>2. j \in Jobs /\ j.id \in Ids /\ j.release \in Ids /\ j.port \in Ports \cup {0}
      BY <1>1, <1>2, <2>1 DEF Jobs, InactivePort, Ports, PrimaryPort, SecondaryPort
    <3>3. "ready" \in Labels /\ "ready" \in Critical
      BY <1>3 DEF TrialPhases
    <3> HIDE DEF j
    <3>4. db' \in [Ids -> Deployments]
      BY <1>0, <3>1, <3>2, UpsertType
    <3>5. pc' \in [Procs -> Labels] /\ job' \in [Procs -> Jobs] /\ ActiveJobs'
      BY <3>1, <3>2, <3>3, FrameType
    <3>6. units' \in [Ids -> Ports \cup {0}] /\ bound' \in [Ports -> IdsOrNone]
      BY <3>1, <3>2, UnitsType
    <3> QED
      BY <2>1, <3>4, <3>5, <3>6 DEF TypeOK, ghost
  <2> QED
    BY <2>2, <2>3, SwitchesAssumption
<1>7. ASSUME StartFails(p)
      PROVE  TypeInv'
  <2>1. /\ pc[p] \in Critical
        /\ Goto(p, "abort_remove")
        /\ UNCHANGED <<record, lock, dirs, current, upstream, job, ghost>>
        /\ UNCHANGED <<units, bound>>
           \/ StartUnit(job[p].id, InactivePort(job[p].prevPort))
    BY <1>3, <1>7 DEF StartFails, TrialPhases
  <2>2. pc' \in [Procs -> Labels] /\ job' \in [Procs -> Jobs] /\ ActiveJobs'
    BY <1>3, <2>1, MoveType DEF AbortPhases
  <2>3. job[p].id \in Ids /\ InactivePort(job[p].prevPort) \in Ports \cup {0}
    BY <1>2, <2>1 DEF InactivePort, Ports, PrimaryPort, SecondaryPort
  <2>4. units' \in [Ids -> Ports \cup {0}] /\ bound' \in [Ports -> IdsOrNone]
    BY <2>1, <2>3, UnitsType
  <2> QED
    BY <2>1, <2>2, <2>4 DEF TypeOK, ghost, record
<1>8. ASSUME ReadySucceeds(p) \/ ReadyFails(p) \/ SwitchFails(p)
      PROVE  TypeInv'
  <2>1. PICK label \in {"activate", "abort_upstream", "abort_restore"} :
            Goto(p, label) /\ pc[p] \in Critical /\ UNCHANGED <<record, lock, host, job, ghost>>
    BY <1>3, <1>8 DEF ReadySucceeds, ReadyFails, SwitchFails, TrialPhases
  <2>2. pc' \in [Procs -> Labels] /\ job' \in [Procs -> Jobs] /\ ActiveJobs'
    BY <1>3, <2>1, MoveType DEF AbortPhases, TrialPhases
  <2> QED
    BY <2>1, <2>2 DEF TypeOK, ghost, record, host
<1>9. ASSUME Activate(p) \/ SwitchSucceeds(p)
      PROVE  TypeInv'
  <2>1. /\ pc[p] \in Critical
        /\ current' \in {current, job[p].release}
        /\ upstream' \in {upstream, job[p].port}
        /\ db' = db \/ Upsert(job[p], "started")
        /\ UNCHANGED <<health, markers, lock, dirs, units, bound, job, ghost>>
    BY <1>3, <1>9 DEF Activate, SwitchSucceeds, TrialPhases
  <2>2. PICK label \in {"switch", "health"} : Goto(p, label)
    BY <1>9 DEF Activate, SwitchSucceeds
  <2>3. pc' \in [Procs -> Labels] /\ job' \in [Procs -> Jobs] /\ ActiveJobs'
    BY <1>3, <2>1, <2>2, MoveType DEF TrialPhases
  <2>4. db' \in [Ids -> Deployments]
    BY <1>0, <1>1, <1>2, <2>1, UpsertType DEF TypeOK
  <2>5. job[p].port \in Ports \cup {0} /\ job[p].release \in IdsOrNone
    BY <1>1 DEF Jobs
  <2> QED
    BY <2>1, <2>3, <2>4, <2>5 DEF TypeOK, ghost
<1> QED
  BY <1>4, <1>5, <1>6, <1>7, <1>8, <1>9 DEF PrepareStep

\* The shape of the steps that settle, undo or roll back a release: whatever
\* they write comes from the process's own record.
Proceeds(p) ==
    \E label \in Critical, j \in Jobs :
        /\ Goto(p, label)
        /\ job' = [job EXCEPT ![p] = j]
        /\ j.id = job[p].id /\ j.release = job[p].release
        /\ lock' = lock

SettlingStep(p) ==
    /\ pc[p] \in Critical
    /\ Return(p) \/ Proceeds(p)
    /\ db' = db \/ \E status \in Statuses : Upsert(job[p], status)
    /\ health' \in Healths
    /\ dirs' \subseteq dirs
    /\ current' \in {0, current, job[p].release, job[p].prev}
    /\ upstream' \in {upstream, job[p].port, job[p].prevPort}
    /\ \/ UNCHANGED <<units, bound>>
       \/ \E u \in {job[p].release, job[p].prev} : StopUnit(u)
       \/ StartUnit(job[p].release, job[p].port)
    /\ validated' \in {validated, validated \cup {job[p].id}}
    /\ UNCHANGED <<markers, crashes, cancelPoint, clashed>>

\* Stopping any unit keeps the units and ports well typed.
LEMMA StopType ==
    ASSUME TypeOK, NEW u, StopUnit(u)
    PROVE  units' \in [Ids -> Ports \cup {0}] /\ bound' \in [Ports -> IdsOrNone]
<1>1. PICK w \in {0} \cup Ids : bound' = [q \in Ports |-> IF bound[q] = u THEN w ELSE bound[q]]
  BY DEF StopUnit
<1>2. w \in IdsOrNone
  BY DEF Ids, IdsOrNone
<1> QED
  BY <1>1, <1>2 DEF StopUnit, TypeOK

LEMMA SettlingType ==
    ASSUME TypeInv, NEW p \in Procs, SettlingStep(p)
    PROVE  TypeInv'
<1> USE DEF TypeInv
<1>1. job[p] \in Jobs /\ pc[p] \in Critical
  BY DEF TypeOK, SettlingStep
<1>2. job[p].id \in Ids /\ job[p].release \in Ids
  BY <1>1 DEF ActiveJobs, Critical, DeployPhases, PreparePhases, TrialPhases,
              SettlePhases, AbortPhases, RejectPhases, RollbackPhases
<1>3. /\ pc' \in [Procs -> Labels]
      /\ job' \in [Procs -> Jobs]
      /\ lock' \in Procs \cup {NoProc}
      /\ ActiveJobs'
  <2>1. CASE Return(p)
    BY <2>1, ReturnType
  <2>2. CASE Proceeds(p)
    <3>1. PICK label \in Critical, j \in Jobs :
              /\ Goto(p, label)
              /\ job' = [job EXCEPT ![p] = j]
              /\ j.id = job[p].id /\ j.release = job[p].release
              /\ lock' = lock
      BY <2>2 DEF Proceeds
    <3>2. label \in Labels /\ lock' \in Procs \cup {NoProc}
      BY <3>1 DEF Labels, TypeOK
    <3> QED
      BY <1>2, <3>1, <3>2, FrameType
  <2> QED
    BY <2>1, <2>2 DEF SettlingStep
<1>4. db' \in [Ids -> Deployments]
  <2>1. CASE db' = db
    BY <2>1 DEF TypeOK
  <2>2. CASE \E status \in Statuses : Upsert(job[p], status)
    BY <1>1, <1>2, <2>2, UpsertType
  <2> QED
    BY <2>1, <2>2 DEF SettlingStep
<1>5. units' \in [Ids -> Ports \cup {0}] /\ bound' \in [Ports -> IdsOrNone]
  <2>1. job[p].port \in Ports \cup {0}
    BY <1>1 DEF Jobs
  <2> QED
    BY <1>2, <2>1, StopType, UnitsType DEF SettlingStep
<1>6. current' \in IdsOrNone /\ upstream' \in Ports \cup {0}
  <2>1. /\ 0 \in IdsOrNone /\ job[p].release \in IdsOrNone /\ job[p].prev \in IdsOrNone
        /\ job[p].port \in Ports \cup {0} /\ job[p].prevPort \in Ports \cup {0}
    BY <1>1 DEF Jobs, IdsOrNone
  <2> QED
    BY <2>1 DEF SettlingStep, TypeOK
<1>7. /\ dirs' \subseteq Ids /\ health' \in Healths /\ validated' \subseteq Ids
      /\ UNCHANGED <<markers, crashes, cancelPoint, clashed>>
  BY <1>2 DEF SettlingStep, TypeOK
<1> QED
  BY <1>3, <1>4, <1>5, <1>6, <1>7 DEF TypeOK

\* Keeping the record, or noting an outcome in it, is proceeding.
LEMMA ProceedsIntro ==
    ASSUME TypeInv, NEW p \in Procs, NEW label \in Critical,
           Goto(p, label), lock' = lock,
           \/ job' = job
           \/ \E c \in BOOLEAN : job' = [job EXCEPT ![p].restored = c]
           \/ \E c \in BOOLEAN : job' = [job EXCEPT ![p].cancelled = c]
           \/ job[p].commands > 1 /\ job' = [job EXCEPT ![p].commands = @ - 1]
    PROVE  Proceeds(p)
<1>1. job \in [Procs -> Jobs]
  BY DEF TypeInv, TypeOK
<1>2. CASE job' = job
  <2>1. job' = [job EXCEPT ![p] = job[p]] /\ job[p] \in Jobs
    BY <1>1, <1>2
  <2> QED
    BY <2>1 DEF Proceeds
<1>3. CASE \E c \in BOOLEAN : job' = [job EXCEPT ![p].restored = c]
  <2>1. PICK c \in BOOLEAN : job' = [job EXCEPT ![p].restored = c]
    BY <1>3
  <2> DEFINE j == [job[p] EXCEPT !.restored = c]
  <2>2. /\ job' = [job EXCEPT ![p] = j] /\ j \in Jobs
        /\ j.id = job[p].id /\ j.release = job[p].release
    BY <1>1, <2>1 DEF Jobs
  <2> QED
    BY <2>2 DEF Proceeds
<1>4. CASE \E c \in BOOLEAN : job' = [job EXCEPT ![p].cancelled = c]
  <2>1. PICK c \in BOOLEAN : job' = [job EXCEPT ![p].cancelled = c]
    BY <1>4
  <2> DEFINE j == [job[p] EXCEPT !.cancelled = c]
  <2>2. /\ job' = [job EXCEPT ![p] = j] /\ j \in Jobs
        /\ j.id = job[p].id /\ j.release = job[p].release
    BY <1>1, <2>1 DEF Jobs
  <2> QED
    BY <2>2 DEF Proceeds
<1>5. CASE job[p].commands > 1 /\ job' = [job EXCEPT ![p].commands = @ - 1]
  <2> DEFINE j == [job[p] EXCEPT !.commands = @ - 1]
  <2>1. /\ job' = [job EXCEPT ![p] = j] /\ j \in Jobs
        /\ j.id = job[p].id /\ j.release = job[p].release
    BY <1>1, <1>5 DEF Jobs
  <2> QED
    BY <2>1 DEF Proceeds
<1> QED
  BY <1>2, <1>3, <1>4, <1>5

\* Each step after the health gate, and each step of an abort, a rejection or
\* a rollback, has that shape.
LEMMA StepsAreSettling ==
    ASSUME TypeInv, NEW p \in Procs,
           ValidateStep(p) \/ AbortStep(p) \/ RejectStep(p) \/ RollbackStep(p)
    PROVE  SettlingStep(p)
<1> USE DEF record, host, ghost
<1>1. /\ {"health", "post_deploy", "post_command", "complete", "mark_healthy", "drain",
          "prune"} \subseteq Critical
      /\ AbortPhases \cup RejectPhases \cup RollbackPhases \subseteq Critical
  BY DEF Critical, DeployPhases, TrialPhases, SettlePhases
<1>2. {"started", "cancelled", "completed", "failed", "failed_rolled_back",
       "rolled_back"} \subseteq Statuses
  BY DEF Statuses
<1>3. {"healthy", "healthy_after_rollback", "unhealthy", "deployment_failed",
       "deployment_cancelled"} \subseteq Healths /\ health \in Healths
  BY DEF Healths, TypeInv, TypeOK
<1> USE <1>1, <1>2, <1>3 DEF SettlingStep
<1>4. CASE HealthPasses(p)
  BY <1>4, ProceedsIntro DEF HealthPasses, RejectPhases
<1>5. CASE HealthFails(p)
  BY <1>5, ProceedsIntro DEF HealthFails, RejectPhases
<1>6. CASE PostDeployBegins(p)
  BY <1>6, ProceedsIntro DEF PostDeployBegins, RejectPhases
<1>7. CASE PostDeploySucceeds(p)
  BY <1>7, ProceedsIntro DEF PostDeploySucceeds
<1>8. CASE PostDeployFails(p)
  BY <1>8, ProceedsIntro DEF PostDeployFails, RejectPhases
<1>9. CASE Complete(p)
  BY <1>9, ProceedsIntro DEF Complete
<1>10. CASE MarkHealthy(p)
  BY <1>10, ProceedsIntro DEF MarkHealthy
<1>11. CASE Drain(p)
  BY <1>11, ProceedsIntro DEF Drain, StopFails
<1>12. CASE Prune(p)
  BY <1>12, ProceedsIntro DEF Prune
<1>13. CASE AbortRestore(p)
  BY <1>13, ProceedsIntro DEF AbortRestore, AbortPhases
<1>14. CASE AbortUpstream(p)
  BY <1>14, ProceedsIntro DEF AbortUpstream, AbortPhases
<1>15. CASE AbortStop(p)
  BY <1>15, ProceedsIntro DEF AbortStop, AbortPhases, StopFails
<1>16. CASE AbortRemove(p)
  BY <1>16, ProceedsIntro DEF AbortRemove, AbortPhases
<1>17. CASE AbortRecord(p)
  <2> DEFINE c == job[p].id \in markers
  <2>1. /\ pc[p] = "abort_record" /\ Goto(p, "abort_health")
        /\ job' = [job EXCEPT ![p].cancelled = c]
        /\ UNCHANGED <<health, markers, lock, host, ghost>>
    BY <1>17 DEF AbortRecord
  <2>2. PICK status \in Statuses : Upsert(job[p], status)
    BY <1>17 DEF AbortRecord
  <2>3. c \in BOOLEAN
    OBVIOUS
  <2> HIDE DEF c
  <2>4. Proceeds(p)
    BY <2>1, <2>3, ProceedsIntro DEF AbortPhases
  <2> QED
    BY <2>1, <2>2, <2>4 DEF AbortPhases
<1>18. CASE AbortHealth(p)
  BY <1>18, ProceedsIntro DEF AbortHealth, AbortPhases
<1>19. CASE RejectRestore(p)
  BY <1>19, ProceedsIntro DEF RejectRestore, RejectPhases
<1>20. CASE RejectUpstream(p)
  BY <1>20, ProceedsIntro DEF RejectUpstream, RejectPhases
<1>21. CASE RejectUpstreamFails(p)
  BY <1>21, ProceedsIntro DEF RejectUpstreamFails, RejectPhases
<1>22. CASE RejectStop(p)
  BY <1>22, ProceedsIntro DEF RejectStop, RejectPhases
<1>23. CASE RejectStopFails(p)
  BY <1>23, ProceedsIntro DEF RejectStopFails, RejectPhases, StopFails
<1>24. CASE RejectRecord(p)
  BY <1>24, ProceedsIntro DEF RejectRecord, RejectPhases
<1>25. CASE RejectHealth(p)
  BY <1>25, ProceedsIntro DEF RejectHealth, RejectPhases
<1>26. CASE RejectCleanup(p)
  BY <1>26, ProceedsIntro DEF RejectCleanup, RejectPhases
<1>27. CASE RbStart(p)
  BY <1>27, ProceedsIntro DEF RbStart, RollbackPhases
<1>28. CASE RbStartFails(p)
  BY <1>28, ProceedsIntro DEF RbStartFails, RollbackPhases
<1>29. CASE RbReady(p)
  BY <1>29, ProceedsIntro DEF RbReady, RollbackPhases
<1>30. CASE RbActivate(p)
  BY <1>30, ProceedsIntro DEF RbActivate, RollbackPhases
<1>31. CASE RbSwitch(p)
  BY <1>31, ProceedsIntro DEF RbSwitch, RollbackPhases
<1>32. CASE RbHealth(p)
  BY <1>32, ProceedsIntro DEF RbHealth, RollbackPhases
<1>33. CASE RbReactivate(p)
  BY <1>33, ProceedsIntro DEF RbReactivate, RollbackPhases
<1>34. CASE RbReroute(p)
  BY <1>34, ProceedsIntro DEF RbReroute, RollbackPhases
<1>35. CASE RbAbandon(p)
  BY <1>35, ProceedsIntro DEF RbAbandon, RollbackPhases, StopFails
<1>36. CASE RbDrain(p)
  BY <1>36, ProceedsIntro DEF RbDrain, RollbackPhases
<1>37. CASE RbDrainFails(p)
  BY <1>37, ProceedsIntro DEF RbDrainFails, RollbackPhases, StopFails
<1>38. CASE RbRecord(p)
  BY <1>38, ProceedsIntro DEF RbRecord, RollbackPhases
<1>39. CASE RbHealthy(p)
  BY <1>39, ProceedsIntro DEF RbHealthy, RollbackPhases
<1> QED
  BY <1>4, <1>5, <1>6, <1>7, <1>8, <1>9, <1>10, <1>11, <1>12, <1>13, <1>14,
     <1>15, <1>16, <1>17, <1>18, <1>19, <1>20, <1>21, <1>22, <1>23, <1>24,
     <1>25, <1>26, <1>27, <1>28, <1>29, <1>30, <1>31, <1>32, <1>33, <1>34,
     <1>35, <1>36, <1>37, <1>38, <1>39 DEF ValidateStep, AbortStep, RejectStep,
     RollbackStep

LEMMA CancelType ==
    ASSUME TypeInv, NEW p \in Procs, CancelStep(p)
    PROVE  TypeInv'
<1> USE DEF TypeInv
<1>1. job[p] \in Jobs
  BY DEF TypeOK
<1>2. pc[p] \in CancelPhases => job[p].id \in Ids
  BY DEF ActiveJobs, CancelPhases
<1>3. ASSUME CancelMark(p)
      PROVE  TypeInv'
  <2>1. /\ Goto(p, "cancel_save")
        /\ markers' = markers \cup {job[p].id}
        /\ UNCHANGED <<db, health, lock, host, job, crashes, validated, clashed>>
        /\ job[p].id \in Ids
    BY <1>2, <1>3 DEF CancelMark, CancelPhases
  <2>2. cancelPoint' = cancelPoint
        \/ cancelPoint' = [cancelPoint EXCEPT ![job[p].id] = Progress(job[p].id)]
    BY <1>3 DEF CancelMark
  <2>3. Progress(job[p].id) \in {"preparing", "on_trial", "post_deploy", "late"}
    BY DEF Progress
  <2>4. job' = [job EXCEPT ![p] = job[p]]
    BY <2>1 DEF TypeOK
  <2>5. "cancel_save" \in Labels /\ "cancel_save" \notin Critical
    BY DEF Labels, CancelPhases, Critical, DeployPhases, PreparePhases, TrialPhases,
           SettlePhases, AbortPhases, RejectPhases, RollbackPhases
  <2>6. pc' \in [Procs -> Labels] /\ job' \in [Procs -> Jobs] /\ ActiveJobs'
    BY <1>1, <2>1, <2>4, <2>5, FrameType
  <2>7. cancelPoint' \in [Ids -> {"none", "preparing", "on_trial", "post_deploy", "late"}]
    <3> HIDE DEF TypeInv
    <3>1. cancelPoint \in [Ids -> {"none", "preparing", "on_trial", "post_deploy", "late"}]
      BY DEF TypeInv, TypeOK
    <3> QED
      BY <2>2, <2>3, <3>1
  <2> QED
    BY <2>1, <2>6, <2>7 DEF TypeOK, host
<1>4. ASSUME CancelSave(p)
      PROVE  TypeInv'
  <2>1. /\ Upsert(job[p], "cancelling") /\ Return(p)
        /\ UNCHANGED <<health, markers, host, ghost>>
        /\ job[p].id \in Ids /\ "cancelling" \in Statuses
    BY <1>2, <1>4 DEF CancelSave, CancelPhases, Statuses
  <2>2. db' \in [Ids -> Deployments]
    BY <1>1, <2>1, UpsertType
  <2> QED
    BY <2>1, <2>2, ReturnType DEF TypeOK, host, ghost
<1> QED
  BY <1>3, <1>4 DEF CancelStep

LEMMA CrashType ==
    ASSUME TypeInv, NEW p \in Procs, Crash(p)
    PROVE  TypeInv'
<1>1. /\ Return(p) /\ crashes < MaxCrashes /\ crashes' = crashes + 1
      /\ UNCHANGED <<record, host, validated, cancelPoint, clashed>>
  BY DEF Crash
<1>2. crashes' \in 0 .. MaxCrashes
  BY <1>1 DEF TypeInv, TypeOK
<1> QED
  BY <1>1, <1>2, ReturnType DEF TypeInv, TypeOK, record, host

LEMMA TypeInvInit == Init => TypeInv
<1> SUFFICES ASSUME Init PROVE TypeInv
  OBVIOUS
<1>1. db \in [Ids -> Deployments]
  BY DEF Init, Absent, Deployments, Statuses, IdsOrNone, Ports
<1>2. /\ units \in [Ids -> Ports \cup {0}] /\ bound \in [Ports -> IdsOrNone]
      /\ upstream \in Ports \cup {0} /\ current \in IdsOrNone
  BY DEF Init, IdsOrNone
<1>3. pc \in [Procs -> Labels] /\ job \in [Procs -> Jobs]
  BY NoJobType DEF Init, Labels
<1>4. /\ health \in Healths
      /\ cancelPoint \in [Ids -> {"none", "preparing", "on_trial", "post_deploy", "late"}]
  BY DEF Init, Healths
<1>5. clashed \in BOOLEAN
  BY DEF Init
<1>6. ActiveJobs
  BY DEF Init, ActiveJobs, Critical, DeployPhases, PreparePhases, TrialPhases,
         SettlePhases, AbortPhases, RejectPhases, RollbackPhases
<1> QED
  BY <1>1, <1>2, <1>3, <1>4, <1>5, <1>6 DEF Init, TypeInv, TypeOK

LEMMA TypeInvNext == TypeInv /\ [Next]_vars => TypeInv'
<1> SUFFICES ASSUME TypeInv, [Next]_vars
             PROVE  TypeInv'
  OBVIOUS
<1>1. CASE UNCHANGED vars
  BY <1>1 DEF vars, record, host, ghost, TypeInv, TypeOK, ActiveJobs
<1>2. ASSUME NEW p \in Procs, Request(p) \/ Step(p) \/ Crash(p)
      PROVE  TypeInv'
  <2>1. CASE Request(p)
    BY <2>1, RequestType
  <2>2. CASE PrepareStep(p)
    BY <2>2, PrepareType
  <2>3. CASE ValidateStep(p) \/ AbortStep(p) \/ RejectStep(p) \/ RollbackStep(p)
    BY <2>3, StepsAreSettling, SettlingType
  <2>4. CASE CancelStep(p)
    BY <2>4, CancelType
  <2>5. CASE Crash(p)
    BY <2>5, CrashType
  <2> QED
    BY <1>2, <2>1, <2>2, <2>3, <2>4, <2>5 DEF Step
<1> QED
  BY <1>1, <1>2 DEF Next

\* Every reachable state is well typed: no sequence of deployments, failures,
\* rollbacks, cancellations and crashes stores an unknown status or leaves
\* `current', a directory, a unit or a port naming a deployment that never was.
THEOREM TypeCorrect == Spec => []TypeOK
<1>1. Init => TypeInv
  BY TypeInvInit
<1>2. TypeInv /\ [Next]_vars => TypeInv'
  BY TypeInvNext
<1>3. TypeInv => TypeOK
  BY DEF TypeInv
<1> QED
  BY <1>1, <1>2, <1>3, PTL DEF Spec

-----------------------------------------------------------------------------
(* Mutual exclusion.  The holder of the deployment lock is the only process *)
(* between taking it and returning.                                         *)

LockInv == \A p \in Procs : pc[p] \in Critical => lock = p

\* What every step does to the lock: it begins an operation on a free lock,
\* goes on under the lock, returns, or never had to do with it.
LockStep(p) ==
    \/ \E label \in Critical : lock = NoProc /\ lock' = p /\ Goto(p, label)
    \/ \E label \in Critical : pc[p] \in Critical /\ lock' = lock /\ Goto(p, label)
    \/ \E label \in CancelPhases : lock' = lock /\ Goto(p, label)
    \/ Return(p)

LEMMA NextIsLockStep ==
    ASSUME TypeInv, NEW p \in Procs, Request(p) \/ Step(p) \/ Crash(p)
    PROVE  LockStep(p)
<1> USE DEF LockStep
<1>1. CASE Begin(p)
  BY <1>1 DEF Begin, Critical, DeployPhases, PreparePhases
<1>2. CASE RbBegin(p)
  <2>1. {"rb_start", "rb_activate"} \subseteq Critical
    BY DEF Critical, RollbackPhases
  <2>2. PICK label \in {"rb_start", "rb_activate"} :
            Goto(p, label) /\ lock = NoProc /\ lock' = p
    BY <1>2 DEF RbBegin
  <2> QED
    BY <2>1, <2>2
<1>3. CASE \E d \in Ids : CancelLoad(p, d)
  BY <1>3 DEF CancelLoad, CancelPhases
<1>4. CASE PrepareStep(p)
  <2>1. PreparePhases \cup TrialPhases \cup AbortPhases \subseteq Critical
    BY DEF Critical, DeployPhases
  <2>2. DeployPhases \subseteq Critical
    BY DEF Critical
  <2>3. CASE PhaseSucceeds(p)
    <3>1. pc[p] \in PreparePhases /\ lock' = lock
          /\ (Goto(p, "abort_remove") \/ Goto(p, NextPhase(pc[p])))
      BY <2>3 DEF PhaseSucceeds
    <3> QED
      BY <2>1, <2>2, <3>1, NextPhaseType DEF AbortPhases
  <2>4. CASE PhaseFails(p)
    <3>1. pc[p] \in PreparePhases /\ lock' = lock /\ Goto(p, "abort_remove")
      BY <2>4 DEF PhaseFails
    <3> QED
      BY <2>1, <3>1 DEF AbortPhases
  <2>5. CASE StartSucceeds(p)
    <3>1. pc[p] = "start" /\ lock' = lock
          /\ (Goto(p, "ready") \/ Goto(p, "activate"))
      BY <2>5 DEF StartSucceeds
    <3> QED
      BY <2>1, <3>1 DEF TrialPhases
  <2>6. CASE StartFails(p)
    BY <2>1, <2>6 DEF StartFails, TrialPhases, AbortPhases
  <2>7. CASE ReadySucceeds(p) \/ ReadyFails(p)
    BY <2>1, <2>7 DEF ReadySucceeds, ReadyFails, TrialPhases, AbortPhases
  <2>8. CASE Activate(p) \/ SwitchSucceeds(p) \/ SwitchFails(p)
    BY <2>1, <2>8 DEF Activate, SwitchSucceeds, SwitchFails, TrialPhases, AbortPhases
  <2> QED
    BY <1>4, <2>3, <2>4, <2>5, <2>6, <2>7, <2>8 DEF PrepareStep
<1>5. CASE ValidateStep(p) \/ AbortStep(p) \/ RejectStep(p) \/ RollbackStep(p)
  BY <1>5, StepsAreSettling DEF SettlingStep, Proceeds
<1>6. CASE CancelStep(p) \/ Crash(p)
  BY <1>6 DEF CancelStep, CancelMark, CancelSave, CancelPhases, Crash
<1> QED
  BY <1>1, <1>2, <1>3, <1>4, <1>5, <1>6 DEF Request, Deploy, Redeploy, Step

LEMMA LockInvNext ==
    ASSUME TypeInv, LockInv, [Next]_vars
    PROVE  LockInv'
<1>1. CASE UNCHANGED vars
  BY <1>1 DEF vars, LockInv
<1>2. ASSUME NEW p \in Procs, Request(p) \/ Step(p) \/ Crash(p)
      PROVE  LockInv'
  <2>1. LockStep(p)
    BY <1>2, NextIsLockStep
  <2>2. {"idle"} \cup CancelPhases \subseteq Labels \ Critical
    BY DEF CancelPhases, Labels, Critical, DeployPhases, PreparePhases, TrialPhases,
           SettlePhases, AbortPhases, RejectPhases, RollbackPhases
  <2>3. pc \in [Procs -> Labels]
    BY DEF TypeInv, TypeOK
  <2> SUFFICES ASSUME NEW q \in Procs, pc'[q] \in Critical
               PROVE  lock' = q
    BY DEF LockInv
  <2>4. CASE \E label \in Critical : lock = NoProc /\ lock' = p /\ Goto(p, label)
    BY <2>3, <2>4, ProcsAssumption DEF LockInv, Goto
  <2>5. CASE \E label \in Critical : pc[p] \in Critical /\ lock' = lock /\ Goto(p, label)
    BY <2>3, <2>5 DEF LockInv, Goto
  <2>6. CASE \E label \in CancelPhases : lock' = lock /\ Goto(p, label)
    BY <2>2, <2>3, <2>6 DEF LockInv, Goto
  <2>7. CASE Return(p)
    <3>1. q # p /\ pc[q] \in Critical
      BY <2>2, <2>3, <2>7 DEF Return, Goto
    <3> QED
      BY <2>7, <3>1 DEF Return, LockInv
  <2> QED
    BY <2>1, <2>4, <2>5, <2>6, <2>7 DEF LockStep
<1> QED
  BY <1>1, <1>2 DEF Next

\* At most one deployment or rollback of the application is under way at any
\* time, however processes interleave, fail or die.
THEOREM DeploymentsExclusive == Spec => []MutualExclusion
<1>1. Init => TypeInv /\ LockInv
  <2>1. Init => LockInv
    BY DEF Init, LockInv, Critical, DeployPhases, PreparePhases, TrialPhases,
           SettlePhases, AbortPhases, RejectPhases, RollbackPhases
  <2> QED
    BY <2>1, TypeInvInit
<1>2. TypeInv /\ LockInv /\ [Next]_vars => TypeInv' /\ LockInv'
  BY TypeInvNext, LockInvNext
<1>3. LockInv => MutualExclusion
  BY DEF LockInv, MutualExclusion
<1> QED
  BY <1>1, <1>2, <1>3, PTL DEF Spec

-----------------------------------------------------------------------------
(* `current' never dangles.  CurrentNeverDangles is not inductive: an abort *)
(* or a rejection is safe only because the release it goes back to was on   *)
(* disk when the operation began, is not the one it deletes, and is kept by *)
(* the lock; and a rollback because its target is.                          *)

\* Records are numbered without gaps, directories belong to records, and an
\* operation in progress works on its own record.
Recording ==
    /\ \E n \in 0 .. MaxDeployments : Recorded = 1 .. n
    /\ dirs \subseteq Recorded
    /\ \A p \in Procs :
          /\ pc[p] \in DeployPhases \cup CancelPhases => job[p].id \in Recorded
          /\ pc[p] \in RollbackPhases \ {"rb_healthy"} =>
                job[p].id \notin Recorded /\ Recorded = 1 .. (job[p].id - 1)

\* Where a deployment may still have to go back to the previous release, where
\* that release is live, and where the new one is on disk or live.
Reversible == DeployPhases \ {"mark_healthy", "drain", "prune"}
OnPrevious == PreparePhases \cup {"start", "ready", "activate"}
              \cup (AbortPhases \ {"abort_restore"})
              \cup (RejectPhases \ {"reject_restore"})
OnRelease  == {"switch", "health", "post_deploy", "post_command", "complete",
               "abort_restore", "reject_restore"}
OnDisk     == OnRelease \cup RollbackPhases
              \cup {"pre_deploy", "build", "migrate", "start", "ready", "activate"}

Standing(p) ==
    /\ pc[p] \in Reversible => job[p].release = job[p].id
    /\ pc[p] \in Reversible /\ validated # {} =>
          job[p].prev \in dirs /\ job[p].prev # job[p].release
    /\ pc[p] \in RollbackPhases /\ validated # {} => job[p].prev \in dirs
    /\ pc[p] \in OnPrevious /\ validated # {} => current = job[p].prev
    /\ pc[p] \in OnRelease => current = job[p].release
    /\ pc[p] \in OnDisk => job[p].release \in dirs
    /\ pc[p] \in RejectPhases \ {"reject_restore"} /\ validated # {} => job[p].restored

ReleaseInv == Recording /\ CurrentNeverDangles /\ \A p \in Procs : Standing(p)

LEMMA UpsertRecorded ==
    ASSUME TypeOK, NEW j, j.id \in Ids, NEW status \in Statuses \ {"absent"},
           Upsert(j, status)
    PROVE  Recorded' = Recorded \cup {j.id}
<1>1. db' = [db EXCEPT ![j.id] = [status |-> status, release |-> j.release,
                                  port |-> j.port, commit |-> j.commit]]
  BY DEF Upsert
<1>2. db'[j.id].status # "absent"
  BY <1>1 DEF TypeOK
<1>3. \A d \in Ids \ {j.id} : db'[d] = db[d]
  BY <1>1 DEF TypeOK
<1> QED
  BY <1>2, <1>3 DEF Recorded

\* The identifier a new record gets is the next one, and was never used.
LEMMA NextIdFresh ==
    ASSUME NEW n \in 0 .. MaxDeployments, Recorded = 1 .. n
    PROVE  NextId = n + 1
<1>1. Cardinality(1 .. n) = n
  BY FS_Interval
<1> QED
  BY <1>1 DEF NextId

LEMMA PhasesDisjoint ==
    /\ "idle" \notin DeployPhases \cup RollbackPhases \cup CancelPhases
    /\ DeployPhases \cap RollbackPhases = {}
    /\ DeployPhases \cap CancelPhases = {}
    /\ RollbackPhases \cap CancelPhases = {}
    /\ Critical = DeployPhases \cup RollbackPhases
BY DEF DeployPhases, RollbackPhases, CancelPhases, PreparePhases, TrialPhases,
       SettlePhases, AbortPhases, RejectPhases, Critical

\* Steps of the deployment under the lock, and of the rollback.
CriticalStep(p) ==
    PrepareStep(p) \/ ValidateStep(p) \/ AbortStep(p) \/ RejectStep(p) \/ RollbackStep(p)

LEMMA CriticalStepPhase ==
    ASSUME TypeInv, NEW p \in Procs, CriticalStep(p)
    PROVE  pc[p] \in Critical
<1>1. CASE PrepareStep(p)
  <2>1. PreparePhases \cup TrialPhases \subseteq Critical
    BY DEF Critical, DeployPhases
  <2> QED
    BY <1>1, <2>1 DEF PrepareStep, TrialPhases, PhaseSucceeds, PhaseFails, StartSucceeds,
       StartFails, ReadySucceeds, ReadyFails, Activate, SwitchSucceeds, SwitchFails
<1>2. CASE ValidateStep(p) \/ AbortStep(p) \/ RejectStep(p) \/ RollbackStep(p)
  BY <1>2, StepsAreSettling DEF SettlingStep
<1> QED
  BY <1>1, <1>2 DEF CriticalStep

\* A step moves only the process that takes it.
LEMMA OthersUnmoved ==
    ASSUME TypeInv, NEW p \in Procs, Request(p) \/ Step(p) \/ Crash(p),
           NEW q \in Procs, q # p
    PROVE  pc'[q] = pc[q] /\ job'[q] = job[q]
<1>1. pc \in [Procs -> Labels] /\ job \in [Procs -> Jobs]
  BY DEF TypeInv, TypeOK
<1>2. pc'[q] = pc[q]
  <2>1. LockStep(p)
    BY NextIsLockStep
  <2> QED
    BY <1>1, <2>1 DEF LockStep, Return, Goto
<1>3. CASE Request(p)
  BY <1>1, <1>2, <1>3 DEF Request, Deploy, Redeploy, Begin, RbBegin, CancelLoad
<1>4. CASE PrepareStep(p)
  <2>1. CASE PhaseSucceeds(p)
    BY <1>1, <1>2, <2>1 DEF PhaseSucceeds
  <2>2. CASE PhaseFails(p)
    BY <1>1, <1>2, <2>2 DEF PhaseFails
  <2>3. CASE StartSucceeds(p)
    BY <1>1, <1>2, <2>3 DEF StartSucceeds
  <2>4. CASE StartFails(p) \/ ReadySucceeds(p) \/ ReadyFails(p) \/ Activate(p)
             \/ SwitchSucceeds(p) \/ SwitchFails(p)
    BY <1>2, <2>4 DEF StartFails, ReadySucceeds, ReadyFails, Activate, SwitchSucceeds, SwitchFails
  <2> QED
    BY <1>2, <1>4, <2>1, <2>2, <2>3, <2>4 DEF PrepareStep
<1>5. CASE ValidateStep(p) \/ AbortStep(p) \/ RejectStep(p) \/ RollbackStep(p)
  <2>1. Return(p) \/ Proceeds(p)
    BY <1>5, StepsAreSettling DEF SettlingStep
  <2> QED
    BY <1>1, <1>2, <2>1 DEF Return, Proceeds
<1>6. CASE CancelStep(p) \/ Crash(p)
  BY <1>1, <1>2, <1>6 DEF CancelStep, CancelMark, CancelSave, Crash, Return
<1> QED
  BY <1>3, <1>4, <1>5, <1>6 DEF Step

\* Without the lock a process touches neither the directories nor `current'.
LEMMA OutsideTheLock ==
    ASSUME TypeInv, NEW p \in Procs, Request(p) \/ Step(p) \/ Crash(p),
           pc[p] \notin Critical, lock # NoProc
    PROVE  UNCHANGED <<dirs, current, validated>>
<1>1. CASE Request(p)
  BY <1>1 DEF Request, Deploy, Redeploy, Begin, RbBegin, CancelLoad, host, ghost
<1>2. CASE CancelStep(p) \/ Crash(p)
  BY <1>2 DEF CancelStep, CancelMark, CancelSave, Crash, host, ghost
<1>3. ~ CriticalStep(p)
  BY CriticalStepPhase
<1> QED
  BY <1>1, <1>2, <1>3 DEF Step, CriticalStep

\* So a process that is not the one that moves keeps its standing.
LEMMA OthersKeepStanding ==
    ASSUME TypeInv, LockInv, NEW p \in Procs, NEW q \in Procs, q # p,
           Standing(q), Request(p) \/ Step(p) \/ Crash(p)
    PROVE  Standing(q)'
<1>1. pc'[q] = pc[q] /\ job'[q] = job[q]
  BY OthersUnmoved
<1>2. CASE pc[q] \notin Critical
  <2>1. pc[q] \notin DeployPhases \cup RollbackPhases
    BY <1>2, PhasesDisjoint
  <2>2. OnPrevious \cup OnRelease \cup Reversible \cup RejectPhases \subseteq DeployPhases
        /\ OnDisk \subseteq DeployPhases \cup RollbackPhases
    BY DEF OnPrevious, OnRelease, Reversible, OnDisk, DeployPhases, PreparePhases,
           TrialPhases, SettlePhases, AbortPhases, RejectPhases
  <2> QED
    BY <1>1, <2>1, <2>2 DEF Standing
<1>3. CASE pc[q] \in Critical
  <2>1. lock = q /\ pc[p] \notin Critical /\ lock # NoProc
    BY <1>3, ProcsAssumption DEF LockInv
  <2>2. UNCHANGED <<dirs, current, validated>>
    BY <2>1, OutsideTheLock
  <2> QED
    BY <1>1, <2>2 DEF Standing
<1> QED
  BY <1>2, <1>3

\* Storing the record of an operation that is recorded already.
LEMMA UpsertKnown ==
    ASSUME TypeOK, NEW j, j.id \in Recorded, NEW status \in Statuses \ {"absent"},
           Upsert(j, status)
    PROVE  Recorded' = Recorded
BY UpsertRecorded DEF Recorded

\* A deployment stays with its record and makes no directory but its own.
DeployKeeps(p) ==
    /\ Recorded' = Recorded
    /\ dirs' \subseteq dirs \cup {job[p].id}
    /\ pc'[p] # "idle" => pc'[p] \in DeployPhases /\ job'[p].id = job[p].id

LEMMA PrepareKeeps ==
    ASSUME TypeInv, Recording, NEW p \in Procs, PrepareStep(p)
    PROVE  pc[p] \in DeployPhases /\ DeployKeeps(p)
<1> USE DEF DeployKeeps, record, host
<1>1. pc \in [Procs -> Labels] /\ job \in [Procs -> Jobs] /\ TypeOK
  BY DEF TypeInv, TypeOK
<1>2. PreparePhases \cup TrialPhases \cup AbortPhases \subseteq DeployPhases
  BY DEF DeployPhases
<1>3. {"started", "cancelled"} \subseteq Statuses \ {"absent"}
  BY DEF Statuses
<1>4. pc[p] \in DeployPhases => job[p].id \in Recorded
  BY DEF Recording
<1>5. ASSUME PhaseSucceeds(p)
      PROVE  pc[p] \in DeployPhases /\ DeployKeeps(p)
  <2> DEFINE j == [job[p] EXCEPT !.commit = @ \/ pc[p] = "checkout"]
  <2>1. pc[p] \in PreparePhases /\ job' = [job EXCEPT ![p] = j]
        /\ dirs' \in {dirs, dirs \cup {j.id}}
    BY <1>5 DEF PhaseSucceeds
  <2>2. j.id = job[p].id
    BY <1>1 DEF Jobs
  <2>3. PICK label \in DeployPhases, status \in {"started", "cancelled"} :
            Goto(p, label) /\ Upsert(j, status)
    BY <1>2, <1>5, <2>1, NextPhaseType DEF PhaseSucceeds, AbortPhases
  <2> HIDE DEF j
  <2>4. Recorded' = Recorded
    BY <1>1, <1>2, <1>3, <1>4, <2>1, <2>2, <2>3, UpsertKnown
  <2>5. pc'[p] = label /\ job'[p].id = job[p].id
    BY <1>1, <2>1, <2>2, <2>3 DEF Goto
  <2> QED
    BY <1>2, <2>1, <2>2, <2>4, <2>5
<1>6. ASSUME PhaseFails(p)
      PROVE  pc[p] \in DeployPhases /\ DeployKeeps(p)
  <2>1. pc[p] \in PreparePhases /\ Goto(p, "abort_remove")
        /\ dirs' \in {dirs, dirs \cup {job[p].id}}
    BY <1>6 DEF PhaseFails
  <2>2. PICK resolved \in BOOLEAN :
            job' = [job EXCEPT ![p] = [job[p] EXCEPT !.commit = resolved]]
    BY <1>1, <1>6 DEF PhaseFails, Jobs
  <2>3. UNCHANGED db \/ Upsert(job[p], "started")
    BY <1>6 DEF PhaseFails
  <2>4. Recorded' = Recorded
    <3>1. CASE Upsert(job[p], "started")
      BY <1>1, <1>2, <1>3, <1>4, <2>1, <3>1, UpsertKnown
    <3>2. CASE UNCHANGED db
      BY <3>2 DEF Recorded
    <3> QED
      BY <2>3, <3>1, <3>2
  <2>5. pc'[p] = "abort_remove" /\ job'[p].id = job[p].id
    BY <1>1, <2>1, <2>2 DEF Goto, Jobs
  <2> QED
    BY <1>2, <2>1, <2>4, <2>5 DEF AbortPhases
<1>7. ASSUME StartSucceeds(p)
      PROVE  pc[p] \in DeployPhases /\ DeployKeeps(p)
  <2>1. pc[p] = "start" /\ dirs' = dirs /\ pc[p] \in DeployPhases
    BY <1>2, <1>7 DEF StartSucceeds, TrialPhases
  <2>2. CASE Handoff
    <3> DEFINE j == [job[p] EXCEPT !.port = InactivePort(job[p].prevPort)]
    <3>1. job' = [job EXCEPT ![p] = j] /\ Upsert(j, "started") /\ Goto(p, "ready")
      BY <1>7, <2>2 DEF StartSucceeds
    <3>2. j.id = job[p].id
      BY <1>1 DEF Jobs
    <3> HIDE DEF j
    <3>3. Recorded' = Recorded
      BY <1>1, <1>3, <1>4, <2>1, <3>1, <3>2, UpsertKnown
    <3>4. pc'[p] = "ready" /\ job'[p].id = job[p].id
      BY <1>1, <3>1, <3>2 DEF Goto
    <3> QED
      BY <1>2, <2>1, <3>3, <3>4 DEF TrialPhases
  <2>3. CASE ~ Handoff
    <3>1. UNCHANGED <<job, db>> /\ Goto(p, "activate")
      BY <1>7, <2>3 DEF StartSucceeds
    <3> QED
      BY <1>1, <1>2, <2>1, <3>1 DEF Recorded, Goto, TrialPhases
  <2> QED
    BY <2>2, <2>3
<1>8. ASSUME StartFails(p) \/ ReadySucceeds(p) \/ ReadyFails(p) \/ Activate(p)
             \/ SwitchSucceeds(p) \/ SwitchFails(p)
      PROVE  pc[p] \in DeployPhases /\ DeployKeeps(p)
  <2>1. pc[p] \in TrialPhases /\ UNCHANGED <<dirs, job>>
        /\ (UNCHANGED db \/ Upsert(job[p], "started"))
    BY <1>8 DEF StartFails, ReadySucceeds, ReadyFails, Activate, SwitchSucceeds,
                SwitchFails, TrialPhases
  <2>2. PICK label \in TrialPhases \cup AbortPhases : Goto(p, label)
    BY <1>8 DEF StartFails, ReadySucceeds, ReadyFails, Activate, SwitchSucceeds,
                SwitchFails, TrialPhases, AbortPhases
  <2>3. Recorded' = Recorded
    <3>1. CASE Upsert(job[p], "started")
      BY <1>1, <1>2, <1>3, <1>4, <2>1, <3>1, UpsertKnown
    <3>2. CASE UNCHANGED db
      BY <3>2 DEF Recorded
    <3> QED
      BY <2>1, <3>1, <3>2
  <2> QED
    BY <1>1, <1>2, <2>1, <2>2, <2>3 DEF Goto
<1> QED
  BY <1>5, <1>6, <1>7, <1>8 DEF PrepareStep

LEMMA SettleKeeps ==
    ASSUME TypeInv, Recording, NEW p \in Procs,
           ValidateStep(p) \/ AbortStep(p) \/ RejectStep(p)
    PROVE  pc[p] \in DeployPhases /\ DeployKeeps(p)
<1> USE DEF DeployKeeps, record, host
<1>1. pc \in [Procs -> Labels] /\ job \in [Procs -> Jobs] /\ TypeOK
  BY DEF TypeInv, TypeOK
<1>2. {"health"} \cup SettlePhases \cup AbortPhases \cup RejectPhases \subseteq DeployPhases
  BY DEF DeployPhases, TrialPhases
<1>3. {"started", "cancelled", "completed", "failed", "failed_rolled_back"}
          \subseteq Statuses \ {"absent"}
  BY DEF Statuses
<1>4. /\ pc[p] \in {"health"} \cup SettlePhases \cup AbortPhases \cup RejectPhases
      /\ \/ Goto(p, "idle")
         \/ \E label \in SettlePhases \cup AbortPhases \cup RejectPhases : Goto(p, label)
      /\ UNCHANGED db \/ \E status \in {"started", "cancelled", "completed", "failed",
                               "failed_rolled_back"} : Upsert(job[p], status)
  <2> USE DEF SettlePhases, AbortPhases, RejectPhases
  <2>1. CASE ValidateStep(p)
    BY <2>1 DEF ValidateStep, HealthPasses, HealthFails, PostDeployBegins,
       PostDeploySucceeds, PostDeployFails, Complete, MarkHealthy, Drain, Prune, Return
  <2>2. CASE AbortStep(p)
    BY <2>2 DEF AbortStep, AbortRestore, AbortUpstream, AbortStop, AbortRemove,
       AbortRecord, AbortHealth, Return
  <2>3. CASE RejectStep(p)
    BY <2>3 DEF RejectStep, RejectRestore, RejectUpstream, RejectUpstreamFails,
       RejectStop, RejectStopFails, RejectRecord, RejectHealth, RejectCleanup, Return
  <2> QED
    BY <2>1, <2>2, <2>3
<1>5. dirs' \subseteq dirs /\ (Return(p) \/ Proceeds(p))
  BY StepsAreSettling DEF SettlingStep
<1>6. Recorded' = Recorded
  <2>1. CASE UNCHANGED db
    BY <2>1 DEF Recorded
  <2>2. ASSUME NEW status \in {"started", "cancelled", "completed", "failed",
                               "failed_rolled_back"}, Upsert(job[p], status)
        PROVE  Recorded' = Recorded
    <3>1. job[p].id \in Recorded
      BY <1>2, <1>4 DEF Recording
    <3> QED
      BY <1>1, <1>3, <2>2, <3>1, UpsertKnown
  <2> QED
    BY <1>4, <2>1, <2>2
<1>7. pc'[p] = "idle" \/ pc'[p] \in DeployPhases
  BY <1>1, <1>2, <1>4 DEF Goto
<1>8. pc'[p] # "idle" => job'[p].id = job[p].id
  <2>1. CASE Return(p)
    BY <1>1, <2>1 DEF Return, Goto
  <2>2. CASE Proceeds(p)
    BY <1>1, <2>2 DEF Proceeds
  <2> QED
    BY <1>5, <2>1, <2>2
<1> QED
  BY <1>2, <1>4, <1>5, <1>6, <1>7, <1>8

\* A rollback writes its record last, under an identifier nobody else takes.
RollbackKeeps(p) ==
    /\ dirs' = dirs
    /\ \/ Recorded' = Recorded /\ pc'[p] = "idle"
       \/ /\ Recorded' = Recorded /\ job'[p].id = job[p].id
          /\ {pc[p], pc'[p]} \subseteq RollbackPhases \ {"rb_healthy"}
       \/ /\ pc[p] = "rb_record" /\ pc'[p] = "rb_healthy"
          /\ Recorded' = Recorded \cup {job[p].id}

LEMMA RollbackStepKeeps ==
    ASSUME TypeInv, NEW p \in Procs, RollbackStep(p)
    PROVE  pc[p] \in RollbackPhases /\ RollbackKeeps(p)
<1> USE DEF record, host
<1>1. pc \in [Procs -> Labels] /\ job \in [Procs -> Jobs] /\ TypeOK
  BY DEF TypeInv, TypeOK
<1>2. ASSUME RbRecord(p)
      PROVE  pc[p] \in RollbackPhases /\ RollbackKeeps(p)
  <2>1. /\ pc[p] = "rb_record" /\ Goto(p, "rb_healthy") /\ dirs' = dirs
        /\ Upsert(job[p], "rolled_back")
    BY <1>2 DEF RbRecord
  <2>2. pc[p] \in RollbackPhases /\ "rolled_back" \in Statuses \ {"absent"}
    BY <2>1 DEF RollbackPhases, Statuses
  <2>3. job[p].id \in Ids
    BY <2>1 DEF TypeInv, ActiveJobs
  <2>4. Recorded' = Recorded \cup {job[p].id}
    BY <1>1, <2>1, <2>2, <2>3, UpsertRecorded
  <2> QED
    BY <1>1, <2>1, <2>2, <2>4 DEF RollbackKeeps, Goto
<1>3. ASSUME RbStart(p) \/ RbStartFails(p) \/ RbReady(p) \/ RbActivate(p) \/ RbSwitch(p)
             \/ RbHealth(p) \/ RbReactivate(p) \/ RbReroute(p) \/ RbAbandon(p)
             \/ RbDrain(p) \/ RbDrainFails(p) \/ RbHealthy(p)
      PROVE  pc[p] \in RollbackPhases /\ RollbackKeeps(p)
  <2>1. /\ pc[p] \in RollbackPhases /\ UNCHANGED <<db, dirs>>
        /\ \/ Goto(p, "idle")
           \/ /\ pc[p] # "rb_healthy" /\ UNCHANGED job
              /\ \E label \in RollbackPhases \ {"rb_healthy"} : Goto(p, label)
    BY <1>3 DEF RbStart, RbStartFails, RbReady, RbActivate, RbSwitch, RbHealth,
       RbReactivate, RbReroute, RbAbandon, RbDrain, RbDrainFails, RbHealthy, Return,
       RollbackPhases
  <2>2. Recorded' = Recorded
    BY <2>1 DEF Recorded
  <2> QED
    BY <1>1, <2>1, <2>2 DEF RollbackKeeps, Goto
<1> QED
  BY <1>2, <1>3 DEF RollbackStep

LEMMA RecordingNext ==
    ASSUME TypeInv, LockInv, Recording, NEW p \in Procs, Request(p) \/ Step(p) \/ Crash(p)
    PROVE  Recording'
<1>1. /\ pc \in [Procs -> Labels] /\ job \in [Procs -> Jobs] /\ TypeOK
      /\ \A q \in Procs \ {p} : pc'[q] = pc[q] /\ job'[q] = job[q]
  BY OthersUnmoved DEF TypeInv, TypeOK
<1>2. PICK n \in 0 .. MaxDeployments : Recorded = 1 .. n
  BY DEF Recording
<1>3. Recorded \subseteq Ids
  BY DEF Recorded
\* Nothing new is recorded, and the process goes on with what it had or is done.
<1>4. ASSUME Recorded' = Recorded, dirs' \subseteq Recorded,
             pc'[p] \in DeployPhases \cup CancelPhases => job'[p].id \in Recorded,
             pc'[p] \in RollbackPhases \ {"rb_healthy"} =>
                job'[p].id \notin Recorded /\ Recorded = 1 .. (job'[p].id - 1)
      PROVE  Recording'
  BY <1>1, <1>2, <1>4 DEF Recording
\* The next record is pushed by the process that holds the lock.
<1>5. ASSUME Recorded' = Recorded \cup {n + 1}, n + 1 \in Ids, dirs' = dirs,
             pc'[p] \in DeployPhases \cup {"rb_healthy"},
             pc'[p] \in DeployPhases => job'[p].id = n + 1,
             \A q \in Procs \ {p} : pc[q] \notin Critical
      PROVE  Recording'
  <2>1. Recorded' = 1 .. (n + 1) /\ n + 1 \in 0 .. MaxDeployments
    BY <1>2, <1>5 DEF Ids
  <2>2. pc'[p] \in DeployPhases \cup CancelPhases => job'[p].id \in Recorded'
    BY <1>5, PhasesDisjoint DEF CancelPhases
  <2>3. pc'[p] \notin RollbackPhases \ {"rb_healthy"}
    BY <1>5, PhasesDisjoint
  <2>4. ASSUME NEW q \in Procs \ {p}
        PROVE  /\ pc'[q] \in DeployPhases \cup CancelPhases => job'[q].id \in Recorded'
               /\ pc'[q] \notin RollbackPhases
    BY <1>1, <1>5, PhasesDisjoint DEF Recording
  <2> QED
    BY <1>5, <2>1, <2>2, <2>3, <2>4 DEF Recording
<1>6. pc[p] \in Critical => \A q \in Procs \ {p} : pc[q] \notin Critical
  BY DEF LockInv
<1>7. lock = NoProc => \A q \in Procs : pc[q] \notin Critical
  BY ProcsAssumption DEF LockInv
<1>8. ASSUME Begin(p)
      PROVE  Recording'
  <2>1. /\ lock = NoProc /\ NextId \in Ids /\ dirs' = dirs /\ Goto(p, "source")
    BY <1>8 DEF Begin, host
  <2>2. NextId = n + 1
    BY <1>2, NextIdFresh
  <2> DEFINE j == [NoJob EXCEPT !.id = NextId, !.release = NextId,
                                !.prev = current, !.prevPort = NodePort(current),
                                !.commands = PostCommands]
  <2>3. job' = [job EXCEPT ![p] = j] /\ Upsert(j, "started")
    BY <1>8 DEF Begin
  <2>4. j.id = NextId /\ "started" \in Statuses \ {"absent"}
    BY DEF NoJob, Statuses
  <2> HIDE DEF j
  <2>5. Recorded' = Recorded \cup {n + 1}
    BY <1>1, <2>1, <2>2, <2>3, <2>4, UpsertRecorded
  <2>6. pc'[p] = "source" /\ job'[p].id = n + 1
    BY <1>1, <2>1, <2>2, <2>3, <2>4 DEF Goto
  <2> QED
    BY <1>5, <1>7, <2>1, <2>2, <2>5, <2>6 DEF DeployPhases, PreparePhases
<1>9. ASSUME RbBegin(p)
      PROVE  Recording'
  <2>1. /\ UNCHANGED <<db, dirs>>
        /\ \E label \in {"rb_start", "rb_activate"} : Goto(p, label)
    BY <1>9 DEF RbBegin, record, host
  <2> DEFINE t == db[Max(RollbackTargets)]
             j == [NoJob EXCEPT !.id = NextId, !.release = t.release,
                                !.port = t.port, !.commit = t.commit,
                                !.prev = current, !.prevPort = NodePort(current)]
  <2>a. job' = [job EXCEPT ![p] = j]
    BY <1>9 DEF RbBegin
  <2>2. j.id = NextId
    BY DEF NoJob
  <2> HIDE DEF j
  <2>3. /\ pc'[p] \in {"rb_start", "rb_activate"} /\ job'[p].id = n + 1
        /\ Recorded' = Recorded
    BY <1>1, <1>2, <2>1, <2>a, <2>2, NextIdFresh DEF Goto, Recorded
  <2>4. pc'[p] \notin DeployPhases \cup CancelPhases
    BY <2>3, PhasesDisjoint DEF RollbackPhases
  <2> QED
    BY <1>2, <1>4, <2>1, <2>3, <2>4 DEF Recording
<1>10. ASSUME NEW d \in Ids, CancelLoad(p, d)
       PROVE  Recording'
  <2>1. UNCHANGED <<db, dirs>> /\ Goto(p, "cancel_mark") /\ d \in Recorded
    BY <1>10 DEF CancelLoad, record, host, Recorded
  <2> DEFINE j == [NoJob EXCEPT !.id = d, !.release = db[d].release,
                                !.port = db[d].port, !.commit = db[d].commit]
  <2>a. job' = [job EXCEPT ![p] = j]
    BY <1>10 DEF CancelLoad
  <2>2. j.id = d
    BY DEF NoJob
  <2> HIDE DEF j
  <2>3. pc'[p] = "cancel_mark" /\ job'[p].id = d /\ Recorded' = Recorded
    BY <1>1, <2>1, <2>a, <2>2 DEF Goto, Recorded
  <2>4. pc'[p] \notin RollbackPhases
    BY <2>3, PhasesDisjoint DEF CancelPhases
  <2> QED
    BY <1>4, <2>1, <2>3, <2>4 DEF Recording
<1>11. CASE PrepareStep(p) \/ ValidateStep(p) \/ AbortStep(p) \/ RejectStep(p)
  <2>1. pc[p] \in DeployPhases /\ DeployKeeps(p)
    BY <1>11, PrepareKeeps, SettleKeeps
  <2>2. job[p].id \in Recorded
    BY <2>1 DEF Recording
  <2>3. pc'[p] # "idle" => pc'[p] \in DeployPhases /\ job'[p].id = job[p].id
    BY <2>1 DEF DeployKeeps
  <2>4. "idle" \notin DeployPhases \cup CancelPhases \cup RollbackPhases
    BY PhasesDisjoint
  <2> QED
    BY <1>4, <2>1, <2>2, <2>3, <2>4, PhasesDisjoint DEF DeployKeeps, Recording
<1>12. CASE RollbackStep(p)
  <2>1. pc[p] \in RollbackPhases /\ RollbackKeeps(p)
    BY <1>12, RollbackStepKeeps
  <2>2. CASE Recorded' = Recorded /\ pc'[p] = "idle"
    BY <1>4, <2>1, <2>2, PhasesDisjoint DEF RollbackKeeps, Recording
  <2>3. CASE /\ Recorded' = Recorded /\ job'[p].id = job[p].id
             /\ {pc[p], pc'[p]} \subseteq RollbackPhases \ {"rb_healthy"}
    <3>1. job'[p].id \notin Recorded /\ Recorded = 1 .. (job'[p].id - 1)
      BY <2>3 DEF Recording
    <3>2. pc'[p] \notin DeployPhases \cup CancelPhases
      BY <2>3, PhasesDisjoint
    <3> QED
      BY <1>4, <2>1, <2>3, <3>1, <3>2 DEF RollbackKeeps, Recording
  <2>4. CASE /\ pc[p] = "rb_record" /\ pc'[p] = "rb_healthy"
             /\ Recorded' = Recorded \cup {job[p].id}
    <3>1. job[p].id \in Ids
      BY <2>4 DEF TypeInv, ActiveJobs
    <3>2. job[p].id \notin Recorded /\ Recorded = 1 .. (job[p].id - 1)
      BY <2>1, <2>4 DEF Recording
    <3>3. job[p].id = n + 1
      BY <1>2, <3>1, <3>2 DEF Ids
    <3>4. pc'[p] \notin DeployPhases /\ pc[p] \in Critical
      BY <2>1, <2>4, PhasesDisjoint DEF RollbackPhases
    <3> QED
      BY <1>5, <1>6, <2>1, <2>4, <3>1, <3>3, <3>4 DEF RollbackKeeps
  <2> QED
    BY <2>1, <2>2, <2>3, <2>4 DEF RollbackKeeps
<1>13. CASE CancelStep(p)
  <2>1. /\ pc[p] \in CancelPhases /\ dirs' = dirs
        /\ UNCHANGED db \/ Upsert(job[p], "cancelling")
        /\ \/ Goto(p, "idle")
           \/ Goto(p, "cancel_save") /\ UNCHANGED job
    BY <1>13 DEF CancelStep, CancelMark, CancelSave, CancelPhases, host, Return
  <2>2. job[p].id \in Recorded /\ "cancelling" \in Statuses \ {"absent"}
    BY <2>1 DEF Recording, Statuses
  <2>3. Recorded' = Recorded
    <3>1. CASE UNCHANGED db
      BY <3>1 DEF Recorded
    <3>2. CASE Upsert(job[p], "cancelling")
      BY <1>1, <2>2, <3>2, UpsertKnown
    <3> QED
      BY <2>1, <3>1, <3>2
  <2>4. pc'[p] = "idle" \/ (pc'[p] = "cancel_save" /\ job' = job)
    BY <1>1, <2>1 DEF Goto
  <2>5. pc'[p] \notin RollbackPhases /\ (pc'[p] \in DeployPhases \cup CancelPhases => job' = job)
    BY <2>4, PhasesDisjoint DEF CancelPhases
  <2> QED
    BY <1>4, <2>1, <2>2, <2>3, <2>5 DEF Recording
<1>14. CASE Crash(p)
  <2>1. UNCHANGED <<db, dirs>> /\ pc'[p] = "idle"
    BY <1>1, <1>14 DEF Crash, record, host, Return, Goto
  <2> QED
    BY <1>4, <2>1, PhasesDisjoint DEF Recorded, Recording
<1> QED
  BY <1>8, <1>9, <1>10, <1>11, <1>12, <1>13, <1>14 DEF Request, Deploy, Redeploy, Step

\* What a step must establish for the process that takes it.
Stands(p) == Standing(p) /\ CurrentNeverDangles

\* A step that keeps the releases of the job, the directories, `current' and
\* the validated releases, and leads from one label to another whose promises
\* are among those the first made.
LEMMA QuietStep ==
    ASSUME NEW p \in Procs, Stands(p), TypeInv, NEW label, Goto(p, label),
           UNCHANGED <<dirs, current, validated>>,
           job'[p].id = job[p].id, job'[p].release = job[p].release,
           job'[p].prev = job[p].prev, job'[p].restored = job[p].restored,
           label \in Reversible => pc[p] \in Reversible,
           label \in RollbackPhases => pc[p] \in RollbackPhases,
           label \in OnPrevious => pc[p] \in OnPrevious,
           label \in OnRelease => pc[p] \in OnRelease,
           label \in OnDisk => pc[p] \in OnDisk,
           label \in RejectPhases \ {"reject_restore"} =>
               pc[p] \in RejectPhases \ {"reject_restore"}
    PROVE  Stands(p)'
<1>1. pc'[p] = label
  BY DEF TypeInv, TypeOK, Goto
<1> QED
  BY <1>1 DEF Stands, Standing, CurrentNeverDangles

\* Returning leaves nothing to stand for but `current'.
LEMMA IdleStands ==
    ASSUME NEW p \in Procs, TypeInv, Goto(p, "idle"), CurrentNeverDangles'
    PROVE  Stands(p)'
<1>1. pc'[p] = "idle"
  BY DEF TypeInv, TypeOK, Goto
<1>2. "idle" \notin Reversible \cup RollbackPhases \cup OnPrevious \cup OnRelease
                    \cup OnDisk \cup RejectPhases
  BY DEF Reversible, RollbackPhases, OnPrevious, OnRelease, OnDisk, RejectPhases,
         DeployPhases, PreparePhases, TrialPhases, SettlePhases, AbortPhases
<1> QED
  BY <1>1, <1>2 DEF Stands, Standing

LEMMA PrepareStands ==
    ASSUME TypeInv, NEW p \in Procs, Stands(p), PrepareStep(p)
    PROVE  Stands(p)'
<1> USE DEF host, ghost, Reversible, OnPrevious, OnRelease, OnDisk, DeployPhases,
        RollbackPhases, PreparePhases, TrialPhases, SettlePhases, AbortPhases,
        RejectPhases
<1>1. pc \in [Procs -> Labels] /\ job \in [Procs -> Jobs] /\ TypeOK
  BY DEF TypeInv, TypeOK
<1>2. ASSUME PhaseSucceeds(p)
      PROVE  Stands(p)'
  <2> DEFINE j == [job[p] EXCEPT !.commit = @ \/ pc[p] = "checkout"]
  <2>1. /\ pc[p] \in PreparePhases /\ job' = [job EXCEPT ![p] = j]
        /\ UNCHANGED <<current, validated>>
        /\ dirs' = IF pc[p] = "checkout" THEN dirs \cup {j.id} ELSE dirs
        /\ \/ Goto(p, "abort_remove")
           \/ Goto(p, NextPhase(pc[p]))
    BY <1>2 DEF PhaseSucceeds
  <2>2. /\ j.id = job[p].id /\ j.release = job[p].release /\ j.prev = job[p].prev
        /\ j.restored = job[p].restored
    BY <1>1 DEF Jobs
  <2> HIDE DEF j
  <2>3. job'[p] = j
    BY <1>1, <2>1
  <2>4. CASE pc[p] = "checkout"
    <3>1. pc'[p] \in {"abort_remove", "pre_deploy"}
      BY <1>1, <2>1, <2>4 DEF Goto, NextPhase
    <3>2. dirs' = dirs \cup {job[p].release}
      BY <2>1, <2>2, <2>4 DEF Stands, Standing
    <3> QED
      BY <2>1, <2>2, <2>3, <2>4, <3>1, <3>2 DEF Stands, Standing, CurrentNeverDangles
  <2>5. CASE pc[p] # "checkout"
    <3>1. PICK label : /\ Goto(p, label)
                       /\ label \in {"abort_remove", NextPhase(pc[p])}
      BY <2>1
    <3>2. \/ label = "abort_remove"
          \/ pc[p] = "source" /\ label = "checkout"
          \/ pc[p] \in {"pre_deploy", "build", "migrate"}
             /\ label \in {"build", "migrate", "start"}
      BY <2>1, <2>5, <3>1 DEF NextPhase
    <3> QED
      BY <2>1, <2>2, <2>3, <2>5, <3>1, <3>2, QuietStep
  <2> QED
    BY <2>4, <2>5
<1>3. ASSUME PhaseFails(p)
      PROVE  Stands(p)'
  <2>1. /\ pc[p] \in PreparePhases /\ Goto(p, "abort_remove")
        /\ dirs' \in {dirs, dirs \cup {job[p].id}} /\ UNCHANGED <<current, validated>>
    BY <1>3 DEF PhaseFails
  <2>2. PICK resolved \in BOOLEAN :
            job' = [job EXCEPT ![p] = [job[p] EXCEPT !.commit = resolved]]
    BY <1>1, <1>3 DEF PhaseFails, Jobs
  <2>3. /\ job'[p].id = job[p].id /\ job'[p].release = job[p].release
        /\ job'[p].prev = job[p].prev /\ job'[p].restored = job[p].restored
    BY <1>1, <2>2 DEF Jobs
  <2>4. pc'[p] = "abort_remove"
    BY <1>1, <2>1 DEF Goto
  <2> QED
    BY <2>1, <2>3, <2>4 DEF Stands, Standing, CurrentNeverDangles
<1>4. ASSUME StartSucceeds(p)
      PROVE  Stands(p)'
  <2>1. pc[p] = "start" /\ UNCHANGED <<dirs, current, validated>>
    BY <1>4 DEF StartSucceeds
  <2>2. CASE Handoff
    <3> DEFINE j == [job[p] EXCEPT !.port = InactivePort(job[p].prevPort)]
    <3>1. job' = [job EXCEPT ![p] = j] /\ Goto(p, "ready")
      BY <1>4, <2>2 DEF StartSucceeds
    <3>2. /\ j.id = job[p].id /\ j.release = job[p].release /\ j.prev = job[p].prev
          /\ j.restored = job[p].restored
      BY <1>1 DEF Jobs
    <3> HIDE DEF j
    <3>3. job'[p] = j
      BY <1>1, <3>1
    <3> QED
      BY <2>1, <3>1, <3>2, <3>3, QuietStep
  <2>3. CASE ~ Handoff
    <3>1. UNCHANGED job /\ Goto(p, "activate")
      BY <1>4, <2>3 DEF StartSucceeds
    <3> QED
      BY <2>1, <3>1, QuietStep
  <2> QED
    BY <2>2, <2>3
<1>5. ASSUME Activate(p)
      PROVE  Stands(p)'
  <2>1. /\ pc[p] = "activate" /\ current' = job[p].release
        /\ UNCHANGED <<dirs, validated, job>>
        /\ pc'[p] \in {"switch", "health"}
    BY <1>1, <1>5 DEF Activate, Goto
  <2> QED
    BY <2>1 DEF Stands, Standing, CurrentNeverDangles
<1>6. ASSUME StartFails(p) \/ ReadySucceeds(p) \/ ReadyFails(p) \/ SwitchSucceeds(p)
             \/ SwitchFails(p)
      PROVE  Stands(p)'
  <2>1. PICK label :
           /\ Goto(p, label) /\ UNCHANGED <<dirs, current, validated, job>>
           /\ \/ pc[p] = "start" /\ label = "abort_remove"
              \/ pc[p] = "ready" /\ label \in {"activate", "abort_upstream"}
              \/ pc[p] = "switch" /\ label \in {"health", "abort_restore"}
    BY <1>6 DEF StartFails, ReadySucceeds, ReadyFails, SwitchSucceeds, SwitchFails
  <2> QED
    BY <2>1, QuietStep
<1> QED
  BY <1>2, <1>3, <1>4, <1>5, <1>6 DEF PrepareStep

LEMMA ValidateStands ==
    ASSUME TypeInv, NEW p \in Procs, Stands(p), ValidateStep(p)
    PROVE  Stands(p)'
<1> USE DEF host, ghost, Reversible, OnPrevious, OnRelease, OnDisk, DeployPhases,
        RollbackPhases, PreparePhases, TrialPhases, SettlePhases, AbortPhases,
        RejectPhases
<1>1. pc \in [Procs -> Labels] /\ job \in [Procs -> Jobs] /\ TypeOK
  BY DEF TypeInv, TypeOK
<1>2. ASSUME \/ HealthPasses(p) \/ HealthFails(p) \/ PostDeployBegins(p)
             \/ PostDeploySucceeds(p) \/ PostDeployFails(p)
      PROVE  Stands(p)'
  <2>1. PICK label :
           /\ Goto(p, label) /\ UNCHANGED <<dirs, current, validated>>
           /\ \/ pc[p] = "health" /\ label \in {"post_deploy", "reject_restore"}
              \/ pc[p] = "post_deploy" /\ label \in {"post_command", "reject_restore"}
              \/ pc[p] = "post_command"
                 /\ label \in {"post_deploy", "complete", "reject_restore"}
    BY <1>2 DEF HealthPasses, HealthFails, PostDeployBegins, PostDeploySucceeds,
                PostDeployFails
  <2>2. /\ job'[p].id = job[p].id /\ job'[p].release = job[p].release
        /\ job'[p].prev = job[p].prev /\ job'[p].restored = job[p].restored
    BY <1>1, <1>2 DEF HealthPasses, HealthFails, PostDeployBegins, PostDeploySucceeds,
                PostDeployFails, Jobs
  <2> QED
    BY <2>1, <2>2, QuietStep
<1>3. ASSUME Complete(p)
      PROVE  Stands(p)'
  <2>1. /\ pc[p] = "complete" /\ pc'[p] = "mark_healthy"
        /\ UNCHANGED <<dirs, current, job>>
    BY <1>1, <1>3 DEF Complete, Goto
  <2> QED
    BY <2>1 DEF Stands, Standing, CurrentNeverDangles
<1>4. ASSUME MarkHealthy(p) \/ Drain(p)
      PROVE  Stands(p)'
  <2>1. PICK label \in {"drain", "prune"} :
           /\ Goto(p, label) /\ UNCHANGED <<dirs, current, validated, job>>
    BY <1>4 DEF MarkHealthy, Drain
  <2> QED
    BY <2>1, QuietStep
<1>5. ASSUME Prune(p)
      PROVE  Stands(p)'
  <2>1. Goto(p, "idle") /\ UNCHANGED <<current, validated>>
        /\ dirs' = dirs \ ({db[d].release : d \in Completed \ Retained} \ {current})
    BY <1>5 DEF Prune, Return
  <2>2. CurrentNeverDangles'
    BY <2>1 DEF Stands, CurrentNeverDangles
  <2> QED
    BY <2>1, <2>2, IdleStands
<1> QED
  BY <1>2, <1>3, <1>4, <1>5 DEF ValidateStep

LEMMA AbortStands ==
    ASSUME TypeInv, NEW p \in Procs, Stands(p), AbortStep(p)
    PROVE  Stands(p)'
<1> USE DEF host, ghost, Reversible, OnPrevious, OnRelease, OnDisk, DeployPhases,
        RollbackPhases, PreparePhases, TrialPhases, SettlePhases, AbortPhases,
        RejectPhases
<1>1. pc \in [Procs -> Labels] /\ job \in [Procs -> Jobs] /\ TypeOK
  BY DEF TypeInv, TypeOK
<1>2. ASSUME AbortRestore(p)
      PROVE  Stands(p)'
  <2>1. /\ pc[p] = "abort_restore" /\ pc'[p] = "abort_upstream"
        /\ UNCHANGED <<dirs, validated>>
        /\ IF job[p].prev \in dirs THEN current' = job[p].prev ELSE UNCHANGED current
    BY <1>1, <1>2 DEF AbortRestore, Goto
  <2>2. /\ job'[p].id = job[p].id /\ job'[p].release = job[p].release
        /\ job'[p].prev = job[p].prev
    BY <1>1, <1>2 DEF AbortRestore, Jobs
  <2> QED
    BY <2>1, <2>2 DEF Stands, Standing, CurrentNeverDangles
<1>3. ASSUME AbortUpstream(p) \/ AbortStop(p) \/ AbortRecord(p)
      PROVE  Stands(p)'
  <2>1. PICK label \in {"abort_stop", "abort_remove", "abort_health"} :
           /\ Goto(p, label) /\ UNCHANGED <<dirs, current, validated>>
           /\ pc[p] \in {"abort_upstream", "abort_stop", "abort_record"}
    BY <1>3 DEF AbortUpstream, AbortStop, AbortRecord
  <2>2. /\ job'[p].id = job[p].id /\ job'[p].release = job[p].release
        /\ job'[p].prev = job[p].prev /\ job'[p].restored = job[p].restored
    BY <1>1, <1>3 DEF AbortUpstream, AbortStop, AbortRecord, Jobs
  <2> QED
    BY <2>1, <2>2, QuietStep
<1>4. ASSUME AbortRemove(p)
      PROVE  Stands(p)'
  <2>1. /\ pc[p] = "abort_remove" /\ pc'[p] = "abort_record"
        /\ dirs' = dirs \ {job[p].release} /\ UNCHANGED <<current, validated, job>>
    BY <1>1, <1>4 DEF AbortRemove, Goto
  <2> QED
    BY <2>1 DEF Stands, Standing, CurrentNeverDangles
<1>5. ASSUME AbortHealth(p)
      PROVE  Stands(p)'
  <2>1. Goto(p, "idle") /\ UNCHANGED <<dirs, current, validated>>
    BY <1>5 DEF AbortHealth, Return
  <2> QED
    BY <2>1, IdleStands DEF Stands, CurrentNeverDangles
<1> QED
  BY <1>2, <1>3, <1>4, <1>5 DEF AbortStep

LEMMA RejectStands ==
    ASSUME TypeInv, NEW p \in Procs, Stands(p), RejectStep(p)
    PROVE  Stands(p)'
<1> USE DEF host, ghost, Reversible, OnPrevious, OnRelease, OnDisk, DeployPhases,
        RollbackPhases, PreparePhases, TrialPhases, SettlePhases, AbortPhases,
        RejectPhases
<1>1. pc \in [Procs -> Labels] /\ job \in [Procs -> Jobs] /\ TypeOK
  BY DEF TypeInv, TypeOK
<1>2. ASSUME RejectRestore(p)
      PROVE  Stands(p)'
  <2>1. /\ pc[p] = "reject_restore" /\ pc'[p] \in {"reject_upstream", "reject_record"}
        /\ UNCHANGED <<dirs, validated>>
        /\ job[p].prev \in dirs => current' = job[p].prev
    BY <1>1, <1>2 DEF RejectRestore, Goto
  <2>2. /\ job'[p].id = job[p].id /\ job'[p].release = job[p].release
        /\ job'[p].prev = job[p].prev
        /\ job[p].prev \in dirs => job'[p].restored
    BY <1>1, <1>2 DEF RejectRestore, Jobs
  <2> QED
    BY <2>1, <2>2 DEF Stands, Standing, CurrentNeverDangles
<1>3. ASSUME RejectUpstream(p) \/ RejectStop(p) \/ RejectRecord(p) \/ RejectHealth(p)
      PROVE  Stands(p)'
  <2>1. PICK label \in RejectPhases \ {"reject_restore"} :
           /\ Goto(p, label) /\ UNCHANGED <<dirs, current, validated, job>>
           /\ pc[p] \in RejectPhases \ {"reject_restore"}
    BY <1>3 DEF RejectUpstream, RejectStop, RejectRecord, RejectHealth
  <2> QED
    BY <2>1, QuietStep
<1>4. ASSUME RejectUpstreamFails(p) \/ RejectStopFails(p)
      PROVE  Stands(p)'
  <2>1. Goto(p, "idle") /\ UNCHANGED <<dirs, current, validated>>
    BY <1>4 DEF RejectUpstreamFails, RejectStopFails, Return
  <2> QED
    BY <2>1, IdleStands DEF Stands, CurrentNeverDangles
<1>5. ASSUME RejectCleanup(p)
      PROVE  Stands(p)'
  <2>1. /\ pc[p] = "reject_cleanup" /\ Goto(p, "idle")
        /\ dirs' = dirs \ {job[p].release} /\ UNCHANGED validated
        /\ job[p].restored => current' = current
    BY <1>5 DEF RejectCleanup, Return
  <2>2. CurrentNeverDangles'
    BY <2>1 DEF Stands, Standing, CurrentNeverDangles
  <2> QED
    BY <2>1, <2>2, IdleStands
<1> QED
  BY <1>2, <1>3, <1>4, <1>5 DEF RejectStep

LEMMA RollbackStands ==
    ASSUME TypeInv, NEW p \in Procs, Stands(p), RollbackStep(p)
    PROVE  Stands(p)'
<1> USE DEF host, ghost, Reversible, OnPrevious, OnRelease, OnDisk, DeployPhases,
        RollbackPhases, PreparePhases, TrialPhases, SettlePhases, AbortPhases,
        RejectPhases
<1>1. pc \in [Procs -> Labels] /\ job \in [Procs -> Jobs] /\ TypeOK
  BY DEF TypeInv, TypeOK
<1>2. ASSUME RbStart(p) \/ RbReady(p) \/ RbSwitch(p) \/ RbHealth(p) \/ RbReroute(p)
             \/ RbDrain(p) \/ RbRecord(p)
      PROVE  Stands(p)'
  <2>1. PICK label \in RollbackPhases :
           /\ Goto(p, label) /\ UNCHANGED <<dirs, current, validated, job>>
           /\ pc[p] \in RollbackPhases
    BY <1>2 DEF RbStart, RbReady, RbSwitch, RbHealth, RbReroute, RbDrain, RbRecord
  <2> QED
    BY <2>1, QuietStep
<1>3. ASSUME RbActivate(p)
      PROVE  Stands(p)'
  <2>1. /\ pc[p] = "rb_activate" /\ pc'[p] \in {"rb_switch", "rb_record"}
        /\ current' = job[p].release /\ UNCHANGED <<dirs, validated, job>>
    BY <1>1, <1>3 DEF RbActivate, Goto
  <2> QED
    BY <2>1 DEF Stands, Standing, CurrentNeverDangles
<1>4. ASSUME RbReactivate(p)
      PROVE  Stands(p)'
  <2>1. /\ pc[p] \in {"rb_undo_switch", "rb_undo_health"}
        /\ pc'[p] \in {"rb_reroute", "rb_abandon"}
        /\ current' \in {job[p].prev, current} /\ UNCHANGED <<dirs, validated, job>>
    BY <1>1, <1>4 DEF RbReactivate, Goto
  <2> QED
    BY <2>1 DEF Stands, Standing, CurrentNeverDangles
<1>5. ASSUME RbStartFails(p) \/ RbAbandon(p) \/ RbDrainFails(p) \/ RbHealthy(p)
      PROVE  Stands(p)'
  <2>1. Goto(p, "idle") /\ UNCHANGED <<dirs, current, validated>>
    BY <1>5 DEF RbStartFails, RbAbandon, RbDrainFails, RbHealthy, Return
  <2> QED
    BY <2>1, IdleStands DEF Stands, CurrentNeverDangles
<1> QED
  BY <1>2, <1>3, <1>4, <1>5 DEF RollbackStep

LEMMA RequestStands ==
    ASSUME TypeInv, Recording, NEW p \in Procs, Stands(p), Request(p)
    PROVE  Stands(p)'
<1> USE DEF host, ghost, Reversible, OnPrevious, OnRelease, OnDisk, DeployPhases,
        RollbackPhases, PreparePhases, TrialPhases, SettlePhases, AbortPhases,
        RejectPhases
<1>1. pc \in [Procs -> Labels] /\ job \in [Procs -> Jobs] /\ TypeOK
  BY DEF TypeInv, TypeOK
<1>2. ASSUME Begin(p)
      PROVE  Stands(p)'
  <2> DEFINE j == [NoJob EXCEPT !.id = NextId, !.release = NextId,
                                !.prev = current, !.prevPort = NodePort(current),
                                !.commands = PostCommands]
  <2>1. /\ Goto(p, "source") /\ job' = [job EXCEPT ![p] = j]
        /\ UNCHANGED <<dirs, current, validated>>
    BY <1>2 DEF Begin
  <2>2. j.id = NextId /\ j.release = NextId /\ j.prev = current
    BY DEF NoJob
  <2> HIDE DEF j
  <2>3. pc'[p] = "source" /\ job'[p] = j
    BY <1>1, <2>1 DEF Goto
  <2>4. NextId \notin dirs
    <3>1. PICK n \in 0 .. MaxDeployments : Recorded = 1 .. n
      BY DEF Recording
    <3>2. NextId = n + 1
      BY <3>1, NextIdFresh
    <3> QED
      BY <3>1, <3>2 DEF Recording
  <2> QED
    BY <2>1, <2>2, <2>3, <2>4 DEF Stands, Standing, CurrentNeverDangles
<1>3. ASSUME RbBegin(p)
      PROVE  Stands(p)'
  <2> DEFINE t == db[Max(RollbackTargets)]
             j == [NoJob EXCEPT !.id = NextId, !.release = t.release,
                                !.port = t.port, !.commit = t.commit,
                                !.prev = current, !.prevPort = NodePort(current)]
  <2>1. /\ job' = [job EXCEPT ![p] = j] /\ RollbackTargets # {}
        /\ UNCHANGED <<dirs, current, validated>>
        /\ \E label \in {"rb_start", "rb_activate"} : Goto(p, label)
    BY <1>3 DEF RbBegin
  <2>2. j.release = t.release /\ j.prev = current
    BY DEF NoJob
  <2>3. t.release \in dirs
    <3>1. RollbackTargets \subseteq Ids
      BY DEF RollbackTargets, Completed
    <3>2. Max(RollbackTargets) \in RollbackTargets
      BY <2>1, <3>1, MaxOfIds
    <3> QED
      BY <3>2 DEF RollbackTargets
  <2> HIDE DEF j, t
  <2>4. pc'[p] \in {"rb_start", "rb_activate"} /\ job'[p] = j
    BY <1>1, <2>1 DEF Goto
  <2> QED
    BY <2>1, <2>2, <2>3, <2>4 DEF Stands, Standing, CurrentNeverDangles
<1>4. ASSUME NEW d \in Ids, CancelLoad(p, d)
      PROVE  Stands(p)'
  <2>1. pc'[p] = "cancel_mark" /\ UNCHANGED <<dirs, current, validated>>
    BY <1>1, <1>4 DEF CancelLoad, Goto
  <2> QED
    BY <2>1 DEF Stands, Standing, CurrentNeverDangles
<1> QED
  BY <1>2, <1>3, <1>4 DEF Request, Deploy, Redeploy

LEMMA ReleaseInvNext ==
    ASSUME TypeInv, LockInv, ReleaseInv, [Next]_vars
    PROVE  ReleaseInv'
<1>1. CASE UNCHANGED vars
  <2>1. Recorded' = Recorded
    BY <1>1 DEF vars, record, Recorded
  <2> QED
    BY <1>1, <2>1 DEF vars, record, host, ghost, ReleaseInv, Recording,
                      CurrentNeverDangles, Standing
<1>2. ASSUME NEW p \in Procs, Request(p) \/ Step(p) \/ Crash(p)
      PROVE  ReleaseInv'
  <2>1. Recording'
    BY <1>2, RecordingNext DEF ReleaseInv
  <2>2. \A q \in Procs \ {p} : Standing(q)'
    BY <1>2, OthersKeepStanding DEF ReleaseInv
  <2>3. Stands(p)'
    <3>1. Recording /\ Stands(p)
      BY DEF ReleaseInv, Stands
    <3>2. CASE CancelStep(p)
      <4>1. /\ UNCHANGED <<dirs, current, validated>>
            /\ pc'[p] \in {"cancel_save", "idle"}
        BY <3>2 DEF CancelStep, CancelMark, CancelSave, Return, Goto, host, ghost,
                    TypeInv, TypeOK
      <4>2. {"cancel_save", "idle"} \cap (Reversible \cup RollbackPhases \cup OnPrevious
               \cup OnRelease \cup OnDisk \cup RejectPhases) = {}
        BY DEF Reversible, RollbackPhases, OnPrevious, OnRelease, OnDisk, RejectPhases,
               DeployPhases, PreparePhases, TrialPhases, SettlePhases, AbortPhases
      <4> QED
        BY <3>1, <4>1, <4>2 DEF Stands, Standing, CurrentNeverDangles
    <3>3. CASE Crash(p)
      <4>1. Goto(p, "idle") /\ UNCHANGED <<dirs, current, validated>>
        BY <3>3 DEF Crash, Return, host
      <4> QED
        BY <3>1, <4>1, IdleStands DEF Stands, CurrentNeverDangles
    <3> QED
      BY <1>2, <3>1, <3>2, <3>3, RequestStands, PrepareStands, ValidateStands,
         AbortStands, RejectStands, RollbackStands DEF Step
  <2> QED
    BY <2>1, <2>2, <2>3 DEF ReleaseInv, Stands
<1> QED
  BY <1>1, <1>2 DEF Next

\* From the first validated release on, `current' names a release directory
\* that exists, whatever deployments, rollbacks, cancellations, faults and
\* crashes there are, for any number of processes and any retention.
THEOREM CurrentAlwaysExists == Spec => []CurrentNeverDangles
<1>1. Init => TypeInv /\ LockInv /\ ReleaseInv
  <2>1. Init => LockInv
    BY DEF Init, LockInv, Critical, DeployPhases, PreparePhases, TrialPhases,
           SettlePhases, AbortPhases, RejectPhases, RollbackPhases
  <2>2. ASSUME Init PROVE ReleaseInv
    <3>1. Recorded = 1 .. 0 /\ 0 \in 0 .. MaxDeployments
      BY <2>2 DEF Init, Recorded, Absent
    <3>2. \A p \in Procs : pc[p] = "idle"
      BY <2>2 DEF Init
    <3>3. "idle" \notin Reversible \cup RollbackPhases \cup OnPrevious \cup OnRelease
                        \cup OnDisk \cup RejectPhases \cup DeployPhases \cup CancelPhases
      BY DEF Reversible, RollbackPhases, OnPrevious, OnRelease, OnDisk, RejectPhases,
             DeployPhases, PreparePhases, TrialPhases, SettlePhases, AbortPhases,
             CancelPhases
    <3>4. Recording
      BY <2>2, <3>1, <3>2, <3>3 DEF Recording, Init
    <3>5. \A p \in Procs : Standing(p)
      BY <3>2, <3>3 DEF Standing
    <3> QED
      BY <2>2, <3>4, <3>5 DEF ReleaseInv, CurrentNeverDangles, Init
  <2> QED
    BY <2>1, <2>2, TypeInvInit
<1>2. TypeInv /\ LockInv /\ ReleaseInv /\ [Next]_vars
         => TypeInv' /\ LockInv' /\ ReleaseInv'
  BY TypeInvNext, LockInvNext, ReleaseInvNext
<1>3. ReleaseInv => CurrentNeverDangles
  BY DEF ReleaseInv
<1> QED
  BY <1>1, <1>2, <1>3, PTL DEF Spec
=============================================================================
