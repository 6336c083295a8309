----------------------------- MODULE Integration -----------------------------
(***************************************************************************)
(* The Laravel-Redis integration of ApplicationIntelligenceService           *)
(* (intelligence.rs): it installs the service, snapshots and rewrites the    *)
(* active .env of the application, restarts its workers, checks both, and    *)
(* records the reference; a failure restores the snapshot.  Snapshots can be *)
(* rolled back later.  None of it is locked: other applies, roll-backs,      *)
(* deployments and hands on the file run in between.                         *)
(***************************************************************************)
EXTENDS Naturals, FiniteSets

CONSTANTS
    Procs, Workers,
    Releases,       \* releases of the application, each with its own .env
    MaxEdits, MaxKilled, MaxFaults

IntegrationAssumption == MaxEdits \in Nat /\ MaxKilled \in Nat /\ MaxFaults \in Nat

VARIABLES
    env,        \* the .env of each release
    current,    \* the release that is deployed
    runs,       \* the configuration each worker was started with
    installed,  \* the Redis service
    attached,   \* the application refers to it as its cache
    snapshots,  \* intelligence/snapshots
    edits, pc, job, killed, faults,
    disturbed   \* history: the calls during which something else changed the application

\* job[p].half: history, the file, the reference and the workers whose own step took
\* effect and reported a failure, or whose restoration failed.

vars == <<env, current, runs, installed, attached, snapshots, edits, pc, job, killed,
          faults, disturbed>>

Configurations == [edit : 0..MaxEdits, redis : BOOLEAN]
Down == [edit |-> 0, redis |-> FALSE, down |-> TRUE]

NoJob == [op |-> "none"]

Init ==
    /\ env = [r \in Releases |-> [edit |-> 0, redis |-> FALSE]]
    /\ current \in Releases
    /\ runs = [w \in Workers |-> env[current]]
    /\ installed \in BOOLEAN /\ attached = FALSE
    /\ snapshots = {} /\ edits = 0
    /\ pc = [p \in Procs |-> "idle"] /\ job = [p \in Procs |-> NoJob]
    /\ killed = 0 /\ faults = 0 /\ disturbed = {}

Goto(p, label) == pc' = [pc EXCEPT ![p] = label]
Fault == faults < MaxFaults /\ faults' = faults + 1

\* What is beside the call of p sees the application change.
Disturb(p) == disturbed' = disturbed \cup {q \in Procs \ {p} : pc[q] # "idle"}

Application == <<env, current, runs, attached>>
Rest == <<edits, killed>>

-----------------------------------------------------------------------------
\* The plan finds the active file; one application may have several in flight.
Apply(p) ==
    /\ pc[p] = "idle" /\ Goto(p, "install")
    /\ job' = [job EXCEPT ![p] =
                  [op |-> "apply", path |-> current, original |-> env[current],
                   was |-> runs, had |-> attached, todo |-> Workers, restarted |-> {},
                   half |-> {}]]
    /\ disturbed' = IF \A q \in Procs \ {p} : pc[q] = "idle" THEN {}
                    ELSE disturbed \cup Procs
    /\ UNCHANGED <<Application, installed, snapshots, faults, Rest>>

Install(p) ==
    /\ pc[p] = "install" /\ Goto(p, "read") /\ installed' = TRUE
    /\ UNCHANGED <<Application, snapshots, job, faults, disturbed, Rest>>

\* The content is read again, and kept with its path and digest.
ReadAndSnapshot(p) ==
    /\ pc[p] = "read" /\ Goto(p, "write")
    /\ job' = [job EXCEPT ![p].original = env[job[p].path]]
    /\ snapshots' = snapshots \cup {[path |-> job[p].path, content |-> env[job[p].path]]}
    /\ UNCHANGED <<Application, installed, faults, disturbed, Rest>>

Refused(p) ==
    /\ pc[p] \in {"install", "read", "write"} /\ Fault
    /\ Goto(p, "idle") /\ job' = [job EXCEPT ![p] = NoJob]
    /\ UNCHANGED <<Application, installed, snapshots, disturbed, Rest>>

Written(p) == env' = [env EXCEPT ![job[p].path] = [job[p].original EXCEPT !.redis = TRUE]]

WriteConfiguration(p) ==
    /\ pc[p] = "write" /\ Goto(p, "restart")
    /\ Written(p)
    /\ Disturb(p)
    /\ UNCHANGED <<current, runs, attached, installed, snapshots, job, faults, Rest>>

\* write_atomic fails behind the rename, and nothing is restored.
WriteFails(p) ==
    /\ pc[p] = "write" /\ Fault /\ Goto(p, "again")
    /\ Written(p)
    /\ Disturb(p)
    /\ job' = [job EXCEPT ![p].half = {"file"}]
    /\ UNCHANGED <<current, runs, attached, installed, snapshots, Rest>>

Started(w) == [runs EXCEPT ![w] = env[current]]

RestartWorker(p, w) ==
    /\ pc[p] = "restart" /\ w \in job[p].todo
    /\ runs' = Started(w)
    /\ job' = [job EXCEPT ![p].todo = @ \ {w}, ![p].restarted = @ \cup {w}]
    /\ UNCHANGED <<env, current, attached, installed, snapshots, pc, faults, disturbed, Rest>>

\* systemd reports a failure: it did not restart the worker, the worker does not come
\* up, or it did and what became of it is neither read nor recorded.  Whichever it
\* was, the worker is not among the restarted ones.
RestartFails(p, w) ==
    /\ pc[p] = "restart" /\ w \in job[p].todo /\ Fault
    /\ \/ runs' \in {runs, [runs EXCEPT ![w] = Down]} /\ UNCHANGED job
       \/ runs' = Started(w) /\ job' = [job EXCEPT ![p].half = @ \cup {w}]
    /\ Goto(p, "restore")
    /\ UNCHANGED <<env, current, attached, installed, snapshots, disturbed, Rest>>

\* Redis and the application are healthy: the reference is saved, then the call is
\* recorded.  A failure to record is returned, and all stands.
VerifyAndAttach(p) ==
    /\ pc[p] = "restart" /\ job[p].todo = {}
    /\ attached' = TRUE
    /\ Goto(p, "idle") /\ job' = [job EXCEPT ![p] = NoJob]
    /\ Disturb(p)
    /\ UNCHANGED <<env, current, runs, installed, snapshots, faults, Rest>>

\* Either check fails, or what attach_to_application does before the reference.
VerificationFails(p) ==
    /\ pc[p] = "restart" /\ job[p].todo = {} /\ Fault /\ Goto(p, "restore")
    /\ UNCHANGED <<Application, installed, snapshots, job, disturbed, Rest>>

\* The reference is saved, and its event or audit record fails: it stays.
AttachFails(p) ==
    /\ pc[p] = "restart" /\ job[p].todo = {} /\ Fault /\ Goto(p, "restore")
    /\ attached' = TRUE
    /\ job' = [job EXCEPT ![p].half = @ \cup {"reference"}]
    /\ Disturb(p)
    /\ UNCHANGED <<env, current, runs, installed, snapshots, Rest>>

\* restore_snapshot: the target must still be the active file of the application.
Restored(snapshot) ==
    IF snapshot.path = current THEN [env EXCEPT ![current] = snapshot.content] ELSE env

\* Its error is dropped, here that of a deployment that made another file active.
RestoreAfterFailure(p) ==
    /\ pc[p] = "restore" /\ Goto(p, "again")
    /\ env' = Restored([path |-> job[p].path, content |-> job[p].original])
    /\ Disturb(p)
    /\ UNCHANGED <<current, runs, attached, installed, snapshots, job, faults, Rest>>

\* And here that of the snapshot or of the file.
RestoreFails(p) ==
    /\ pc[p] = "restore" /\ Fault /\ Goto(p, "again")
    /\ job' = [job EXCEPT ![p].half = @ \cup {"file"}]
    /\ UNCHANGED <<Application, installed, snapshots, disturbed, Rest>>

\* Mutant: the workers are left as they are.
LeaveWorkers(p, w) ==
    /\ pc[p] = "again" /\ w \in job[p].restarted
    /\ job' = [job EXCEPT ![p].restarted = @ \ {w}]
    /\ UNCHANGED <<Application, installed, snapshots, pc, faults, disturbed, Rest>>

RestartAgain(p, w) ==
    /\ pc[p] = "again" /\ w \in job[p].restarted
    /\ runs' = Started(w)
    /\ job' = [job EXCEPT ![p].restarted = @ \ {w}]
    /\ UNCHANGED <<env, current, attached, installed, snapshots, pc, faults, disturbed, Rest>>

\* These errors are dropped, too.
RestartAgainFails(p, w) ==
    /\ pc[p] = "again" /\ w \in job[p].restarted /\ Fault
    /\ \/ /\ UNCHANGED runs
          /\ job' = [job EXCEPT ![p].restarted = @ \ {w}, ![p].half = @ \cup {w}]
       \/ /\ runs' = [runs EXCEPT ![w] = Down]
          /\ job' = [job EXCEPT ![p].restarted = @ \ {w}]
    /\ UNCHANGED <<env, current, attached, installed, snapshots, pc, disturbed, Rest>>

Fail(p) ==
    /\ pc[p] = "again" /\ job[p].restarted = {}
    /\ Goto(p, "idle") /\ job' = [job EXCEPT ![p] = NoJob]
    /\ UNCHANGED <<Application, installed, snapshots, faults, disturbed, Rest>>

-----------------------------------------------------------------------------
\* lumic intelligence rollback: the file only, no worker is restarted.
RollBack(p, snapshot) ==
    /\ pc[p] = "idle" /\ snapshot \in snapshots /\ snapshot.path = current
    /\ env' = Restored(snapshot)
    /\ Disturb(p)
    /\ UNCHANGED <<current, runs, attached, installed, snapshots, pc, job, faults, Rest>>

\* An administrator edits the active file; a deployment starts its workers in
\* another release.
Edit ==
    /\ edits < MaxEdits /\ edits' = edits + 1
    /\ env' = [env EXCEPT ![current].edit = edits + 1]
    /\ disturbed' = disturbed \cup {q \in Procs : pc[q] # "idle"}
    /\ UNCHANGED <<current, runs, attached, installed, snapshots, pc, job, killed, faults>>

Deploy(r) ==
    /\ edits < MaxEdits /\ edits' = edits + 1
    /\ r # current /\ current' = r /\ runs' = [w \in Workers |-> env[r]]
    /\ disturbed' = disturbed \cup {q \in Procs : pc[q] # "idle"}
    /\ UNCHANGED <<env, attached, installed, snapshots, pc, job, killed, faults>>

Kill(p) ==
    /\ pc[p] # "idle" /\ killed < MaxKilled /\ killed' = killed + 1
    /\ Goto(p, "idle") /\ job' = [job EXCEPT ![p] = NoJob]
    /\ UNCHANGED <<Application, installed, snapshots, edits, faults, disturbed>>

Next ==
    \/ \E p \in Procs :
         \/ Apply(p) \/ Install(p) \/ ReadAndSnapshot(p) \/ Refused(p)
         \/ WriteConfiguration(p) \/ WriteFails(p)
         \/ \E w \in Workers : RestartWorker(p, w) \/ RestartFails(p, w)
         \/ VerifyAndAttach(p) \/ VerificationFails(p) \/ AttachFails(p)
         \/ RestoreAfterFailure(p) \/ RestoreFails(p)
         \/ \E w \in Workers : RestartAgain(p, w) \/ RestartAgainFails(p, w)
         \/ Fail(p)
         \/ \E s \in snapshots : RollBack(p, s)
         \/ Kill(p)
    \/ Edit \/ \E r \in Releases : Deploy(r)

Spec == Init /\ [][Next]_vars

-----------------------------------------------------------------------------
\* An integration that fails before its end undoes every part of it that did not
\* itself fail half done, whichever others did: the file is as it was found, the
\* references of the application too, and each worker runs what it ran before or what
\* the file says now, or did not come up.  Something else may have changed the
\* application meanwhile; of such a call nothing is said.
FailedIntegrationIsUndone ==
    \A p \in Procs \ disturbed :
        pc[p] = "again" /\ job[p].restarted = {} =>
            /\ "file" \notin job[p].half => env[job[p].path] = job[p].original
            /\ "reference" \notin job[p].half => attached = job[p].had
            /\ \A w \in Workers \ job[p].half :
                 runs[w] \in {job[p].was[w], env[job[p].path], Down}
=============================================================================
