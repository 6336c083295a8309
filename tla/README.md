# Lumic: models, checks and proofs

Lumic (`../src`, Rust) administers one Linux server: it deploys applications
from Git, runs them under systemd behind nginx, keeps their databases, secrets
and certificates, records events, and answers to a CLI, a daemon, a web UI and
an MCP server. This directory holds TLA+ models of its core logic, the TLC runs
that check them and TLAPS proofs of what matters most.

## 1. Inventory

Crates: `lumic-core` (domain types and validation), `lumic-platform` (the
services: files, child processes, locks), and the front ends `lumic-cli`,
`lumic-daemon`, `lumic-mcp`, `lumic-ui`. All state is in files under the state
directory, shared by every process on the host; `flock` locks
(`resource_lock.rs`) are the only coordination, and most of them are try-locks.

| component | state | operations | what is hard | what makes it correct |
| --- | --- | --- | --- | --- |
| deployment (`application.rs` 921-2604) | deployment records, `current`, release directories, Node units, nginx upstream, cancellation markers | deploy, redeploy, cancel, rollback | several processes; crash between two steps; nginx and systemctl failing half way; cancel racing phases | one at a time; only validated releases stay live; no downtime; cancellations honoured; every record settled |
| application store (`application.rs` 60-110, 239-715, 2387-2494) | `applications.json` | create, configure, set repository/health, delete, upsert deployment | load and save without, or with, the state lock | no update is lost |
| operations (`operations.rs`) | `state.json`, its snapshot, `timeline.jsonl` | capture events and snapshots, record a signal, deliver, apply a rule, change and roll back the configuration | two runners, retries, a crash between POST and record, events out of order, a bounded history | deliveries accountable and settled, events once, restarts limited |
| web hosts, certificates (`web.rs`, `certificate.rs`) | nginx site and symlink, nginx unit, Certbot certificate, records in `resources.json` | configure, remove, issue, renew, detach | every step may fail after the earlier ones took effect | a failed change is undone; file, certificate and record agree |
| managed services (`managed_service.rs`, `service_driver.rs`, `framework_state.rs`) | packages, units, configuration, data, secrets, `resources.json` | install, configure, start/stop, update, remove, databases, users, grants, backup, restore, attach | undo on failure; a view that holds five of seventeen definitions; two saves to attach | what is recorded is so; a cache is never half restored |
| recipes (`recipe.rs`, `wordpress.rs`) | `recipes.json` with the journal of a WordPress installation | install, update, retry, uninstall | commands that die between steps, two commands, a newer catalogue | the record promises no more than the host holds and forgets nothing |
| hosted repositories (`repository.rs`) | `repositories.json`, bare directories, a lock per repository, a registry lock | create, import, register, adopt, delete, remotes, deployment settings | record read before the lock; undo of directories | no update lost; registered means stored |
| infrastructure (`infrastructure.rs`) | `infrastructure.json`, key, hooks, mirrors | trust, endpoints, signed requests, coordinated deployments, push triggers, environments | replay, expiry, a bounded nonce cache, reports in any order, no lock at all | a request runs at most once; a failure stops a coordination; what is recorded exists |
| CLI, MCP, UI (`main.rs`, two `lib.rs`) | MCP policy and token; UI sessions, login throttle, reviewed plans | a table of commands, tools, pages and forms | gates repeated by hand in hundreds of handlers; login between two locks; two tabs | every change gated, with two named exceptions; throttle and session table hold |
| secret store (`secret_store.rs`) | one sealed file per reference, its backup, `secrets.key` | create, put, rotate, read, delete; the first use makes the key, the first read seals an old file | no lock; races for the key; a crash between two files | one key opens everything; values kept |
| atomic files, journals (`atomic_file.rs`, `jsonl_store.rs`) | file, temporary, backup; JSON lines | replace, restore; append, read the last n | a crash at any byte; temporaries shared within a process | whole contents only; the last records, in order |
| self update, artifact cache (`self_update.rs`, `artifact.rs`) | binary, recovery binary, downloads; cached artifacts | fetch, verify, swap, restore; ensure | a copy cut short; two updates; left-over downloads | a failed update leaves the binary it found; cached bytes never change |
| intelligence, attention (`intelligence.rs`, `attention.rs`) | snapshots of `.env`, the application's references; a queue derived from events | apply and roll back the Laravel-Redis integration; observe, resolve | workers restarted one by one, other changes in between | a failed integration is undone |

Components interact by calls in one process and, between processes, only
through files and locks. `PROJECT.json` lists every component with its status
and the hazards at their lines.

## 2. Plan and modules

| module | models | checked by |
| --- | --- | --- |
| `Deployment`, `ReleaseGate` (abstract) | the release lifecycle | `MCDeployment`, proofs in `DeploymentProofs`, `ReleaseGateProofs` |
| `ApplicationStore` | the writers of `applications.json`, load and save apart | `Store` (the situations of the run), `MCStore`, `MCApplicationStore`, proofs in `ApplicationStoreProofs` |
| `Operations` | timeline, webhooks, rules, snapshots | `MCOperations`, proofs in `OperationsProofs` |
| `Recipes` | recipes and the WordPress journal | `MCRecipes`, proofs in `RecipesProofs` |
| `WebHost` | nginx sites and certificates | `Host`, `MCWebHost`, proofs in `HostProofs` |
| `Services` | managed services and `resources.json` | `Host` |
| `Repositories` | hosted repositories | `Host`, proofs in `HostProofs` |
| `Interfaces` | CLI, MCP, UI | `Control` (with `Fleet`), `MCControl`, proofs in `ControlProofs` |
| `Fleet` | infrastructure of a node | `Control`, `MCControl`, proofs in `ControlProofs` |
| `SecretStore` | sealed secrets and the master key | `Node`, proofs in `NodeProofs` |
| `AtomicFile`, `Journal` | how files are replaced, appended to and read | `Node`, proofs in `NodeProofs` |
| `SelfUpdate`, `ArtifactCache` | the binary and the artifacts of a node | `Node`, proofs in `NodeProofs` |
| `Integration` | the Laravel-Redis integration | `Node`, proofs in `NodeProofs` |

`Host` (small instance `MCHost`), `Node` (`MCNode`) and `Control` (`MCControl`) put several
components into one specification. They share no state in the model, so a
behaviour is about one of them: `about` is chosen in the initial state and
guards every action (`OnlyWeb`, `OnlyGit`, ...), and what the others hold stays.
The compositions are the union of the parts, not their product. `Host`, `Node` and `Control`
are modules of their own, apart from the small instances, so that the theorems
are about the very definitions the runs check.

Left of the plan: pipeline records and the application manifest. What has no theorem is listed
in section 13.

## 3. Deployment

### State and actions

| TLA+ | code |
| --- | --- |
| `db` | `deployments` of `applications.json`, in the order pushed; identifier n is the n-th record |
| `health` | `Application::health_status` |
| `markers` | files in `deployment-cancellations/` |
| `lock` | the application's `ResourceLock` (try-lock, freed on drop or death) |
| `dirs`, `current` | `releases/*`, the `current` symlink |
| `units`, `bound` | running release units, and which process got each loopback port |
| `upstream` | the port in the owned nginx site |
| `pc`, `job` | the statement a process reached, the `Deployment` record and locals in its memory |
| `validated`, `cancelPoint`, `crashes`, `clashed` | history variables of the properties only; `clashed` says that a rollback was to a release on the port of the live one |

`deploy_revision` is one sequence of actions: `Begin`; the phases of
`prepare_release` (`PhaseSucceeds`/`PhaseFails` for source, checkout,
pre-deploy, build, migrate; `Start*`, `Ready*`, `Activate`, `Switch*`); the
validation (`Health*`, `PostDeploy*`, `Complete`, `MarkHealthy`, `Drain`,
`Prune`); and two ways back: `Abort*` when `prepare_release` failed, `Reject*`
when validation did. `rollback` is `Rb*`; `cancel_deployment` takes no
deployment lock and is `CancelLoad`, `CancelMark`, `CancelSave`. `Crash` stops a
process anywhere. `port` 1 and 2 are the primary and secondary port.

### Abstractions

- A read-modify-write of `applications.json` is one step (the races between
  its writers are the subject of `ApplicationStore`). A failing read or write of
  a state file is not a fault of its own; where it makes the call return early
  it is a `Crash`.
- The application's configuration does not change while operations run, and
  the application is not deleted.
- A command, probe or Git call fails or succeeds freely. nginx and systemctl fail
  where `NginxFaults` and `UnitFaults` say so; a failing `systemctl start` may
  have started the unit (the code inspects the unit afterwards, and that may
  fail). A unit whose port is taken is restarted by systemd until the port is
  free (`Restart=on-failure`).
- The running phase's intermediate `Started` writes are one with the write that
  ends the phase.
- Log files, events, audit records, worker units and the environment file are
  left out.

### Runs

`CHECK_DEADLOCK FALSE` everywhere: `MaxDeployments` is
used up, or nobody asks for anything, and the system rightly stops.

| run | setting | shows |
| --- | --- | --- |
| `deploy_handoff` | 2 processes, blue/green, 5 records, retention 2, 2 post-deploy commands, fair | `TypeOK`, `KnownGoodServed`, `HealthNotOverstated`, `TrafficIsServed`, `ReadinessIsTheCandidates`, `RetentionKept`, `GateImplemented` (refinement of `ReleaseGate`), `EveryDeploymentSettles` |
| `deploy_faults` | 2 processes, blue/green, nginx and systemctl faults, a crash, 3 records, cancellations among the first two (`CancelsEarly`) | `MutualExclusion`, `CurrentNeverDangles`, `CancelHonoured` |
| `cancel_overwrites` | two records | `CompletedIsFinal` violated: the cancellation stores a record it read earlier; Completed becomes Cancelling for ever |
| `rollback_same_port` | one process, 5 records, no fault | `NoDowntime` violated: the target of a rollback is started on the port the live release holds |

`RetentionKept` is `RollbackAvailable` and `ReleasesBounded`; `TrafficIsServed` is
`TrafficReachesCurrent` between operations and `NoDowntime` at every step,
`~ clashed` given.

Bounds. Two processes are the least for which lock and cancellation race, and
the lock keeps a third one idle. Three records are a validated release, its
successor and a rollback or a third deployment; four are needed for a rollback
after a pruning with two releases retained; with five, two releases can end up
on one port and be rolled back to each other. Two post-deploy commands give one
boundary between commands and one after the last. One crash reaches every
statement; what follows it is arbitrary. That a release without handoff, and
cancellations in the middle of a fault-free lifecycle, change nothing for
`KnownGoodServed`, `HealthNotOverstated` and `GateImplemented` is left to the theorems.

Fairness. `WF_vars(Step(p))`: once an operation began, its process goes on. The
code justifies it: commands have a timeout of 1800 s, probes a deadline, the
deployment lock is never waited for. Requests, crashes and faults are not fair,
and `deploy_handoff` has neither crashes nor faults (with them a record may
stay Started: `?` on nginx or systemctl while a rejected release is taken back,
`application.rs:1251`, returns before the record is stored).

Why `deploy_handoff` has no faults: with systemctl faults a process left on the
port answers the probe of the next release (`ReadinessIsTheCandidates` fails),
and after a crash between activation and the nginx switch, rollback takes the
live release for its target and may stop it (`NoDowntime` fails). A cancellation
that arrives during the last post-deploy command is not noticed any more, so
`CancelHonoured` speaks of those that came before. It overwrites the record of
the release that just went live, port included, so the next deployment does not
know which port to avoid: the traffic properties are about `~ Cancels`.

### Proofs

All of them hold for any number of processes, records, retained releases,
post-deploy commands and crashes, from `ProcsAssumption` (`NoProc` is no
process), `BoundsAssumption` (bounds are naturals) and `SwitchesAssumption`
(switches are Booleans), and from what the table adds. The hypotheses on the
switches are those the text above explains: where the code returns early on a
failing nginx or systemctl call it leaves a release on trial behind.

| theorem | property | also assumed |
| --- | --- | --- |
| `DeploymentProofs!TypeCorrect` | `TypeOK` | |
| `DeploymentProofs!DeploymentsExclusive` | `MutualExclusion` | |
| `DeploymentProofs!CurrentAlwaysExists` | `CurrentNeverDangles` | |
| `ReleaseGateProofs!LiveWasValidated` | `current` is validated once something was | |
| `ReleaseGateProofs!OnlyKnownGoodServed` | `KnownGoodServed` | no nginx or systemctl faults |
| `ReleaseGateProofs!HealthIsHonest` | `HealthNotOverstated` | the same |
| `ReleaseGateProofs!CancellationsHonoured` | `CancelHonoured` | |
| `ReleaseGateProofs!LifecycleImplementsGate` | `GateImplemented` | no faults, no crashes |
| `ReleaseGateProofs!ReleasesAreRetained` | `RetentionKept` | no faults, no cancellations |
| `ReleaseGateProofs!UsersAreServed` | `TrafficIsServed` | handoff; no faults, crashes, cancellations |
| `ReleaseGateProofs!ProbesReachTheCandidate` | `ReadinessIsTheCandidates` | the same |

The inductive invariants:

- Types. `TypeOK` alone is not inductive: a step
  writes `db[job[p].id]` and activates `job[p].release`, so `ActiveJobs` says a
  busy process has an identifier in range. The steps after the preparation share
  a shape (`SettlingStep`), shown once to keep types.
- `LockInv` (a process in a critical phase owns the lock), with the four things
  a step may do to the lock (`LockStep`), is what makes every other invariant
  one about a single process: all others stand still (`CriticalWrites`).
- `ReleaseInv`, for `CurrentNeverDangles`.
  Going back is safe only because the previous release was on disk when the
  operation began, is not the one the operation deletes (identifiers are fresh,
  `Recording`), and nobody else touches directories or the symlink meanwhile
  (`OthersKeepStanding`); `Standing` says per phase where `current`
  is. One lemma per group of steps (`PrepareStands` ... `RollbackStands`).
- `KnownInv` and `VouchInv`, for what is live: per phase, whether `current` is the release
  on trial or the one from before, and that a record only becomes Completed for
  a release that passed its gates. They hold under faults. Before the first
  validated release there is nothing to go back to, and what an early return
  leaves live was never validated: `FirstInv`, with its hypotheses, covers that.
- `CancelInv` remembers, per phase, what the checks already made must have
  seen, so a marker set before them is not overlooked later.
- The refinement is shown step by step: the steps of each phase are a step of
  `ReleaseGate` or leave its variables unchanged, given `KnownInv` and `FirstInv`. The refinement
  mapping takes the lock's owner and the phase of the owner only, so `LockInv`
  is needed again.
- `RetentionKept` is about counting. `StockInv` says that the newest Completed
  records are on disk (it survives faults and crashes), `SpareInv` that nothing
  else is but the directory of the operation in progress, and `CountedInv` that
  what is Completed is what was validated. `NewestAreFew` and `TwoNewest` are the
  facts on finite sets of numbers behind it: at most `Retention` numbers have
  fewer than `Retention` greater ones, and of two numbers both are among the newest two.
- `HandoffInv`, for traffic: which units run and which process holds which port, in each of the
  phases before, during and after the switch (`BeforeHandoff`, `DuringHandoff`,
  `AfterHandoff`). Between operations the live release is the only unit (`Alone`),
  except that a rollback onto its port may have happened: from then on `clashed`
  excuses everything. The point of the proof is that `InactivePort` is free when a
  unit is started there, and that the drain stops the unit nginx no longer forwards to.

Only model-checked: `EveryDeploymentSettles` (liveness under fairness is out of
the prover's reach), and what the theorems exclude: nothing is claimed of traffic
under faults or cancellations.

## 4. The application store

### State and actions

`ApplicationStore` models the handlers of `application.rs` that write
`applications.json`, each as the sequence of its statements that touch shared
state (`Create`, `SetRepository`, ..., `Deploy`; `Handlers` maps a request to
its sequence). `todo[p]` is what process p has left to do, `job[p]` its request
and the state it loaded. A statement is an action; processes interleave between
statements and may die there.

| TLA+ | code |
| --- | --- |
| `file` | `applications` and `deployments` of `applications.json` |
| `secrets`, `OwnReference` | files of `SecretStore`; `application_environment_reference` |
| `roots` | the applications' directories |
| `lock` | `ResourceLock::acquire_application_state` (waited for, freed on drop or death) |
| `Ask` | a call by CLI, daemon, MCP or UI |
| `Inspect`, `InspectName` | reads that only decide whether to go on |
| `Load`, `Save` | `ApplicationStore::load` (with the lookup by id) and `save` of the changed state |
| `CheckUnique`, `Persist`, `Undo` | the check of `create`, its second write and what it does when that fails |
| `Trash`, `HostWork` | the rename of `delete`; packages, certificates and units, which may fail |
| `InspectDeployment` | the status check of `cancel_deployment`, the target of `rollback` |
| `SecretExists`, `PutSecret`, `RemoveSecret` | calls of `SecretStore` |
| `Lock`, `Record` | `upsert_deployment` |

Abstractions: an application is its identifier, its domain, the set of its parts
that were ever configured, and its environment references. A secret is there or
not. A deployment records itself twice, started and completed, and sets the
health at the end; its other steps are `Deployment`. `cancel` and `rollback`
record themselves once. A save is one step. Any
variable may get any secret name (`OwnedReferences` is a parameter), because the
code's name is not unique over applications. Events, audit records and framework
resources are left out, except that the resource written by `create` may fail.

### Runs

`CHECK_DEADLOCK FALSE`: the system stops when deployments are used up and nothing
else is asked.

| run | setting | shows |
| --- | --- | --- |
| `store` | part `records`: 2 processes create, deploy and cancel one application, a crash; part `single`: 1 process, two applications, a crash, imports, secrets, manifests, deployments, the second application only by the operations of `Coarse`; fair | `TypeOK`, `UpsertsExclusive`, `UniqueIdentity` (imports included in `single`), `RecordsResolveAlone`, `EveryRequestReturns` |
| `store_lost_update` | 2 processes | `UpdatesAreAtomic` violated: the second save overwrites the first |

`RecordsResolveAlone` is, in the part `single`, `OwnReferencesResolve`,
`DeploymentsHaveApplications` and `ApplicationsHaveDirectories`. An import brings
everything portable there (`AskedHere`). `Store` adds to `ApplicationStore` which of the
two parts a behaviour is about, chosen at its start. That lost updates of several processes never double
an identifier or a domain is the theorem `IdentityStaysUnique`.

Bounds. A lost update and a race for a name need two processes, and a third adds
no other order of two saves. Two applications and two domains are the least
that can collide. A deployment and its cancellation are two competing upserts
(two deployments of one application exclude each other before). One crash reaches
every statement. `RecordsResolve` is what the code
can only promise to a single process: with two writers a save may bring back a deleted
application or deployment record, so even `upsert_deployment` promises the order
of upserts (`UpsertsExclusive`) and not that its record survives.

Fairness. `WF_vars(Step(p))`: a handler that began goes on. The lock needs no
strong fairness in the run: its holder has two statements to go, and requests
are not repeated for ever in between because deployments are bounded.

### Proofs (`ApplicationStoreProofs`)

From `StoreConstants` and `RequestsAssumption`, for any number of processes,
applications, domains, variables, deployments and crashes:

- `TypeCorrect`: `Spec => []TypeOK`, itself inductive; `UpdateTyped` also says
  that only an import changes a domain and nothing changes an identifier.
- `IdentityStaysUnique`: `Spec => []UniqueIdentity` when nobody imports.
  `UniqueIdentity` alone is not inductive: an undone creation saves a state from
  memory. `IdentityInv` adds that every state in memory is unique, and
  (`CreateInv`) that a creation about to save found its name and domain free in
  the very state it saves. So a save may lose updates but never combines two
  states. With imports by two processes it is false: the import compares the domain
  with a state that it then does not save.
- `UpsertsOneAtATime`: `Spec => []UpsertsExclusive`. `LockInv` says that who is
  between load and record holds the lock; it is inductive because every handler
  is `Ordered` (a record comes right after a load, that load right after the
  lock), which `ConcatOrdered` carries to handlers put together from parts and
  `TailOrdered` to what is left of them.
- `OneProcessResolves`: `Spec => []RecordsResolve` when there is one process and no two
  variables have one secret name (`NamesApart`), for every request, failure and
  death; `RecordsResolveInStore`: `StoreSpec => []RecordsResolveAlone`, the same of
  the part `single`, where the other processes do nothing. Without `NamesApart`
  deleting one variable takes the secret of another. `RecordsResolve` is
  not inductive: a save writes what was loaded statements ago. `SoleInv` says
  that what is left of the handler fits together (`Fits`: which statements an
  operation has and which may follow which), and for its next statement
  (`Ready`) that the state in memory still is the file when it is about to be saved,
  that a reference about to be placed has its secret, that a secret about to be removed is
  referred to by nobody, and that a creation about to be undone goes back to
  a state whose references and deployments resolve. `Housed` allows one application
  without a directory, that of a deletion between `trash` and `save`. Which request is asked does
  not matter to the proof: every handler of `Handlers` is shown to be made of
  parts that fit (`HandlersFit`), and what is left of one that fits, fits (`TailFits`).
  TLC checked `SoleInv` with two applications, all requests and a crash before
  it was proved.

Only model-checked: `UpdatesAreAtomic`, which is violated, and the liveness property
`EveryRequestReturns`.

## 5. Operations

`Operations` models `OperationsService`: what is left of a process's call is a
sequence of steps (`todo`), because `?` drops the rest of it.

| TLA+ | code |
| --- | --- |
| `state`, `backup` | `state.json` and the `.lumic-backup` beside it (the recovery snapshot) |
| `timeline` | `timeline.jsonl` |
| `events`, `late`, `kernel` | `events.jsonl` in the order appended, an event stamped but not yet appended, kernel journal lines |
| `RunOnce`, `ObserveNow`, `RecordProviderSignal` | `run_once` (daemon, CLI, MCP), `observe_now`, `record_provider_signal` |
| `ListEvents` ... `EndCapture` | `capture_events`: the events are listed before the lock is taken |
| `ReserveSample`, `Gather`, `MarkKernel` | the host snapshot, one per window, and the kernel lines |
| `EnqueueSubscriptions`, `ApplyMatchingRules` | queueing for webhooks, the choice of rules |
| `ReserveAttempt`, `RestartService`, `ResetAttempts` | the restart rule with limit and cooldown |
| `DeliverDue`, `Deliver`, `RecordDeliveryResult` | the delivery cycle; the first one that cannot be tried ends it |
| `ApplyDestination`, `ApplySubscription`, `ApplyRule`, `RollbackConfiguration` | changes of the configuration and their rollback |
| `Crash` | a process dies between two steps; in `save_state` the snapshot may be the wrong one or torn |

Abstractions: an update of `state.json` under its lock is one step, except in
the capture. A delivery is due or not, a rule cools or not. Names, addresses,
signatures and incident reports are left out.

Run `operations` has nine scenarios (`AllScenarios` in `MCOperations`), each with
who runs, what is asked, how often, the configuration and the crashes: one
runner with a crash for deliveries, fan-out, observation and configuration; two
runners for capture and for the rule; one that changes the rule while restarts
are reserved; late events and missing secrets. Limits: 2 deliveries kept, 2
attempts, up to 4 stimuli.

- `DeliveriesAccountable`: `TypeOK`; whatever is queued is in the timeline
  (`DeliveriesExplained`), still has its payload unless it is of the oldest signal,
  of which the limit of the history cut another delivery (`PayloadsKept`), and is
  posted no more often than attempts and deaths explain
  with one runner (`PostsBounded`).
- `ActedOnOnce`: an event is recorded once (`EventsOnce`); a rule restarts its
  service at most its limit for each process and once more before a restart is
  verified (`RestartsBounded`), and once in a cooldown (`RestartsSpaced`),
  however many processes see the failure. The one more is a restart reserved
  before the count began again.
- `RollbackGoesBack`, `SettledIsFinal`.
- `OperationsProgress`: with a running daemon and nobody reconfiguring, every
  event appended in the order of its stamp is recorded (`EventsRecorded`) and
  every delivery settles or drops out of the history (`DeliveriesSettle`).

Fairness (`FairSpec`): a process that began goes on, the daemon wakes every 30 s,
retry delays pass, a stamped event is appended. Nothing else is fair.

### Proofs (`OperationsProofs`)

For every value of the constants (finite sets of processes, limits of at least
one attempt, which the code's validation demands):

| theorem | property |
| --- | --- |
| `ActsOnce` | `ActedOnOnce` |
| `RollbackIsRight` | `RollbackGoesBack` |
| `DeliveriesAreAccountable` | `DeliveriesAccountable` |
| `SettledStaysFinal` | `SettledIsFinal` |

What a process has left to do is data (`todo`), so the proofs first say what a
step does to it: the new steps come in front of the rest (`Follows`), and the step
is of one of nine kinds (`Kind`), each of which says which steps are new and what it
changes of the signals, the lock, the rule and the timeline. `StepTakes` proves it
of every action of a process; `Begins`, `Dies`, `Apart`, `Passes` and `Configures`
say the same of the others. `TypesHold` is the first use. Four inductive invariants
follow.

- `RollInv`: a configuration that was replaced was in a file (`state.exists`), so the
  change took the snapshot of it, and `save_state` puts back a snapshot it
  overwrites.
- `RestartInv`: a reserved restart keeps the rule cooling (`CoolsDown`), and the
  restarts tried, those under way, and what the count still allows fit a budget:
  the limit for each process that is not about to reset the count, and one
  (`Budget`). A verified restart starts the count of tries again while
  restarts of others may be under way; a reset moves the process back among those
  the limit is given to.
- `EventInv`: the signals still to be recorded are distinct, made, and not in the
  timeline (`PendingOnce`); a process that captures holds the lock until it ends
  the capture (`CapturesLocked`); and each event of which a signal was made is no
  newer than the newest captured one, or than that of the capture under way
  (`Captured`), which fails once a process dies between the timeline and
  `state.json`: hence `crashes = 0`.
- `DeliveryInv` is three. `QueueInv`, for any number of processes: a signal is on
  its way into the queue at most once (`Once(Queuing)`), and while it is on its way
  nothing of it is in the queue or was posted (`Unspent`); by the time
  `enqueue_subscriptions` queues it, it is in the timeline (`Explained`), and
  so is what is queued (`Traced`); the
  deliveries of one signal lie together in the history, each webhook once, and
  all but the oldest signal still have their payload (`InOrderly`). `RestartInv`,
  which has the types. And with one process (`Alone`) `LoneInv`: what it is about
  to post or to record is pending or in retry (`Outstanding`) and below the limit
  of attempts (`Limited`), nothing is about to be posted twice, and a delivery
  was posted as often as it was attempted, but for the deaths and for a post
  whose result is about to be recorded (`Counted`). `SettledIsFinal` follows from
  the same invariant: each step is of a kind (`StepKin`) that keeps, drops, adds
  or records deliveries, and the recorded one is open by `Outstanding`. With two
  processes `Outstanding` is false: both read a delivery as due, and one settles it
  before the other posts.

TLC checked the invariants before they were proved; two earlier forms of
properties turned out too strong on larger instances and were corrected
(`RestartsBounded` had no `+ 1`, `PayloadsKept` spoke of one subscription).
`OperationsProgress` is liveness and only model-checked.

## 6. Recipes

`Recipes` models `recipes.json` and the host behind it. The WordPress install is
one action per journalled step (`WordPressApplication` ... `WordPressCommit`), its
failure two (`WordPressFails` takes `current` back, `RecordFailure` stores the
status); every other recipe is recorded once at its end from the state read at
its beginning (`GenericSave`); `Uninstall*` goes from the application over
secrets and bindings to the entry. Both kinds of install handle the secrets alike
and in steps of their own: `StoreInputs`, `FindPassword` (`exists`),
`CreatePassword` (the check in `create`), `WritePassword` and
`ReferencePassword`; another command may come between any two of them. Secrets
are generations, so that a retry that makes a new password is visible. `Crash`
stops a command between any two steps; `NewCatalogue` is a Lumic with newer
recipes.

Ghosts: `stale` (a save brought back what another command had changed), `torn` (an
operation died on the application), `met` (the commands beside which another one
worked on the same application). Properties that a second command or a death
breaks exclude those states and say so.

Run `recipes`: a WordPress site and one other application, two operators,
versions 1 and 2, two secrets, at most one failing step or death. `Bounded`: the
overlap of the two operators is explored without failures, failures and the newer
catalogue with the WordPress operator alone; a lost save ends a run.

- `InstallationsHonest`: `TypeOK`; installed is whole on the host
  (`InstalledIsWhole`); a journalled step has its effect whatever failed after it
  (`JournalHonest`); the entry stays until everything it names is gone
  (`UninstallResumable`); `current` stays on a configured release
  (`WorkingSiteKept`).
- `PasswordKept`: a stored administrator password is replaced only by an
  uninstall, or by a command in `met`. Two overlapping installs of one application
  may both pass the two checks, and the second write replaces the password that the
  first site was set up with (section 14). In the run each operator
  has applications of its own, so `met` stays empty and the property speaks of
  retries, deaths and upgrades; the theorem below covers overlapping commands.

### Proofs (`RecipesProofs`)

For any applications, operators, versions, failures and deaths, from
`RecipesAssumption` (`none`, the slot of no application, is no application):

- `InstallationsAreHonest == Spec /\ []Alone => []InstallationsHonest`. The
  hypothesis `Alone`: the commands on one application follow each other (recipes take no
  lock; two commands on one application undo each other's work in the code too).
  `HonestInv` has `Commands` and `Hosts` (what program counters and host may be), and per
  application: `Numbered` (passwords are generations within the bound), `Working`
  (what is current is configured, but for a command that has just
  activated it), `Staged` (what an install has done to the host at each of its stages),
  `Entered` and `Kept` (what the entry of a WordPress or of another application promises, and that
  the journal is exactly as long as the command is far). `Entered` needs `Staged`
  for the steps that finish an entry, and `Staged` needs `Alone` since
  a removal would take away what an install relies on. A command on another
  application leaves all of it alone; a step on the same one is a lemma per group of steps.
- `RetriesKeepPasswords == Spec => PasswordKept`, an action property, for commands
  that overlap as they like: who is about to write a password found none and saw
  none at the check of `create`, and none can have come since unless another command
  on the application did it, which puts both into `met`.

## 7. Web hosts and certificates

`WebHost` models `NginxManager` (`Configure*`, `Remove*`, `Ensure*`) and
`CertificateManager` (`Issue*`, `Renew*`, `Detach*`) for one site: `file`, `link`,
what nginx `loaded`, the `unit`, the certificate at Certbot, and what
`resources.json` records. Each step that writes a file, calls nginx, systemctl or
Certbot or saves the framework state has an action for success and one for
failure, which undoes what the code undoes (`Restore`). The nginx lock is a
try-lock; `ensure_service` and the certificate calls do not take it. `clobbered`
says that a stale save overwrote the framework state.

- `SitesConsistent`: `TypeOK`; between operations no site names a deleted
  certificate (`SiteNamesItsCertificate`) and every site is recorded
  (`SiteIsRecorded`), unless somebody died or a stale save intervened.
- `FailedChangeIsUndone`: a configure or issue that fails leaves file and
  symlink as found, and nginx serving what it served or what the files say.
- Run `host_tls_dropped` (1 process, no faults): `BoundCertificateIsServed` is
  violated, a new configuration renders plain HTTP over a bound certificate.

## 8. Managed services

`Services` models `ManagedServiceManager`, each mutation as its steps, and the
part of `resources.json` it saves. The manager sees a view (`View`) with the
services of five definitions; saving replaces these in the file of that moment
(`Merged`) and is refused (`Writable`) when the result names a resource twice or
a binding dangles. No lock is taken. Drivers are records of what they generate,
serve and can put back. `dirty` collects services whose last change was cut short
by a crash or a refused save.

- `ServicesKept`, first half `ServicesAsRecorded`: credentials exist (`CredentialsRecorded`), the recorded
  configuration is on disk and runs (`RecordedConfigurationRuns`), what an
  application refers to is neither removed nor unrecorded (`AttachedServiceStays`).
- `ServicesKept`, second half `CacheDataIsWhole`: a restore that fails is undone, never a mixture.

Run `host` (`MCHost`) checks sections 7 to 9: two processes on the site with one failing
step and one crash; one operator on four services (SQL, cache, search, one that
the view does not hold) with two configurations and one crash. `OneAtATime`
keeps one service present, or one beside a service outside the view, and keeps
backups and users apart: the undo of one operation reads nothing of another
service, but the view's merge does, hence the pair.

## 9. Hosted repositories

`Repositories` models `RepositoryService`: each mutation reads the record first
(`Create`, `Import`, ..., the job keeps it), takes the repository's try-lock when it
runs git (`TakeLock`, `GitInit`, `GitClone`, `GitSettings`, `Transfer`), and
saves under the registry lock (`PersistLoad`, `PersistSave`); `Delete` moves the
directory to the trash and saves without that lock. Failures undo directories
as the code does. `want` is the registry if every mutation had run alone, `raced`
that two mutations of one repository, or a delete and another, overlapped: then
the record read before the lock is stale, and the properties do not speak.

- `RegistryKeepsUpdates`: mutations of different repositories keep each other's
  records.
  Proved, section 13.
- `StorageIsKept`: registered means a bare directory (`RegisteredHasStorage`), and
  no undo removes a directory that was there before the call.

Part of run `host`: two processes, two repositories, one remote, one failing step
or one crash; overlapping mutations of one repository are explored until the lock
refuses one (`Few`).

## 10. Infrastructure

`Fleet` models `InfrastructureService`: identity, trust, endpoints, memberships,
signed requests, coordinated deployments, hosted repositories with triggers,
mirrors, environments. Every operation loads the whole file and saves it later,
without a lock (`Load`, `Save`); `clobbered` says a save overwrote a newer file, and
there the properties stop. Requests expire and a peer's clock may be ahead by
one; a signed request may be delivered any number of times.

- `ExecutedAtMostOnce` (proved, section 13), `CoordinationStops`
  (`UnstartedMembersStay`: after a failure nobody else starts; `FailureIsNotForgotten`:
  it stays failed or, once every member reports success, becomes succeeded, as
  `infrastructure.rs:1051` has it), `RecordedExists`:
  what the file names (key, repository, hook, mirror, application, secrets) exists
  on the host.

## 11. Command line, MCP and UI

`Interfaces` holds the tables: which operation each CLI command, MCP tool, page and
form calls, what each operation does (`Asks`; `Does`, under an operation context;
`Records`, which keeps what it observed without one), and which scope each tool
requires. `Changes` is what changes the node wherever it is asked for: those
commands, and `OtherChanges`, which only MCP tools, forms or Git clients reach. Over
the tables `RunCommand`, `ServeMcp`, `CallTool`, and the UI: `LoginFails`,
`LoginVerified` and `LoginOpens` (the token is verified under one lock, the session
inserted under another), `Auth` (session, expiry, token), `OpenPage`, `SubmitForm`
(form token), `PlanCatalogInstall` (answers before it looks for a session),
`GitSmartHttp` (a session or the administrator token, no form token),
`ReviewRecipe` and `InstallRecipe` (the plan lives in the session). `acted` is the
last operation and what it was allowed by.

- `ChangesAreGated`: MCP changes the node only with mutations allowed, a scope and
  approval, `node_health` apart (`McpChangesGated`); the `mutations` scope alone
  reaches no operation of another family (`McpLeastPrivilege`); what a browser
  calls without a form, with a session or without, changes nothing
  (`PagesOnlyAsk`). Nothing is claimed of the command line, which is the operator's
  shell, nor of a Git push, which carries no form token (section 14).
- `UiLimitsHold` (`TypeOK`, `ThrottleHolds`, `ReviewedInstalledOnce`). The throttle is
  that of the login form; a wrong bearer token at `/git` is not counted by the code.
  Both properties are proved (section 13).

Run `control` checks sections 10 and 11 on `Control`, whose constants `Policies` (the
sets of scopes an operator may grant) and `Followed` (how many reviews pages and forms
are followed after) keep it small; the theorems hold for any value. Policies are
sampled (`FewGrants`: none, a
wildcard, each single scope: the gate looks at one scope at a time). One
session slot and two browsers give eviction; a window of 2 and two failures give
the boundary of the throttle; two tabs the second submit. Two processes, one peer, two requests, a cache of one,
a clock up to 2 with a life of 1: a request can expire, be purged and be
delivered again (`OneAtATime` takes the parts of the file one at a time).

`CHECK_DEADLOCK FALSE` in all of these: bounds are used up, or nobody asks.

## 12. What a node stands on

`Node` puts six small components into one specification, run `node` on the small
instance `MCNode`; `about` says which one a behaviour is about.

| module | code | state and actions |
| --- | --- | --- |
| `AtomicFile` | `write_atomic`, `restore_backup`, `ApplicationStore::save` | directory entries name inodes, inodes hold a content or are torn; the call is backup (`StartCopy`, `EndCopy`), `CreateTemporary`, `WriteAndSync`, `Rename`, `CleanUp`, then its caller keeps it or restores (`RestoreBackup`). `use` says how: under a resource lock, without, or as the store |
| `Journal` | `jsonl_store.rs` | a line is half a record, the rest, a newline; `Open` locks, `Write` appends one part, `Cut` is a death or a full disk; `latest` is the reader, `reading` what it has after so many bytes of the file |
| `SecretStore` | `secret_store.rs` | a key is the process that drew it; `FindKey`, `Mint` (create_new), `Fill`, then `OpenSource`, `BackUp` (of the file that was opened, whatever became of its name) and `Replace`; `Read` of an unsealed file is a write of the value read |
| `SelfUpdate` | `SelfUpdateManager::apply` | downloads per process, the checksum fetched apart from the asset (`Publish` may come between), recovery copy, swap, restore, and the failure of each, of the way back too (`RestoreFails`) |
| `ArtifactCache` | `ArtifactManager::ensure` | try-lock, left-over downloads, verification, commit |
| `Integration` | `apply_laravel_redis`, `restore_snapshot` | `.env` of each release, what each worker was started with, snapshots; deployments, edits and other calls run in between. Each step may fail before it took effect, behind it, or leave the worker down (`WriteFails`, `RestartFails`, `AttachFails`), and so may each step of the way back (`RestoreFails`, `RestartAgainFails`) |

- `FilesAreWhole`: every content a reader of the path can see is whole and was
  asked for, or is what was there before a change that its caller takes back
  (`WritesAreAtomic`), with other processes, deaths and left-over temporaries; what
  is cached is pinned and never replaced (`ArtifactsAreImmutable`).
- `JournalIsRead`: a reader gets exactly the last records, newest first, behind a
  torn end too.
- `SecretsKept` (proved, section 13): `SecretsOpen`, `MigrationKeepsValues`,
  `DeletionIsComplete`.
- `FailuresAreUndone`: the executable is always a whole, verified release, and a
  failed update leaves the one it found, or has it beside the executable when the
  rename back failed (`BinaryWorks`); a failed integration takes back every part that
  did not itself fail half done (`FailedIntegrationIsUndone`): file and references
  are as found, and a worker runs what it ran before, what the file says now, or is
  down. A part that took effect and then reported a failure is in `half`: the code
  does not undo it (section 14), the others it does.

Ghosts mark what the code does not promise, and `Claimed` ends the behaviours
there: two threads of one process in one file (`shared`), two updates at once
(`overlapped`), a record behind a torn line (`torn`); `raced` names the
references written while a reader sealed an older value, `cut` those whose deletion
was killed or ended while a writer was about to copy the file it had open,
`disturbed` the integrations beside another change, `half` what failed half done.

Bounds: three threads of two processes and eight inodes (each call holds at most
four), two contents, `shared` followed for a first call on a missing file alone; four appends, two of them cut, a reader of two; two
processes, one reference, four values, one death; three releases, one broken;
two workers, one edit or deployment; up to two failing steps of an update or an
integration, so that a way back fails too. Symmetry of processes, contents and workers
(no liveness in this run).

## 13. Proofs for sections 9 to 12

`ControlProofs`, the fleet: `RequestsRunOnce == Spec => []ExecutedAtMostOnce`, for any sets of
peers, processes and secrets and any bounds. `verify_remote_request` looks for
the nonce, drops expired ones, adds the new one and saves. The inductive
invariant `OnceInv` says, while no save has overwritten a newer file:

- `Executions`: a request that ran or is about to has its nonce in the file or has
  expired, and at most one process is about to run it;
- `Saves`: what a process is about to save forgets unexpired nonces never: a
  verification keeps those it loaded, every other operation keeps them all;
- `Verifications`: a verification whose file is still the current one is of a
  request nobody used, and no file that anyone has loaded lists its nonce. Without
  this the save of a second verification of the same request could not be
  excluded: the first save makes the file newer, so the second is `clobbered`.

`Shapes` is what the argument needs of the types. Each action is put into one of
a few kinds of step (`Loading`, `Leaving`, ...) with a lemma each.

Its other two theorems share `FileInv`. `WhatIsRecordedExists == Spec =>
[]RecordedExists`: what the file names is on the host (`Backed`), and so is what a process
about to save will name; since nothing is taken off the host (`Grows`), a stale
save names less but never something absent. `FailuresStopCoordinations == Spec =>
CoordinationStops`, an action property (failed may become succeeded, nothing else): what a process is about to save follows
lawfully from the coordination it loaded (`Lawful`), and until `clobbered` what
it loaded is what the file says. `FleetAssumption` also says that the mark of
the absent application is no secret.

`HostProofs`, hosted repositories: `RegistryIsKept == Spec => []RegistryKeepsUpdates`, from
`RepositoriesAssumption` (`NoProc` is no process). The invariant `RegistryInv`: who
saves holds the registry lock (`Stages`); unless `raced`, two mutations under way
are of different repositories and a delete is alone (`Alone`), the record a
mutation carries is what it asked for, applied to the record of now (`Asked`), and
the registry in its hands is the file (`Current`). `Asked` is why `raced` must be
excluded: another change of the same record makes the carried one stale.
`StorageStays == Spec => StorageIsKept`, an action property, needs two more:
`Finding` (a mutation that makes a directory found none) and `Holding` (per
operation and stage, what of record and directory is already in place); a repository nobody
works on is in order (`Stored`) until a crash or a race. `HostKeepsRepositories`
carries both to `HostSpec`.

`HostProofs`, web hosts:

- `FailedChangesAreUndone == HostSpec => FailedChangeIsUndone`, whatever crashes or
  overwrites the framework state. `WebInv`: `WebTypes`, `Carries` (what a process
  took along, by what it does) and `Undoes`
  (who changes the site holds the lock, and what it kept of file, symlink and served
  configuration at its start is what its way back puts in place). Other processes
  change none of these while the lock is held.
- `SitesStayConsistent == HostSpec /\ []PreviousIsPresent => []SitesConsistent`.
  `SiteInv`: `Counted`, and unless a crash or a stale save cut an operation short
  (`CutShort`) `Agree`: what a detachment goes back to is plain HTTP
  (`Plain`), the certificate and record the site needs are there whenever nobody has the lock (`Complete`), and per
  process, at each stage, what the holder of the lock owes (`Agrees`). The
  hypothesis `PreviousIsPresent` says that the attachment does not change between
  the read of a renewal or detachment and its lock (`certificate.rs` reads the record first).
  It is needed: with three failing steps TLC finds a detachment that read the
  attachment, an issue that replaced it and failed at its certificate, and the
  detachment then removing what it did not read. The run's single fault does not reach this.
  The invariant was checked by TLC with two processes, three faults and a crash
  before it was proved.

`NodeProofs`, all over `NodeSpec`:

- `SecretsAreKept == NodeSpec => []SecretsKept`, from
  `SecretsAssumption` (the two states of a missing key are no processes; old files
  belong to references). `SecretInv` has `Types` and, one per conjunct of the
  property, what makes it inductive: `Keys` (who has read a key has the present
  one, and one process at most fills the file: it alone created it), `Migrations`
  (a reader about to seal a value has the present one, unless the reference was
  written meanwhile), `Deletions` (the file goes before its backup, and who copies a
  file that is gone is known: either a deletion is still under way or it ended in
  `cut`).
- `FilesWhole == NodeSpec => FilesAreWhole`. `Sound` holds until two threads of one process
  write at once (`shared`): what the path refers to is whole and no two names refer to
  one inode (`Names`), the threads of a process write one after the other (`OneByOne`),
  what a call has under way is what its own name refers to, whole when it is renamed
  (`Writing`), and under the lock the backup is what the call found (`Taking`). A new
  inode is one nobody refers to (`Free`: the bound on inodes is a guard, as the
  file system reuses them). `CacheInv`: what is cached is pinned, and who has the
  cache locked is alone with it and downloads only what is not there (`Caching`).
- `FailuresUndone == NodeSpec => []FailuresAreUndone`. `UpdateInv`: while updates do not
  overlap, one runs at a time, the binary is a whole and working release, and each
  stage knows what it can go back to (`Updating`). `IntegrationInv`: unless `disturbed`,
  an integration is alone, and the configuration, references and workers are at each stage
  what it found or what it made of them, what is in `half` apart (`Applying`). Any
  number of steps may fail, those of the way back included.
- `JournalsAreRead == NodeSpec => []JournalIsRead`. What the reader has after so many
  bytes is a recursive function (`reading`), and what it is for every file would take
  induction over data. `JournalInv` goes around it: of every function that reads
  through the file byte by byte (`ReadsThrough`) it says what this function has at the
  end, and a writer's byte extends it by one step (`OneByteMore`). There the
  last line is whole or a part, and behind it are the last records up to the
  limit, newest first (`Resolved`); the last line is what the holder of the lock has
  written of its record (`Written`). No hypothesis.

`ControlProofs`, the interfaces, over `ControlSpec`:

- `UiLimitsAreKept == ControlSpec => []UiLimitsHold`, from `ControlAssumption` (limits
  are positive). `UiInv`: `UiTypes`; `Rooms` (open sessions have ids that were given
  out, a token that was set, and room: who logs in takes the place of the
  one that expires first, `OneLess`); `Throttled` (what the throttle remembers is the
  end of all wrong tokens, and what it forgot has left the window: so a
  window holds no more than it remembers); `Waiting` (a reviewed plan waits in
  one session and has not been installed).
- `ChangesNeedGrants == ControlSpec => ChangesAreGated`, for all sets of scopes where the
  run samples some, and for every change, those only MCP offers (`OtherChanges`) and those
  that keep what was observed included; the exceptions are in the property itself
  (`Evidence`). The tables are listed as three sets, `Changing`,
  `Asking` and `Mutating` (`ChangesListed`, `ToolsListed`, `PagesListed`), that are apart
  where they must be (`Apart`); `WhoActs` says what a step that calls an operation was let
  in by.

What is only model-checked, and why:

- Liveness (`EveryDeploymentSettles`, `EveryRequestReturns`,
  `OperationsProgress`): out of the prover's reach.
- `ServicesKept` holds of the compositions of services that `OneAtATime` admits
  and not of all: the view of a save and the undo of another operation disagree otherwise
  (section 14), so there is no unconditional theorem to prove.

## 14. Known divergences without a run

Seen while modelling, and kept out of the properties by their conditions:

- `application.rs:1251` returns before a rejected deployment's record is stored
  when nginx or systemctl fail in the way back (deployments.md:72).
- `application.rs:2689` builds secret names that two applications can share
  (applications.md:20).
- `operations.rs:766`: one delivery that cannot be tried holds back all behind it
  (events-automation.md:58). `operations.rs:613`, `:269`: with two subscriptions
  a dropped payload, and an event appended after a later stamp, are lost.
- `framework_state.rs:230`: twelve of seventeen definitions are not in the view;
  a save may name such a service twice and is refused from then on
  (services.md:49). `managed_service.rs:1084`, `:839`, `:1247`, two saves or a
  crash between them.
- `recipe.rs:516`, `:205` with `secret_store.rs:36`: `exists`, the check of `create`
  and its write are apart; of two overlapping installs the second write replaces the
  password of the first. `recipe.rs:762` leaves generated secrets of a first install that failed
  (recipes.md:37); `recipe.rs:328` saves a state read before the work.
- `certificate.rs:392`, `:340`, `web.rs:188`, `:241`: a renewal that fails to be
  recorded, and saves of a framework state read earlier. A renewal and a
  detachment read the attachment before they lock; an issue in between that fails
  half-way makes a detachment leave a site that names a deleted certificate
  (excluded by `PreviousIsPresent`, section 13).
- `repository.rs:172`, `:248`, `:377`, `:615`: records and paths looked at before
  the lock (repositories.md:113).
- `infrastructure.rs:314`, `:897`, `:965`, `:1138`: two processes that load the
  file together; both execute one request (infrastructure.md:34).
- `lumic-ui` `lib.rs:438`: the clock of a login is read before the throttle's lock;
  `lib.rs:1360`: a second tab replaces the reviewed plan of the first.
- `lumic-ui` `lib.rs:1142`: a push to the UI's listener changes a repository on a
  session cookie or a bearer token, without the form token that `operator-ui.md:30`
  promises for every mutating request, and its wrong tokens are not throttled.
  `lib.rs:1642`: the plan of a catalogue install is computed, and its error answered,
  before a session is looked for.
- `lumic-mcp` `lib.rs:1649`: `node_health` keeps its evidence without a gate.
- `application.rs:97`, `atomic_file.rs:46`: one temporary name per process: two
  threads that write one file can publish half of it.
- `jsonl_store.rs:26`: an append behind a torn line makes the journal unreadable
  from there on (`jsonl_store.rs:166` tests the torn end alone).
- `secret_store.rs:169`: a process killed between creating and filling the key leaves
  it empty, and every later use is refused; `:92`: sealing an old file may bring
  back a value that was rotated or deleted meanwhile. `atomic_file.rs:50`: a backup
  whose source was opened before a deletion is made after it, and stays if the
  writer then dies.
- `self_update.rs:167`: updates take no lock; of two at once, one may restore the
  half-copied recovery binary of the other (cli.md:173). `:176`: the rename back may
  fail; the new binary then stays, the old one beside it.
- `intelligence.rs:384`, `:417`: a worker whose restart failed is not restarted with
  the restored file, although the restart may have taken effect and only its
  inspection or record failed (`systemd.rs:115`); it then runs the configuration that
  was taken back. `managed_service.rs:1228`: a reference saved by an attach whose
  event or audit record fails stays.

## 15. Not modelled

- The application manifest and its lifecycle (`application_manifest.rs`,
  `application_lifecycle.rs`): validation and plans, computed from data; the
  pipeline records are only written by the generic PHP lifecycle, which nothing
  outside tests calls yet.
- Software, packages and runtimes: command lines of apt and systemctl, whose
  order and undo are theirs. The nightly timer of the self update: two files.
- The migration of the first framework schema; what is inside a ciphertext.
- The attention queue, dependency graphs and incident reports: derived from what
  the other components record; the node's personality is one value that
  `write_atomic` replaces.
- Server inspection, catalog data, rendering, argument parsing: no state worth a
  model. The daemon is the fairness of `Operations`.
- Outside `AtomicFile`, `Journal` and `SecretStore` a save is one step.
