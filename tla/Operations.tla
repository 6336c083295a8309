----------------------------- MODULE Operations -----------------------------
(***************************************************************************)
(* OperationsService (lumic-platform/src/operations.rs): events, snapshots *)
(* and provider signals go to a timeline, are queued for webhooks and may  *)
(* trigger a rule that restarts a service.  The daemon runs run_once every *)
(* 30 s; the CLI and MCP may run the same beside it.  What a process still *)
(* has to do is a sequence of steps, todo; `?' drops the rest.             *)
(*                                                                         *)
(* An update of state.json under its flock is one step, except in the      *)
(* capture of events, which writes the timeline while it holds the lock.   *)
(* Time is abstract: a delivery is due or not, a rule is cooling or not.   *)
(* One subscription per destination matches every signal; a signal is      *)
(* failing if the rule matches it.                                         *)
(***************************************************************************)
EXTENDS Naturals, Sequences, SequencesExt, FiniteSets, FiniteSetsExt, TLC

CONSTANTS Runners,       \* processes: the daemon, a CLI, an MCP server
          NoRunner,
          Dests,         \* webhook destinations
          MaxHistory,    \* MAX_DELIVERY_HISTORY
          MaxAttempts,   \* of a destination
          RuleAttempts,  \* of the rule
          Scenarios,     \* who runs, what is asked and how often, configuration, crashes
          MaxSignals,    \* signals and events the liveness properties speak of
          NoConfig, Torn \* a snapshot that does not exist, or is cut short

VARIABLES
    scenario,   \* never changes
    events,     \* time stamps in events.jsonl, in the order appended
    late,       \* stamped, not appended yet (0: none)
    kernel,     \* number of matching lines in the kernel journal
    secrets,    \* destinations whose secret exists
    signals,    \* signals made so far; a signal is its index
    timeline,   \* timeline.jsonl, a sequence of signals
    state,      \* state.json
    backup,     \* configuration in .state.json.lumic-backup
    lock,       \* state.json.lock
    todo,       \* what each process has left to do
    asked,      \* stimuli so far
    crashes,
    \* history
    posts,      \* how often each delivery was sent, by signal and destination
    tries,      \* restarts since the rule was verified or configured
    window,     \* restarts reserved in the present cooldown
    previous,   \* configuration before the last change of it
    saveDied    \* a process died in save_state

outside == <<events, late, kernel, secrets>>
history == <<posts, tries, window, previous, saveDied>>
vars == <<scenario, outside, signals, timeline, state, backup, lock, todo,
          asked, crashes, history>>

Statuses == {"pending", "retry", "delivered", "exhausted"}
Sources == {"event", "kernel", "host", "provider", "remediation"}
Signal == [from : Sources, n : Nat, failing : BOOLEAN]
Mode == {"none", "on", "off"}     \* not configured, enabled, disabled
Rule == [mode : Mode, attempts : Nat, cooling : BOOLEAN]
Config == [dest : [Dests -> Mode], subs : SUBSET Dests, rule : Rule]
Delivery == [sig : Nat, dest : Dests, status : Statuses, attempts : Nat, due : BOOLEAN]
State == [config : Config, deliveries : Seq(Delivery), payloads : SUBSET Nat,
          lastEvent : Nat, lastKernel : Nat, sampled : BOOLEAN, exists : BOOLEAN]

\* What a process may still have to do
Steps ==
    [op : {"list", "gather", "due", "reserve", "restart", "verified"}]
    \cup [op : {"sample"}, force : BOOLEAN]
    \cup [op : {"capture", "append", "signal", "enqueue", "rules", "mark"}, n : Nat]
    \cup [op : {"endCapture"}, new : Seq(Nat), last : Nat]
    \cup [op : {"deliver"}, sig : Nat, dest : Dests]
    \cup [op : {"record"}, sig : Nat, dest : Dests, ok : BOOLEAN]

NewRule(mode) == [mode |-> mode, attempts |-> 0, cooling |-> FALSE]

\* A scenario starts from a configuration the program may have written.
ASSUME OperationsConstants ==
    /\ NoRunner \notin Runners /\ {NoConfig, Torn} \cap Config = {}
    /\ IsFiniteSet(Dests)
    /\ MaxHistory \in Nat /\ {MaxAttempts, RuleAttempts} \subseteq Nat \ {0}
    /\ \A s \in Scenarios :
          /\ s.runners \subseteq Runners /\ IsFiniteSet(s.runners)
          /\ {s.crashes, s.limit} \subseteq Nat
          /\ s.config \in Config /\ s.config.rule.attempts <= RuleAttempts

\* AutomationState::default(): nothing configured, nothing seen
FreshState ==
    [config |-> [dest |-> [d \in Dests |-> "none"], subs |-> {},
                 rule |-> NewRule("none")],
     deliveries |-> <<>>, payloads |-> {}, lastEvent |-> 0, lastKernel |-> 0,
     sampled |-> FALSE, exists |-> FALSE]

\* A scenario begins with its own configuration.
Configured(s) == [FreshState EXCEPT !.config = s.config, !.exists = s.config # FreshState.config]

Init ==
    /\ scenario \in Scenarios
    /\ events = <<>> /\ late = 0 /\ kernel = 0 /\ secrets = Dests
    /\ signals = <<>> /\ timeline = <<>>
    /\ state = Configured(scenario)
    /\ backup = NoConfig /\ lock = NoRunner
    /\ todo = [r \in Runners |-> <<>>]
    /\ asked = 0 /\ crashes = 0
    /\ posts = [i \in {} |-> 0] /\ tries = 0 /\ window = 0
    /\ previous = NoConfig /\ saveDied = FALSE

----------------------------------------------------------------------------
(* Writing state.json                                                      *)

\* write_state keeps the youngest MaxHistory deliveries and drops the
\* payloads of the signals of the others.
Bounded(s) ==
    LET n == Len(s.deliveries)
        cut == IF n > MaxHistory THEN n - MaxHistory ELSE 0
    IN  [s EXCEPT !.deliveries = SubSeq(@, cut + 1, n),
                  !.payloads = @ \ {s.deliveries[i].sig : i \in 1 .. cut},
                  !.exists = TRUE]

\* A configuration change: write_atomic leaves the replaced state beside the
\* file, and writes nothing if nothing changed.
WriteState(s) ==
    /\ lock = NoRunner
    /\ state' = IF s = state THEN state ELSE Bounded(s)
    /\ backup' = IF s # state /\ state.exists THEN state.config ELSE backup

\* Bug: runtime updates leave the replaced state in the place of the snapshot.
SaveReplacesSnapshot(s) ==
    /\ state' = IF s = state THEN state ELSE Bounded(s)
    /\ backup' = IF s # state /\ state.exists THEN state.config ELSE backup

\* A runtime update: the snapshot write_atomic overwrote is put back; a first
\* one stays.
SaveState(s) ==
    /\ state' = IF s = state THEN state ELSE Bounded(s)
    /\ backup' = IF s # state /\ state.exists /\ backup = NoConfig
                 THEN state.config ELSE backup

\* enqueue_subscriptions of the signals ns, one after the other: for each the
\* subscriptions in the order of ds.
Enqueued(s, ns) ==
    LET ds == SetToSeq({d \in s.config.subs : s.config.dest[d] = "on"})
        m == Len(ds)
        new == [k \in 1 .. Len(ns) * m |->
                  [sig |-> ns[((k - 1) \div m) + 1], dest |-> ds[((k - 1) % m) + 1],
                   status |-> "pending", attempts |-> 0, due |-> TRUE]]
    IN  [s EXCEPT !.deliveries = @ \o new,
                  !.payloads = IF ds = <<>> THEN @ ELSE @ \cup ToSet(ns)]

At(r, op) == todo[r] # <<>> /\ Head(todo[r]).op = op
Goes(r, steps) == todo' = [todo EXCEPT ![r] = steps \o Tail(todo[r])]
Fails(r) == todo' = [todo EXCEPT ![r] = <<>>]
Op(op) == [op |-> op]
On(op, n) == [op |-> op, n |-> n]
\* record_and_automate of signals, without the rules
Record(ns) == [i \in 1 .. Len(ns) |-> On("signal", ns[i])]
RulesFor(ns) == [i \in 1 .. Len(ns) |-> On("rules", ns[i])]
Ids(n, k) == [i \in 1 .. k |-> n + i]

----------------------------------------------------------------------------
(* What comes from outside, and the passage of time                        *)

Ask(kind) == kind \in scenario.asks /\ asked < scenario.limit /\ asked' = asked + 1
Newest == Max({0, late} \cup {events[i] : i \in DOMAIN events})
internal == <<signals, timeline, state, backup, lock, todo>>

\* Another process records an event, with a stamp it may have taken earlier.
RecordEvent ==
    /\ Ask("event")
    /\ events' = Append(events, Newest + 1)
    /\ UNCHANGED <<scenario, late, kernel, secrets, internal, crashes, history>>

StampEvent ==
    /\ Ask("late") /\ late = 0
    /\ late' = Newest + 1
    /\ UNCHANGED <<scenario, events, kernel, secrets, internal, crashes, history>>

AppendLateEvent ==
    /\ late # 0
    /\ events' = Append(events, late) /\ late' = 0
    /\ UNCHANGED <<scenario, kernel, secrets, internal, asked, crashes, history>>

KernelEvent ==
    /\ Ask("kernel")
    /\ kernel' = kernel + 1
    /\ UNCHANGED <<scenario, events, late, secrets, internal, crashes, history>>

ToggleSecret(d) ==
    /\ Ask("secret")
    /\ secrets' = IF d \in secrets THEN secrets \ {d} ELSE secrets \cup {d}
    /\ UNCHANGED <<scenario, events, late, kernel, internal, crashes, history>>

WindowElapses ==
    /\ Ask("window") /\ state.sampled
    /\ state' = [state EXCEPT !.sampled = FALSE]
    /\ UNCHANGED <<scenario, outside, signals, timeline, backup, lock, todo,
                   crashes, history>>

CooldownElapses ==
    /\ state.config.rule.cooling
    /\ state' = [state EXCEPT !.config.rule.cooling = FALSE]
    /\ window' = 0
    /\ UNCHANGED <<scenario, outside, signals, timeline, backup, lock, todo,
                   asked, crashes, posts, tries, previous, saveDied>>

DelayElapses ==
    /\ \E i \in DOMAIN state.deliveries :
          /\ ~state.deliveries[i].due
          /\ state' = [state EXCEPT !.deliveries[i].due = TRUE]
    /\ UNCHANGED <<scenario, outside, signals, timeline, backup, lock, todo,
                   asked, crashes, history>>

----------------------------------------------------------------------------
(* Configuration                                                           *)

\* What a configuration change does to the history variables
Reconfigures(c) ==
    IF c = state.config THEN UNCHANGED history
    ELSE /\ previous' = IF state.exists THEN state.config ELSE previous
         /\ saveDied' = FALSE
         /\ IF c.rule = state.config.rule THEN UNCHANGED <<tries, window>>
            ELSE tries' = 0 /\ window' = 0
         /\ UNCHANGED posts

Configure(c) ==
    /\ WriteState([state EXCEPT !.config = c])
    /\ Reconfigures(c)
    /\ UNCHANGED <<scenario, outside, signals, timeline, lock, todo, crashes>>

ApplyDestination(d, mode) ==
    /\ Ask("configure") /\ d \in secrets
    /\ Configure([state.config EXCEPT !.dest[d] = mode])

ApplySubscription(d) ==
    /\ Ask("configure") /\ state.config.dest[d] # "none"
    /\ Configure([state.config EXCEPT !.subs = @ \cup {d}])

ApplyRule(mode) ==
    /\ Ask("configure")
    /\ Configure([state.config EXCEPT !.rule = NewRule(mode)])

RollbackConfiguration ==
    /\ Ask("rollback") /\ backup \notin {NoConfig, Torn}
    /\ Configure(backup)

----------------------------------------------------------------------------
(* Entry points of a process                                               *)

Starts(r, steps) ==
    /\ r \in scenario.runners /\ todo[r] = <<>>
    /\ todo' = [todo EXCEPT ![r] = steps]

RunOnce(r) ==
    /\ "run" \in scenario.asks
    /\ Starts(r, <<Op("list"), [op |-> "sample", force |-> FALSE], Op("due")>>)
    /\ UNCHANGED <<scenario, outside, signals, timeline, state, backup, lock,
                   asked, crashes, history>>

ObserveNow(r) ==
    /\ Ask("observe")
    /\ Starts(r, <<[op |-> "sample", force |-> TRUE]>>)
    /\ UNCHANGED <<scenario, outside, signals, timeline, state, backup, lock,
                   crashes, history>>

\* Whether the rule matches is decided when a signal is made.
Failing == IF state.config.rule.mode = "on" THEN BOOLEAN ELSE {FALSE}

RecordProviderSignal(r) ==
    /\ Ask("provider")
    /\ \E f \in Failing :
         signals' = Append(signals, [from |-> "provider", n |-> 0, failing |-> f])
    /\ LET new == <<Len(signals) + 1>>
       IN  Starts(r, Record(new) \o RulesFor(new))
    /\ UNCHANGED <<scenario, outside, timeline, state, backup, lock, crashes, history>>

----------------------------------------------------------------------------
(* capture_events                                                          *)

ListEvents(r) ==
    /\ At(r, "list")
    /\ Goes(r, <<On("capture", Len(events))>>)
    /\ UNCHANGED <<scenario, outside, signals, timeline, state, backup, lock,
                   asked, crashes, history>>

\* The numbers of a set in their order.
Increasing(s) == \A i, j \in DOMAIN s : i < j => s[i] < s[j]
InOrder(S) == CHOOSE s \in [1 .. Cardinality(S) -> S] : Increasing(s)

\* Bug: the newest captured event counts as new.
FreshWithNewest(n) ==
    InOrder({i \in 1 .. n : /\ events[i] >= state.lastEvent
                            /\ \A j \in 1 .. i - 1 : events[j] < events[i]})

\* Events among the first n newer than the newest captured before them
Fresh(n) ==
    InOrder({i \in 1 .. n : /\ events[i] > state.lastEvent
                            /\ \A j \in 1 .. i - 1 : events[j] < events[i]})

\* Bug: events appended since the listing count as captured.
CaptureSkipsToNewest(r) ==
    /\ At(r, "capture") /\ lock = NoRunner
    /\ lock' = r
    /\ LET fresh == Fresh(Head(todo[r]).n)
           new == Ids(Len(signals), Len(fresh))
       IN  /\ signals' = signals \o [i \in 1 .. Len(fresh) |->
                   [from |-> "event", n |-> fresh[i], failing |-> FALSE]]
           /\ Goes(r, [i \in 1 .. Len(new) |-> On("append", new[i])]
                        \o <<[op |-> "endCapture", new |-> new, last |-> Newest]>>)
    /\ UNCHANGED <<scenario, outside, timeline, state, backup, asked, crashes, history>>

BeginCapture(r) ==
    /\ At(r, "capture") /\ lock = NoRunner
    /\ lock' = r
    /\ LET fresh == Fresh(Head(todo[r]).n)
           new == Ids(Len(signals), Len(fresh))
       IN  /\ \E f \in Failing :
                signals' = signals \o [i \in 1 .. Len(fresh) |->
                    [from |-> "event", n |-> fresh[i], failing |-> f]]
           /\ Goes(r, [i \in 1 .. Len(new) |-> On("append", new[i])]
                        \o <<[op |-> "endCapture", new |-> new,
                             last |-> IF fresh = <<>> THEN state.lastEvent ELSE events[Last(fresh)]]>>)
    /\ UNCHANGED <<scenario, outside, timeline, state, backup, asked, crashes, history>>

\* Bug: a signal is queued before it is in the timeline.
AppendAfterEnqueue(r) ==
    /\ At(r, "append") \/ At(r, "signal")
    /\ LET n == Head(todo[r]).n
       IN  IF At(r, "signal")
           THEN Goes(r, <<On("enqueue", n), On("append", n)>>) /\ UNCHANGED timeline
           ELSE Goes(r, <<>>) /\ timeline' = Append(timeline, n)
    /\ UNCHANGED <<scenario, outside, signals, state, backup, lock, asked, crashes, history>>

\* Outside a capture the signal is queued next.
AppendTimeline(r) ==
    /\ At(r, "append") \/ At(r, "signal")
    /\ LET n == Head(todo[r]).n
       IN  /\ timeline' = Append(timeline, n)
           /\ Goes(r, IF At(r, "signal") THEN <<On("enqueue", n)>> ELSE <<>>)
    /\ UNCHANGED <<scenario, outside, signals, state, backup, lock, asked, crashes, history>>

EndCapture(r) ==
    /\ At(r, "endCapture")
    /\ LET step == Head(todo[r])
       IN  /\ SaveState(Enqueued([state EXCEPT !.lastEvent = step.last], step.new))
           /\ Goes(r, RulesFor(step.new))
    /\ lock' = NoRunner
    /\ UNCHANGED <<scenario, outside, signals, timeline, asked, crashes, history>>

----------------------------------------------------------------------------
(* capture_snapshot, observe_now                                           *)

ReserveSample(r) ==
    /\ At(r, "sample") /\ lock = NoRunner
    /\ IF state.sampled /\ ~Head(todo[r]).force
       THEN Goes(r, <<>>) /\ UNCHANGED <<state, backup>>
       ELSE /\ Goes(r, <<Op("gather")>>)
            /\ SaveState([state EXCEPT !.sampled = TRUE])
    /\ UNCHANGED <<scenario, outside, signals, timeline, lock, asked, crashes, history>>

\* One signal for the host, one if a unit failed; capture_kernel_events reads
\* how far it came and the journal, and remembers the new end before any of
\* the signals is recorded.
Gather(r) ==
    /\ At(r, "gather")
    /\ \/ Fails(r) /\ UNCHANGED signals
       \/ \E f \in Failing :
             LET host == <<[from |-> "host", n |-> 0, failing |-> FALSE]>>
                         \o (IF f THEN <<[from |-> "host", n |-> 0, failing |-> TRUE]>> ELSE <<>>)
                 lines == [i \in 1 .. kernel - state.lastKernel |->
                             [from |-> "kernel", n |-> state.lastKernel + i, failing |-> FALSE]]
                 new == Ids(Len(signals), Len(host \o lines))
             IN  /\ signals' = signals \o host \o lines
                 /\ Goes(r, (IF lines = <<>> THEN <<>> ELSE <<On("mark", kernel)>>)
                             \o Record(new) \o RulesFor(new))
    /\ UNCHANGED <<scenario, outside, timeline, state, backup, lock, asked, crashes, history>>

MarkKernel(r) ==
    /\ At(r, "mark") /\ lock = NoRunner
    /\ SaveState([state EXCEPT !.lastKernel = Max({@, Head(todo[r]).n})])
    /\ Goes(r, <<>>)
    /\ UNCHANGED <<scenario, outside, signals, timeline, lock, asked, crashes, history>>

EnqueueSubscriptions(r) ==
    /\ At(r, "enqueue") /\ lock = NoRunner
    /\ SaveState(Enqueued(state, <<Head(todo[r]).n>>))
    /\ Goes(r, <<>>)
    /\ UNCHANGED <<scenario, outside, signals, timeline, lock, asked, crashes, history>>

----------------------------------------------------------------------------
(* Rules                                                                   *)

ApplyMatchingRules(r) ==
    /\ At(r, "rules")
    /\ Goes(r, IF signals[Head(todo[r]).n].failing /\ state.config.rule.mode = "on"
               THEN <<Op("reserve")>> ELSE <<>>)
    /\ UNCHANGED <<scenario, outside, signals, timeline, state, backup, lock,
                   asked, crashes, history>>

\* Bug: the cooldown is not looked at again under the lock.
ReserveWhileCooling(r) ==
    /\ At(r, "reserve") /\ lock = NoRunner
    /\ LET rule == state.config.rule
       IN  IF rule.mode = "none" \/ rule.attempts >= RuleAttempts
           THEN Goes(r, <<>>) /\ UNCHANGED <<state, backup, window>>
           ELSE /\ Goes(r, <<Op("restart")>>)
                /\ SaveState([state EXCEPT !.config.rule.attempts = @ + 1,
                                           !.config.rule.cooling = TRUE])
                /\ window' = window + 1
    /\ UNCHANGED <<scenario, outside, signals, timeline, lock, asked, crashes,
                   posts, tries, previous, saveDied>>

\* The attempt is counted before the restart, in the update that checks it.
ReserveAttempt(r) ==
    /\ At(r, "reserve") /\ lock = NoRunner
    /\ LET rule == state.config.rule
       IN  IF rule.mode = "none" \/ rule.attempts >= RuleAttempts \/ rule.cooling
           THEN Goes(r, <<>>) /\ UNCHANGED <<state, backup, window>>
           ELSE /\ Goes(r, <<Op("restart")>>)
                /\ SaveState([state EXCEPT !.config.rule.attempts = @ + 1,
                                           !.config.rule.cooling = TRUE])
                /\ window' = window + 1
    /\ UNCHANGED <<scenario, outside, signals, timeline, lock, asked, crashes,
                   posts, tries, previous, saveDied>>

RestartService(r) ==
    /\ At(r, "restart")
    /\ signals' = Append(signals, [from |-> "remediation", n |-> 0, failing |-> FALSE])
    /\ LET new == Record(<<Len(signals) + 1>>)
       IN  \/ Goes(r, <<Op("verified")>> \o new) /\ tries' = 0
           \/ Goes(r, new) /\ tries' = tries + 1
    /\ UNCHANGED <<scenario, outside, timeline, state, backup, lock, asked, crashes,
                   posts, window, previous, saveDied>>

ResetAttempts(r) ==
    /\ At(r, "verified") /\ lock = NoRunner
    /\ SaveState([state EXCEPT !.config.rule.attempts = 0])
    /\ Goes(r, <<>>)
    /\ UNCHANGED <<scenario, outside, signals, timeline, lock, asked, crashes, history>>

----------------------------------------------------------------------------
(* Deliveries                                                              *)

\* Bug: whatever has reached its time is sent again.
DueWhateverItsStatus(d) == d.due

IsDue(d) == d.status \in {"pending", "retry"} /\ d.due

DeliverDue(r) ==
    /\ At(r, "due")
    /\ LET due == InOrder({i \in DOMAIN state.deliveries : IsDue(state.deliveries[i])})
       IN  Goes(r, [i \in DOMAIN due |->
                     [op |-> "deliver", sig |-> state.deliveries[due[i]].sig,
                      dest |-> state.deliveries[due[i]].dest]])
    /\ UNCHANGED <<scenario, outside, signals, timeline, state, backup, lock,
                   asked, crashes, history>>

Matching(step) == {i \in DOMAIN state.deliveries :
    state.deliveries[i].sig = step.sig /\ state.deliveries[i].dest = step.dest}

Deliverable(step) ==
    /\ Matching(step) # {}
    /\ state.config.dest[step.dest] = "on"
    /\ step.sig \in state.payloads
    /\ step.dest \in secrets

\* Whatever keeps a delivery from being tried ends the whole cycle.
Deliver(r) ==
    /\ At(r, "deliver")
    /\ LET step == Head(todo[r])
           id == <<step.sig, step.dest>>
       IN  IF ~Deliverable(step) THEN Fails(r) /\ UNCHANGED posts
           ELSE /\ \E ok \in BOOLEAN :
                     Goes(r, <<[op |-> "record", sig |-> step.sig, dest |-> step.dest, ok |-> ok]>>)
                /\ posts' = [i \in DOMAIN posts \cup {id} |->
                               IF i # id THEN posts[i] ELSE IF i \in DOMAIN posts THEN posts[i] + 1 ELSE 1]
    /\ UNCHANGED <<scenario, outside, signals, timeline, state, backup, lock, asked,
                   crashes, tries, window, previous, saveDied>>

Attempted(d, ok) ==
    LET limit == IF state.config.dest[d.dest] = "none" THEN 1 ELSE MaxAttempts
        status == CASE ok -> "delivered"
                    [] ~ok /\ d.attempts + 1 >= limit -> "exhausted"
                    [] OTHER -> "retry"
    IN  [d EXCEPT !.attempts = @ + 1, !.status = status, !.due = @ /\ status # "retry"]

RecordDeliveryResult(r) ==
    /\ At(r, "record") /\ lock = NoRunner
    /\ LET step == Head(todo[r])
       IN  IF Matching(step) = {} THEN Fails(r) /\ UNCHANGED <<state, backup>>
           ELSE /\ LET i == Min(Matching(step))
                   IN  SaveState([state EXCEPT !.deliveries[i] = Attempted(@, step.ok)])
                /\ Goes(r, <<>>)
    /\ UNCHANGED <<scenario, outside, signals, timeline, lock, asked, crashes, history>>

----------------------------------------------------------------------------

\* A process dies.  In save_state that may leave the copy write_atomic made
\* in the place of the snapshot, or the snapshot truncated.
Saving(r) == \E op \in {"sample", "endCapture", "mark", "enqueue", "reserve", "verified", "record"} : At(r, op)

Crash(r) ==
    /\ todo[r] # <<>> /\ crashes < scenario.crashes
    /\ crashes' = crashes + 1
    /\ Fails(r)
    /\ lock' = IF lock = r THEN NoRunner ELSE lock
    /\ \/ UNCHANGED <<backup, saveDied>>
       \/ /\ Saving(r) /\ lock \in {r, NoRunner} /\ backup # NoConfig
          /\ backup' \in {state.config, Torn}
          /\ saveDied' = TRUE
    /\ UNCHANGED <<scenario, outside, signals, timeline, state, asked, posts, tries,
                   window, previous>>

Step(r) ==
    \/ ListEvents(r) \/ BeginCapture(r) \/ AppendTimeline(r) \/ EndCapture(r)
    \/ ReserveSample(r) \/ Gather(r) \/ MarkKernel(r) \/ EnqueueSubscriptions(r)
    \/ ApplyMatchingRules(r) \/ ReserveAttempt(r) \/ RestartService(r) \/ ResetAttempts(r)
    \/ DeliverDue(r) \/ Deliver(r) \/ RecordDeliveryResult(r)

Next ==
    \/ RecordEvent \/ StampEvent \/ AppendLateEvent \/ KernelEvent
    \/ WindowElapses \/ CooldownElapses \/ DelayElapses
    \/ \E d \in Dests : ToggleSecret(d) \/ ApplySubscription(d)
    \/ \E d \in Dests, mode \in {"on", "off"} : ApplyDestination(d, mode)
    \/ \E mode \in {"on", "off"} : ApplyRule(mode)
    \/ RollbackConfiguration
    \/ \E r \in Runners : RunOnce(r) \/ ObserveNow(r) \/ RecordProviderSignal(r)
                           \/ Step(r) \/ Crash(r)

Spec == Init /\ [][Next]_vars

\* The daemon wakes every 30 s and a process that began goes on; delays pass.
FairSpec ==
    /\ Spec
    /\ \A r \in Runners : WF_vars(Step(r)) /\ WF_vars(RunOnce(r))
    /\ WF_vars(DelayElapses)
    /\ WF_vars(AppendLateEvent)

----------------------------------------------------------------------------
(* Properties                                                              *)

TypeOK ==
    /\ scenario \in Scenarios
    /\ events \in Seq(Nat) /\ late \in Nat /\ kernel \in Nat /\ secrets \subseteq Dests
    /\ signals \in Seq(Signal) /\ timeline \in Seq(Nat)
    /\ state \in State
    /\ backup \in Config \cup {NoConfig, Torn} /\ lock \in Runners \cup {NoRunner}
    /\ todo \in [Runners -> Seq(Steps)]
    /\ {asked, crashes, tries, window} \subseteq Nat
    /\ previous \in Config \cup {NoConfig} /\ saveDied \in BOOLEAN

Alone == Cardinality(scenario.runners) = 1

\* The daemon runs, and nobody changes the configuration or records an event
\* out of order.
Unattended ==
    "run" \in scenario.asks /\ scenario.asks \cap {"configure", "rollback", "secret", "late"} = {}

\* Whatever is queued for a webhook is in the durable timeline, wherever a
\* process died.
DeliveriesExplained ==
    \A i \in DOMAIN state.deliveries :
        \E j \in DOMAIN timeline : timeline[j] = state.deliveries[i].sig

\* Without crashes no event enters the timeline twice, whoever captures.
EventsOnce ==
    crashes = 0 =>
        \A i, j \in DOMAIN timeline :
            LET a == signals[timeline[i]]
                b == signals[timeline[j]]
            IN  a.from = "event" /\ b.from = "event" /\ a.n = b.n => i = j

\* A service is not restarted over and over: a process that saw a restart succeed
\* and resets the count late gives the others the limit of the rule once more,
\* and one restart may be under way when the count starts again.
RestartsBounded == tries <= RuleAttempts * Cardinality(scenario.runners) + 1

\* One restart per cooldown, however many processes saw the failure.
RestartsSpaced == window <= 1

\* A rule neither gives its restarts away in one burst nor hands out more than
\* it has.
RestartsLimited == RestartsBounded /\ RestartsSpaced

\* Several processes that see one event or one failure act on it once.
ActedOnOnce == EventsOnce /\ RestartsLimited

\* Retries are bounded when one process delivers: each crash may repeat one.
PostsBounded == Alone => \A id \in DOMAIN posts : posts[id] <= MaxAttempts + crashes

\* The payload of a queued delivery is there, except that of the oldest signal
\* when the limit of the history has cut off another delivery of it.
PayloadsKept ==
    \A i \in DOMAIN state.deliveries :
        state.deliveries[i].sig \notin state.payloads =>
            /\ state.deliveries[i].sig = state.deliveries[1].sig
            /\ Len(state.deliveries) = MaxHistory

\* Deliveries can be accounted for: each comes from a recorded signal, still has
\* its payload, and is sent no more often than its attempts and the deaths
\* explain.
DeliveriesAccountable ==
    TypeOK /\ DeliveriesExplained /\ PayloadsKept /\ PostsBounded

\* The snapshot is the configuration before its last change, whatever runtime
\* updates came after it, unless a process died in one of them.
RollbackGoesBack == previous # NoConfig /\ ~saveDied => backup = previous

\* A delivery that was settled is not tried again when one process delivers.
SettledIsFinal ==
    [][Alone => \A i \in DOMAIN state.deliveries :
          LET d == state.deliveries[i]
          IN  d.status \in {"delivered", "exhausted"} =>
                 \A j \in DOMAIN state'.deliveries :
                    state'.deliveries[j].sig = d.sig /\ state'.deliveries[j].dest = d.dest
                        => state'.deliveries[j].status = d.status]_vars

Live(n, d) == \E i \in DOMAIN state.deliveries :
    /\ state.deliveries[i].sig = n /\ state.deliveries[i].dest = d
    /\ state.deliveries[i].status \in {"pending", "retry"}

\* Every queued delivery is delivered, exhausted or dropped from the history.
DeliveriesSettle ==
    \A n \in 1 .. MaxSignals, d \in Dests :
        (Unattended /\ Live(n, d)) ~> ~Live(n, d)

Recorded(k) == \E i \in DOMAIN timeline :
    signals[timeline[i]].from = "event" /\ signals[timeline[i]].n = k

\* Every event that is appended in the order of its stamp gets to the timeline.
EventsRecorded ==
    \A k \in 1 .. MaxSignals : (Unattended /\ k <= Len(events)) ~> Recorded(k)

\* While the daemon runs, every event reaches the timeline and every delivery
\* its end.
OperationsProgress == EventsRecorded /\ DeliveriesSettle
=============================================================================
