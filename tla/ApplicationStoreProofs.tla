----------------------- MODULE ApplicationStoreProofs -----------------------
(***************************************************************************)
(* Proofs about ApplicationStore, for any number of processes,             *)
(* applications, domains, deployments and crashes: the types, and that no  *)
(* interleaving of the handlers other than the import of a portable        *)
(* configuration gives two applications one identifier or one domain, and  *)
(* that upserts run one at a time; for one process, that what the file     *)
(* lists resolves, whatever fails or dies.                                 *)
(***************************************************************************)
EXTENDS Store, SequenceTheorems, TLAPS

\* Every handler is a sequence of statements.
LEMMA HandlersTyped == \A op \in Operations : Handlers[op] \in Seq(Statements)
<1>1. \A s \in Statuses : UpsertDeployment(s) \in Seq(Statements)
  BY DEF UpsertDeployment, Statements
<1>2. /\ <<"inspect_repository">> \in Seq(Statements) /\ SetHealth \in Seq(Statements)
      /\ <<"inspect_started">> \in Seq(Statements)
      /\ <<"inspect_completed", "host">> \in Seq(Statements)
  BY DEF SetHealth, Statements
<1>3. Deploy \in Seq(Statements) /\ Cancel \in Seq(Statements) /\ Rollback \in Seq(Statements)
  BY <1>1, <1>2, ConcatProperties DEF Deploy, Cancel, Rollback, Statuses
<1>4. Import \in Seq(Statements)
  <2>1. <<"secret_exists">> \in Seq(Statements) /\ Apply \in Seq(Statements)
    BY DEF Apply, Statements
  <2> QED
    BY <2>1, ConcatProperties DEF Import
<1>5. /\ Create \in Seq(Statements) /\ SetRepository \in Seq(Statements)
      /\ SetHealthCheck \in Seq(Statements) /\ Provision \in Seq(Statements)
      /\ EnableTls \in Seq(Statements) /\ AddProcess \in Seq(Statements)
      /\ ConfigureDeployment \in Seq(Statements) /\ ApplyManifest \in Seq(Statements)
  BY DEF Create, SetRepository, SetHealthCheck, Provision, EnableTls, AddProcess,
         ConfigureDeployment, ApplyManifest, Statements
<1>6. /\ AttachService \in Seq(Statements) /\ SetReference \in Seq(Statements)
      /\ SetSecret \in Seq(Statements) /\ RotateSecret \in Seq(Statements)
      /\ DeleteSecret \in Seq(Statements) /\ Delete \in Seq(Statements)
  BY DEF AttachService, SetReference, SetSecret, RotateSecret, DeleteSecret, Delete,
         Statements
<1> QED
  BY <1>3, <1>4, <1>5, <1>6 DEF Handlers, Operations

LEMMA ChoicesTyped == AnApp \in Apps /\ ADomain \in Domains /\ AName \in Names
  BY StoreConstants DEF AnApp, ADomain, AName

LEMMA NoJobTyped == NoJob \in Jobs
<1>1. Empty \in States
  BY DEF Empty, States
<1>2. 0 \in Ids
  BY StoreConstants DEF Ids
<1>3. OwnReference(AnApp, AName) \in References
  BY ChoicesTyped, StoreConstants DEF OwnReference
<1> QED
  BY <1>1, <1>2, <1>3, ChoicesTyped DEF NoJob, Jobs

\* A handler changes a typed application into a typed application, and leaves
\* its identifier alone; only an import changes its domain.
LEMMA UpdateTyped ==
  ASSUME NEW j \in Jobs, NEW a \in Applications
  PROVE  /\ Updated(j, a) \in Applications
         /\ Updated(j, a).id = a.id
         /\ j.op # "import" => Updated(j, a).domain = a.domain
<1>1. /\ j.ref \in References /\ j.name \in Names /\ j.domain \in Domains
      /\ j.set \subseteq Parts
  BY DEF Jobs
<1>2. /\ a.id \in Apps /\ a.domain \in Domains /\ a.set \subseteq Parts
      /\ a.env \in [Names -> References \cup {NoRef}]
  BY DEF Applications
<1>3. NewParts(j, a) \subseteq Parts
  BY <1>1, <1>2 DEF NewParts, Parts, Portable
<1>4. NewReferences(j, a) \in [Names -> References \cup {NoRef}]
  <2>1. CASE j.op \in {"set_reference", "set_secret"}
    BY <1>1, <1>2, <2>1 DEF NewReferences
  <2>2. CASE j.op = "delete_secret"
    BY <1>1, <1>2, <2>2 DEF NewReferences
  <2>3. CASE j.op = "import"
    BY <1>1, <2>3 DEF NewReferences
  <2>4. CASE j.op \notin {"set_reference", "set_secret", "delete_secret", "import"}
    BY <1>2, <2>4 DEF NewReferences
  <2> QED
    BY <2>1, <2>2, <2>3, <2>4
<1> QED
  BY <1>1, <1>2, <1>3, <1>4 DEF Updated, Applications

LEMMA NewApplicationTyped ==
  ASSUME NEW j \in Jobs PROVE NewApplication(j) \in Applications
  BY DEF NewApplication, Applications, Jobs

LEMMA ChangedTyped ==
  ASSUME NEW j \in Jobs, NEW s \in States PROVE Changed(j, s) \in States
<1>1. CASE j.op = "create"
  BY <1>1, NewApplicationTyped DEF Changed, States
<1>2. CASE j.op = "delete"
  BY <1>2 DEF Changed, Without, Find, States
<1>3. CASE j.op \notin {"create", "delete"}
  <2>1. {Updated(j, a) : a \in Find(s, j.app)} \subseteq Applications
    BY UpdateTyped DEF Find, States
  <2> QED
    BY <1>3, <2>1 DEF Changed, States
<1> QED
  BY <1>1, <1>2, <1>3

LEMMA UpsertedTyped ==
  ASSUME NEW j \in Jobs, NEW s \in States, NEW status \in Statuses
  PROVE  Upserted(j, status, s) \in States
<1>1. j.id \in Ids /\ j.app \in Apps
  BY DEF Jobs
<1> QED
  BY <1>1 DEF Upserted, States, Deployments

-----------------------------------------------------------------------------
(* Types. *)

LEMMA ProceedTyped ==
  ASSUME TypeOK, NEW p \in Procs, todo[p] # <<>>, NEW j \in Jobs, Proceed(p, j)
  PROVE  todo' \in [Procs -> Seq(Statements)] /\ job' \in [Procs -> Jobs]
<1>1. Tail(todo[p]) \in Seq(Statements)
  BY DEF TypeOK
<1> QED
  BY <1>1, NoJobTyped DEF TypeOK, Proceed

LEMMA FailTyped ==
  ASSUME TypeOK, NEW p \in Procs, Fail(p)
  PROVE  todo' \in [Procs -> Seq(Statements)] /\ job' \in [Procs -> Jobs]
  BY NoJobTyped DEF TypeOK, Fail

LEMMA LoadedTyped ==
  ASSUME TypeOK, NEW p \in Procs
  PROVE  /\ Loaded(p) \in Jobs
         /\ \A b \in BOOLEAN : [Loaded(p) EXCEPT !.preexisted = b] \in Jobs
         /\ \A r \in References : [job[p] EXCEPT !.ref = r] \in Jobs
         /\ \A d \in Ids : [job[p] EXCEPT !.id = d] \in Jobs
<1>1. job[p] \in Jobs /\ file \in States
  BY DEF TypeOK
<1> QED
  BY <1>1 DEF Loaded, Jobs

LEMMA AskTyped ==
  ASSUME TypeOK, NEW p \in Procs, Ask(p) PROVE TypeOK'
<1>1. PICK j \in Asked :
        /\ j.op \in Releasing => issued < MaxDeployments /\ ~Deploying(j.app)
        /\ job' = [job EXCEPT ![p] = [j EXCEPT !.id = IF j.op \in Releasing THEN issued + 1 ELSE 0]]
        /\ issued' = IF j.op \in Releasing THEN issued + 1 ELSE issued
        /\ todo' = [todo EXCEPT ![p] = Handlers[j.op]]
  BY DEF Ask
<1>2. j \in [op: Requests, app: Apps, domain: Domains, name: Names, ref: References,
             set: {{}, Portable}, id: {0}, state: {Empty}, preexisted: {FALSE}]
  BY DEF Asked
<1>3. issued' \in 0 .. MaxDeployments
  BY <1>1, StoreConstants DEF TypeOK
<1>4. [j EXCEPT !.id = IF j.op \in Releasing THEN issued + 1 ELSE 0] \in Jobs
  <2>1. (IF j.op \in Releasing THEN issued + 1 ELSE 0) \in Ids
    BY <1>1, StoreConstants DEF TypeOK, Ids
  <2>2. Empty \in States /\ {} \in SUBSET Parts /\ Portable \in SUBSET Parts
    BY DEF Empty, States, Portable
  <2>3. j.op \in Operations
    BY <1>2, RequestsAssumption
  <2> QED
    BY <1>2, <2>1, <2>2, <2>3 DEF Jobs
<1>5. job' \in [Procs -> Jobs] /\ todo' \in [Procs -> Seq(Statements)]
  BY <1>1, <1>2, <1>4, HandlersTyped, RequestsAssumption DEF TypeOK
<1> QED
  BY <1>3, <1>5 DEF Ask, TypeOK, host

LEMMA StepTyped ==
  ASSUME TypeOK, NEW p \in Procs, Step(p) PROVE TypeOK'
<1> USE DEF host
<1>1. job[p] \in Jobs /\ job[p].app \in Apps /\ job[p].ref \in References
      /\ job[p].state \in States
  BY DEF TypeOK, Jobs
<1>2. \A s : At(p, s) => todo[p] # <<>>
  BY DEF At
<1>3. CASE Inspect(p)
  BY <1>1, <1>2, <1>3, ProceedTyped, FailTyped DEF Inspect, GoOnIf, TypeOK
<1>4. CASE InspectName(p)
  <2>1. \A r \in {a.env[job[p].name] : a \in Find(file, job[p].app)} \ {NoRef} : r \in References
    <3>1. job[p].name \in Names
      BY <1>1 DEF Jobs
    <3>2. \A a \in Find(file, job[p].app) : a.env \in [Names -> References \cup {NoRef}]
      BY DEF Find, TypeOK, States, Applications
    <3> QED
      BY <3>1, <3>2
  <2>2. todo' \in [Procs -> Seq(Statements)] /\ job' \in [Procs -> Jobs]
    BY <1>2, <1>4, <2>1, LoadedTyped, ProceedTyped, FailTyped DEF InspectName
  <2> QED
    BY <1>4, <2>2 DEF InspectName, TypeOK
<1>5. CASE HostWork(p)
  BY <1>1, <1>2, <1>5, ProceedTyped, FailTyped DEF HostWork, TypeOK
<1>6. CASE SecretExists(p)
  BY <1>1, <1>2, <1>6, ProceedTyped, FailTyped DEF SecretExists, GoOnIf, TypeOK
<1>7. CASE PutSecret(p)
  BY <1>1, <1>2, <1>7, ProceedTyped DEF PutSecret, TypeOK
<1>8. CASE RemoveSecret(p)
  BY <1>1, <1>2, <1>8, ProceedTyped DEF RemoveSecret, TypeOK
<1>9. CASE Load(p)
  BY <1>2, <1>9, LoadedTyped, ProceedTyped, FailTyped DEF Load, GoOnIf, TypeOK
<1>10. CASE CheckUnique(p)
  <2>1. [Loaded(p) EXCEPT !.preexisted = job[p].app \in roots] \in Jobs
    <3>1. (job[p].app \in roots) \in BOOLEAN
      OBVIOUS
    <3> QED
      BY <3>1, LoadedTyped
  <2>2. todo' \in [Procs -> Seq(Statements)] /\ job' \in [Procs -> Jobs]
    BY <1>2, <1>10, <2>1, ProceedTyped, FailTyped DEF CheckUnique, GoOnIf
  <2> QED
    BY <1>1, <1>10, <2>2 DEF CheckUnique, TypeOK
<1>11. CASE Trash(p)
  BY <1>1, <1>2, <1>11, ProceedTyped, FailTyped DEF Trash, TypeOK
<1>12. CASE Save(p)
  BY <1>1, <1>2, <1>12, ProceedTyped, ChangedTyped DEF Save, TypeOK
<1>13. CASE Persist(p)
  <2>1. <<"undo">> \in Seq(Statements)
    BY DEF Statements
  <2> QED
    BY <1>1, <1>2, <1>13, <2>1, ProceedTyped DEF Persist, TypeOK
<1>14. CASE Undo(p)
  BY <1>1, <1>2, <1>14, ProceedTyped DEF Undo, TypeOK
<1>15. CASE Lock(p)
  BY <1>1, <1>2, <1>15, ProceedTyped DEF Lock, TypeOK
<1>16. CASE Record(p)
  BY <1>1, <1>2, <1>16, ProceedTyped, UpsertedTyped DEF Record, TypeOK
<1>17. CASE InspectDeployment(p)
  <2>1. \A d \in file.deployments : d.id \in Ids
    BY DEF TypeOK, States, Deployments
  <2>2. todo' \in [Procs -> Seq(Statements)] /\ job' \in [Procs -> Jobs]
    BY <1>1, <1>2, <1>17, <2>1, LoadedTyped, ProceedTyped, FailTyped
       DEF InspectDeployment, GoOnIf
  <2> QED
    BY <1>17, <2>2 DEF InspectDeployment, TypeOK
<1> QED
  BY <1>3, <1>4, <1>5, <1>6, <1>7, <1>8, <1>9, <1>10, <1>11, <1>12, <1>13, <1>14,
     <1>15, <1>16, <1>17 DEF Step

LEMMA CrashTyped ==
  ASSUME TypeOK, NEW p \in Procs, Crash(p) PROVE TypeOK'
  BY StoreConstants, FailTyped DEF Crash, TypeOK, host

LEMMA InitTyped == ASSUME Init PROVE TypeOK
<1>1. Empty \in States
  BY DEF Empty, States
<1>2. <<>> \in Seq(Statements)
  OBVIOUS
<1> QED
  BY <1>1, <1>2, NoJobTyped, StoreConstants DEF Init, TypeOK

\* Store, locks and handlers keep their types in every reachable state.
THEOREM TypeCorrect == Spec => []TypeOK
<1>1. Init => TypeOK
  BY InitTyped
<1>2. TypeOK /\ [Next]_vars => TypeOK'
  <2> SUFFICES ASSUME TypeOK, [Next]_vars PROVE TypeOK'
    OBVIOUS
  <2>1. CASE UNCHANGED vars
    BY <2>1 DEF TypeOK, vars, host
  <2>2. ASSUME NEW p \in Procs, Ask(p) \/ Step(p) \/ Crash(p) PROVE TypeOK'
    BY <2>2, AskTyped, StepTyped, CrashTyped
  <2> QED
    BY <2>1, <2>2 DEF Next
<1> QED
  BY <1>1, <1>2, PTL DEF Spec

-----------------------------------------------------------------------------
(* No two applications share an identifier or a domain. *)

\* What Tail leaves of a sequence, given element by element.
LEMMA TailIs ==
  ASSUME NEW S, NEW s \in Seq(S), NEW t \in Seq(S), Len(s) = Len(t) + 1,
         \A i \in 1 .. Len(t) : t[i] = s[i + 1]
  PROVE  Tail(s) = t
<1>1. s # <<>>
  OBVIOUS
<1>2. /\ Tail(s) \in Seq(S) /\ Len(Tail(s)) = Len(s) - 1
      /\ \A i \in 1 .. Len(Tail(s)) : Tail(s)[i] = s[i + 1]
  BY <1>1, HeadTailProperties
<1>3. Len(Tail(s)) = Len(t)
  BY <1>2
<1> QED
  BY <1>2, <1>3, SeqEqual

\* The statements a creation goes through.
LEMMA CreateTails ==
  /\ Tail(<<"check_unique", "save", "persist">>) = <<"save", "persist">>
  /\ Tail(<<"save", "persist">>) = <<"persist">>
  /\ Tail(<<"persist">>) = <<>>
  /\ Tail(<<"undo">>) = <<>>
<1> DEFINE full == <<"check_unique", "save", "persist">>
           rest == <<"save", "persist">>
<1>1. full \in Seq(Statements) /\ rest \in Seq(Statements) /\ <<"persist">> \in Seq(Statements)
  BY DEF Statements
<1>2. Len(full) = 3 /\ Len(rest) = 2 /\ Len(<<"persist">>) = 1
  OBVIOUS
<1>3. \A i \in 1 .. 2 : rest[i] = full[i + 1]
  OBVIOUS
<1>4. \A i \in 1 .. 1 : <<"persist">>[i] = rest[i + 1]
  OBVIOUS
<1>5. Tail(full) = rest
  BY <1>1, <1>2, <1>3, TailIs
<1>6. Tail(rest) = <<"persist">>
  BY <1>1, <1>2, <1>4, TailIs
<1>7. Tail(<<"persist">>) = <<>> /\ Tail(<<"undo">>) = <<>>
  OBVIOUS
<1> QED
  BY <1>5, <1>6, <1>7

\* Where a creation stands: it saves only what it found free in the state it
\* loaded.
CreateInv(j, statements) ==
    j.op = "create" =>
        \/ statements = <<"check_unique", "save", "persist">>
        \/ statements = <<"save", "persist">> /\ Free(j.state, j)
        \/ statements = <<"persist">>
        \/ statements = <<"undo">>

\* The file, and every state a process holds in memory to save it later, is
\* unique: a save may lose updates, but never combines two states.
IdentityInv ==
    /\ Unique(file)
    /\ \A p \in Procs :
          /\ Unique(job[p].state)
          /\ job[p].op # "import"
          /\ CreateInv(job[p], todo[p])

\* The statement a creation is at tells what it has left to do.
LEMMA CreateAt ==
  ASSUME IdentityInv, NEW p \in Procs, job[p].op = "create"
  PROVE  /\ At(p, "check_unique") => Tail(todo[p]) = <<"save", "persist">>
         /\ At(p, "save") => Tail(todo[p]) = <<"persist">> /\ Free(job[p].state, job[p])
         /\ At(p, "persist") \/ At(p, "undo") => Tail(todo[p]) = <<>>
<1>1. /\ Head(<<"check_unique", "save", "persist">>) = "check_unique"
      /\ Head(<<"save", "persist">>) = "save"
      /\ Head(<<"persist">>) = "persist" /\ Head(<<"undo">>) = "undo"
  OBVIOUS
<1>2. CreateInv(job[p], todo[p])
  BY DEF IdentityInv
<1>3. CASE todo[p] = <<"check_unique", "save", "persist">>
  <2>1. Head(todo[p]) = "check_unique" /\ Tail(todo[p]) = <<"save", "persist">>
    BY <1>1, <1>3, CreateTails
  <2> QED
    BY <2>1 DEF At
<1>4. CASE todo[p] = <<"save", "persist">> /\ Free(job[p].state, job[p])
  <2>1. Head(todo[p]) = "save" /\ Tail(todo[p]) = <<"persist">>
    BY <1>1, <1>4, CreateTails
  <2> QED
    BY <1>4, <2>1 DEF At
<1>5. CASE todo[p] = <<"persist">> \/ todo[p] = <<"undo">>
  <2>1. Head(todo[p]) \in {"persist", "undo"} /\ Tail(todo[p]) = <<>>
    BY <1>1, <1>5, CreateTails
  <2> QED
    BY <2>1 DEF At
<1> QED
  BY <1>2, <1>3, <1>4, <1>5 DEF CreateInv

LEMMA ChangedUnique ==
  ASSUME NEW j \in Jobs, NEW s \in States, Unique(s), j.op # "import",
         j.op = "create" => Free(s, j)
  PROVE  Unique(Changed(j, s))
<1>1. CASE j.op = "create"
  <2>1. Changed(j, s).apps = s.apps \cup {NewApplication(j)}
    BY <1>1 DEF Changed, States
  <2>2. NewApplication(j).id = j.app /\ NewApplication(j).domain = j.domain
    BY DEF NewApplication
  <2> QED
    BY <1>1, <2>1, <2>2 DEF Unique, Free
<1>2. CASE j.op = "delete"
  BY <1>2 DEF Changed, Without, Unique
<1>3. CASE j.op \notin {"create", "delete"}
  <2> DEFINE own == Find(s, j.app)
             new == {Updated(j, a) : a \in own}
  <2>1. Changed(j, s).apps = (s.apps \ own) \cup new
    BY <1>3 DEF Changed, States
  <2>2. \A a \in s.apps : a \in Applications
    BY DEF States
  <2>3. \A b \in new : \E a \in own : b = Updated(j, a) /\ b.id = a.id /\ b.domain = a.domain
    BY <2>2, UpdateTyped DEF Find
  <2>4. \A a, b \in own : a = b
    BY DEF Find, Unique
  <2>5. own \subseteq s.apps
    BY DEF Find
  <2> HIDE DEF own, new
  <2>6. ASSUME NEW a \in (s.apps \ own) \cup new, NEW b \in (s.apps \ own) \cup new,
               a.id = b.id \/ a.domain = b.domain
        PROVE  a = b
    <3>1. CASE a \notin new /\ b \notin new
      BY <2>6, <3>1 DEF Unique
    <3>2. CASE a \in new /\ b \in new
      BY <2>3, <2>4, <3>2
    <3>3. CASE (a \in new /\ b \notin new) \/ (a \notin new /\ b \in new)
      BY <2>3, <2>5, <2>6, <3>3 DEF Unique
    <3> QED
      BY <3>1, <3>2, <3>3
  <2> QED
    BY <2>1, <2>6 DEF Unique
<1> QED
  BY <1>1, <1>2, <1>3

LEMMA UpsertedUnique ==
  ASSUME NEW j \in Jobs, NEW s \in States, Unique(s), NEW status
  PROVE  Unique(Upserted(j, status, s))
  BY DEF Upserted, Unique, States

\* Only process p moves on, to the statements t with the locals j.
LEMMA OneMoves ==
  ASSUME TypeOK, IdentityInv, Unique(file'), NEW p \in Procs, NEW j, NEW t,
         job' = [job EXCEPT ![p] = j], todo' = [todo EXCEPT ![p] = t],
         Unique(j.state), j.op # "import", CreateInv(j, t)
  PROVE  IdentityInv'
<1>1. ASSUME NEW q \in Procs
      PROVE  Unique(job'[q].state) /\ job'[q].op # "import" /\ CreateInv(job'[q], todo'[q])
  <2>1. CASE q = p
    BY <2>1 DEF TypeOK
  <2>2. CASE q # p
    BY <2>2 DEF TypeOK, IdentityInv
  <2> QED
    BY <2>1, <2>2
<1> QED
  BY <1>1 DEF IdentityInv

LEMMA NoJobIdentity ==
  Unique(NoJob.state) /\ NoJob.op # "import" /\ \A t : CreateInv(NoJob, t)
  BY DEF NoJob, Empty, Unique, CreateInv

LEMMA FailKeepsIdentity ==
  ASSUME TypeOK, IdentityInv, Unique(file'), NEW p \in Procs, Fail(p)
  PROVE  IdentityInv'
  BY OneMoves, NoJobIdentity DEF Fail

\* A handler goes on: what it holds is unique, and it is not a creation or one
\* that has reached the next of its statements.
LEMMA ProceedKeepsIdentity ==
  ASSUME TypeOK, IdentityInv, Unique(file'), NEW p \in Procs, NEW j, Proceed(p, j),
         Unique(j.state), j.op # "import", CreateInv(j, Tail(todo[p]))
  PROVE  IdentityInv'
<1>1. todo' = [todo EXCEPT ![p] = Tail(todo[p])]
  BY DEF Proceed
<1>2. CASE Tail(todo[p]) = <<>>
  <2>1. job' = [job EXCEPT ![p] = NoJob]
    BY <1>2 DEF Proceed
  <2>2. \A t : CreateInv(NoJob, t)
    BY NoJobIdentity
  <2> QED
    BY <1>1, <2>1, <2>2, OneMoves, NoJobIdentity
<1>3. CASE Tail(todo[p]) # <<>>
  BY <1>1, <1>3, OneMoves DEF Proceed
<1> QED
  BY <1>2, <1>3

CreateStatements == {"check_unique", "save", "persist", "undo"}

LEMMA NotACreation ==
  ASSUME IdentityInv, NEW p \in Procs, NEW s, At(p, s), s \notin CreateStatements
  PROVE  /\ job[p].op # "create"
         /\ \A j, t : j.op = job[p].op => CreateInv(j, t)
  BY DEF IdentityInv, CreateInv, At, CreateStatements

\* A statement that writes neither the file nor the state in memory.
LEMMA PassingStatement ==
  ASSUME TypeOK, IdentityInv, NEW p \in Procs, NEW s, At(p, s),
         s \notin CreateStatements, UNCHANGED file,
         \/ Fail(p)
         \/ \E j : /\ Proceed(p, j) /\ j.op = job[p].op
                 /\ j.state \in {file, job[p].state}
  PROVE  IdentityInv'
<1>1. Unique(file) /\ Unique(file') /\ Unique(job[p].state) /\ job[p].op # "import"
  BY DEF IdentityInv, Unique
<1>2. CASE Fail(p)
  BY <1>1, <1>2, FailKeepsIdentity
<1>3. ASSUME NEW j, Proceed(p, j), j.op = job[p].op, j.state \in {file, job[p].state}
      PROVE  IdentityInv'
  <2>1. CreateInv(j, Tail(todo[p]))
    BY <1>3, NotACreation
  <2>2. Unique(j.state)
    BY <1>1, <1>3
  <2> QED
    BY <1>1, <1>3, <2>1, <2>2, ProceedKeepsIdentity
<1> QED
  BY <1>2, <1>3

LEMMA AskKeepsIdentity ==
  ASSUME TypeOK, IdentityInv, "import" \notin Requests, NEW p \in Procs, Ask(p)
  PROVE  IdentityInv'
<1>1. PICK j \in Asked :
        /\ job' = [job EXCEPT ![p] = [j EXCEPT !.id = IF j.op \in Releasing THEN issued + 1 ELSE 0]]
        /\ todo' = [todo EXCEPT ![p] = Handlers[j.op]]
  BY DEF Ask
<1>2. j \in [op: Requests, app: Apps, domain: Domains, name: Names, ref: References,
             set: {{}, Portable}, id: {0}, state: {Empty}, preexisted: {FALSE}]
  BY DEF Asked
<1> DEFINE k == [j EXCEPT !.id = IF j.op \in Releasing THEN issued + 1 ELSE 0]
<1>3. k.op = j.op /\ k.state = Empty /\ j.op \in Requests
  BY <1>2
<1>4. Unique(k.state)
  BY <1>3 DEF Empty, Unique
<1>5. k.op = "create" => Handlers[j.op] = <<"check_unique", "save", "persist">>
  BY <1>3 DEF Handlers, Create
<1>6. CreateInv(k, Handlers[j.op])
  BY <1>5 DEF CreateInv
<1>7. job' = [job EXCEPT ![p] = k]
  BY <1>1
<1>8. Unique(file')
  BY DEF Ask, IdentityInv, Unique
<1> HIDE DEF k
<1> QED
  BY <1>1, <1>3, <1>4, <1>6, <1>7, <1>8, OneMoves

LEMMA CheckUniqueKeepsIdentity ==
  ASSUME TypeOK, IdentityInv, NEW p \in Procs, CheckUnique(p)
  PROVE  IdentityInv'
<1> DEFINE j == [Loaded(p) EXCEPT !.preexisted = job[p].app \in roots]
<1>1. Unique(file) /\ Unique(file')
  BY DEF CheckUnique, IdentityInv, Unique
<1>2. job[p] \in Jobs
  BY DEF TypeOK
<1>3. j.op = job[p].op /\ j.app = job[p].app /\ j.domain = job[p].domain /\ j.state = file
  BY <1>2 DEF Loaded, Jobs
<1>4. CASE ~Free(file, job[p])
  BY <1>1, <1>4, FailKeepsIdentity DEF CheckUnique, GoOnIf
<1>5. CASE Free(file, job[p])
  <2>1. Proceed(p, j)
    BY <1>5 DEF CheckUnique, GoOnIf
  <2>2. job[p].op = "create" => Tail(todo[p]) = <<"save", "persist">>
    BY CreateAt DEF CheckUnique
  <2>3. Free(file, j)
    BY <1>3, <1>5 DEF Free
  <2>4. CreateInv(j, Tail(todo[p]))
    BY <1>3, <2>2, <2>3 DEF CreateInv
  <2>5. j.op # "import" /\ Unique(j.state)
    BY <1>1, <1>3 DEF IdentityInv
  <2> HIDE DEF j
  <2> QED
    BY <1>1, <2>1, <2>4, <2>5, ProceedKeepsIdentity
<1> QED
  BY <1>4, <1>5

LEMMA SaveKeepsIdentity ==
  ASSUME TypeOK, IdentityInv, NEW p \in Procs, Save(p)
  PROVE  IdentityInv'
<1>1. job[p] \in Jobs /\ job[p].state \in States
  BY DEF TypeOK, Jobs
<1>2. Unique(job[p].state) /\ job[p].op # "import"
  BY DEF IdentityInv
<1>3. job[p].op = "create" => /\ Tail(todo[p]) = <<"persist">>
                              /\ Free(job[p].state, job[p])
  BY CreateAt DEF Save
<1>4. Unique(file')
  BY <1>1, <1>2, <1>3, ChangedUnique DEF Save
<1>5. CreateInv(job[p], Tail(todo[p]))
  BY <1>3 DEF CreateInv
<1> QED
  BY <1>2, <1>4, <1>5, ProceedKeepsIdentity DEF Save

LEMMA PersistKeepsIdentity ==
  ASSUME TypeOK, IdentityInv, NEW p \in Procs, Persist(p)
  PROVE  IdentityInv'
<1>1. /\ Unique(file) /\ Unique(file') /\ Unique(job[p].state) /\ job[p].op # "import"
  BY DEF Persist, IdentityInv, Unique
<1>2. CASE Proceed(p, job[p])
  <2>1. job[p].op = "create" => Tail(todo[p]) = <<>>
    BY CreateAt DEF Persist
  <2>2. CASE job[p].op = "create"
    <3>1. todo' = [todo EXCEPT ![p] = <<>>] /\ job' = [job EXCEPT ![p] = NoJob]
      BY <1>2, <2>1, <2>2 DEF Proceed
    <3> QED
      BY <1>1, <3>1, FailKeepsIdentity DEF Fail
  <2>3. CASE job[p].op # "create"
    BY <1>1, <1>2, <2>3, ProceedKeepsIdentity DEF CreateInv
  <2> QED
    BY <2>2, <2>3
<1>3. CASE todo' = [todo EXCEPT ![p] = <<"undo">>] /\ UNCHANGED job
  <2>1. CreateInv(job[p], <<"undo">>)
    BY DEF CreateInv
  <2>2. job' = [job EXCEPT ![p] = job[p]]
    BY <1>3 DEF TypeOK
  <2> QED
    BY <1>1, <1>3, <2>1, <2>2, OneMoves
<1> QED
  BY <1>2, <1>3 DEF Persist

LEMMA UndoKeepsIdentity ==
  ASSUME TypeOK, IdentityInv, NEW p \in Procs, Undo(p)
  PROVE  IdentityInv'
<1>1. Unique(file') /\ Unique(job[p].state) /\ job[p].op # "import"
  BY DEF Undo, IdentityInv
<1>2. job[p].op = "create" => Tail(todo[p]) = <<>>
  BY CreateAt DEF Undo
<1>3. CASE job[p].op = "create"
  <2>1. todo' = [todo EXCEPT ![p] = <<>>] /\ job' = [job EXCEPT ![p] = NoJob]
    BY <1>2, <1>3 DEF Undo, Proceed
  <2> QED
    BY <1>1, <2>1, FailKeepsIdentity DEF Fail
<1>4. CASE job[p].op # "create"
  <2>1. CreateInv(job[p], Tail(todo[p]))
    BY <1>4 DEF CreateInv
  <2> QED
    BY <1>1, <2>1, ProceedKeepsIdentity DEF Undo
<1> QED
  BY <1>3, <1>4

LEMMA RecordKeepsIdentity ==
  ASSUME TypeOK, IdentityInv, NEW p \in Procs, Record(p)
  PROVE  IdentityInv'
<1>1. job[p] \in Jobs /\ job[p].state \in States
  BY DEF TypeOK, Jobs
<1>2. Unique(job[p].state) /\ job[p].op # "import"
  BY DEF IdentityInv
<1>3. Unique(file')
  BY <1>1, <1>2, UpsertedUnique DEF Record
<1>4. PICK s \in Statuses : At(p, s)
  BY DEF Record
<1>5. CreateInv(job[p], Tail(todo[p]))
  BY <1>4, NotACreation DEF CreateStatements, Statuses
<1> QED
  BY <1>2, <1>3, <1>5, ProceedKeepsIdentity DEF Record

LEMMA PassingKeepsIdentity ==
  ASSUME TypeOK, IdentityInv, NEW p \in Procs,
         \/ Inspect(p) \/ InspectName(p) \/ InspectDeployment(p) \/ HostWork(p) \/ SecretExists(p)
         \/ PutSecret(p) \/ RemoveSecret(p) \/ Load(p) \/ Trash(p) \/ Lock(p)
  PROVE  IdentityInv'
<1>1. job[p] \in Jobs
  BY DEF TypeOK
<1>2. /\ Loaded(p).op = job[p].op /\ Loaded(p).state = file
      /\ \A r : LET j == [job[p] EXCEPT !.ref = r]
               IN  j.op = job[p].op /\ j.state = job[p].state
      /\ \A d : LET j == [job[p] EXCEPT !.id = d]
               IN  j.op = job[p].op /\ j.state = job[p].state
  BY <1>1 DEF Loaded, Jobs
<1>3. CASE Inspect(p)
  BY <1>3, PassingStatement DEF Inspect, GoOnIf, CreateStatements
<1>4. CASE InspectName(p)
  BY <1>2, <1>4, PassingStatement DEF InspectName, CreateStatements
<1>5. CASE HostWork(p) \/ SecretExists(p) \/ PutSecret(p) \/ RemoveSecret(p)
  BY <1>5, PassingStatement
     DEF HostWork, SecretExists, PutSecret, RemoveSecret, GoOnIf, CreateStatements
<1>6. CASE Load(p)
  BY <1>2, <1>6, PassingStatement DEF Load, GoOnIf, CreateStatements
<1>7. CASE Trash(p) \/ Lock(p)
  BY <1>7, PassingStatement DEF Trash, Lock, CreateStatements
<1>8. CASE InspectDeployment(p)
  BY <1>2, <1>8, PassingStatement DEF InspectDeployment, GoOnIf, CreateStatements
<1> QED
  BY <1>3, <1>4, <1>5, <1>6, <1>7, <1>8

\* Creating, configuring, deleting and deploying, interleaved in any way and
\* cut short anywhere, never leave two applications with one identifier or
\* domain in applications.json.
THEOREM IdentityStaysUnique ==
  ASSUME "import" \notin Requests PROVE Spec => []UniqueIdentity
<1>1. Init => IdentityInv
  BY NoJobIdentity DEF Init, IdentityInv, Empty, Unique
<1>2. TypeOK /\ IdentityInv /\ [Next]_vars => IdentityInv'
  <2> SUFFICES ASSUME TypeOK, IdentityInv, [Next]_vars PROVE IdentityInv'
    OBVIOUS
  <2>1. CASE UNCHANGED vars
    BY <2>1 DEF IdentityInv, vars, Unique
  <2>2. ASSUME NEW p \in Procs, Ask(p) PROVE IdentityInv'
    BY <2>2, AskKeepsIdentity
  <2>3. ASSUME NEW p \in Procs, Step(p) PROVE IdentityInv'
    BY <2>3, CheckUniqueKeepsIdentity, SaveKeepsIdentity, PersistKeepsIdentity,
       UndoKeepsIdentity, RecordKeepsIdentity, PassingKeepsIdentity DEF Step
  <2>4. ASSUME NEW p \in Procs, Crash(p) PROVE IdentityInv'
    <3>1. Unique(file')
      BY <2>4 DEF Crash, IdentityInv, Unique
    <3> QED
      BY <2>4, <3>1, FailKeepsIdentity DEF Crash
  <2> QED
    BY <2>1, <2>2, <2>3, <2>4 DEF Next
<1>3. IdentityInv => UniqueIdentity
  BY DEF IdentityInv, UniqueIdentity
<1>4. Spec => []TypeOK
  BY TypeCorrect
<1> QED
  BY <1>1, <1>2, <1>3, <1>4, PTL DEF Spec
-----------------------------------------------------------------------------
(* Upserts run one at a time. *)

Guarding == Statuses \cup {"load"}

\* A record is written right after a load, and that load right after the lock
\* was taken.
Ordered(s) ==
    \A i \in 2 .. Len(s) :
        /\ s[i] \in Statuses => s[i - 1] = "load"
        /\ s[i] = "load" => s[i - 1] = "lock"

UnderLock(s) == s # <<>> /\ Head(s) \in Guarding

\* Who is between load and record holds the lock.
LockInv ==
    \A p \in Procs : Ordered(todo[p]) /\ (UnderLock(todo[p]) => lock = p)

LEMMA ConcatOrdered ==
  ASSUME NEW s \in Seq(Statements), NEW t \in Seq(Statements), s # <<>>,
         Ordered(s), Ordered(t), ~UnderLock(s), ~UnderLock(t)
  PROVE  s \o t \in Seq(Statements) /\ s \o t # <<>> /\ Ordered(s \o t) /\ ~UnderLock(s \o t)
<1> DEFINE c == s \o t
<1>1. /\ c \in Seq(Statements) /\ Len(c) = Len(s) + Len(t)
      /\ \A i \in 1 .. Len(c) : c[i] = IF i <= Len(s) THEN s[i] ELSE t[i - Len(s)]
  BY ConcatProperties
<1>2. Len(s) \in Nat \ {0} /\ Len(t) \in Nat
  OBVIOUS
<1>3. t # <<>> => t[1] \notin Guarding
  BY DEF UnderLock
<1> HIDE DEF c
<1>4. ASSUME NEW i \in 2 .. Len(c)
      PROVE  /\ c[i] \in Statuses => c[i - 1] = "load"
             /\ c[i] = "load" => c[i - 1] = "lock"
  <2>1. CASE i <= Len(s)
    <3>1. /\ i \in 1 .. Len(c) /\ i - 1 \in 1 .. Len(c)
          /\ i \in 2 .. Len(s) /\ i - 1 <= Len(s)
      BY <1>1, <1>2, <2>1
    <3>2. /\ s[i] \in Statuses => s[i - 1] = "load"
          /\ s[i] = "load" => s[i - 1] = "lock"
      BY <3>1 DEF Ordered
    <3>3. c[i] = s[i] /\ c[i - 1] = s[i - 1]
      BY <1>1, <2>1, <3>1
    <3> QED
      BY <3>2, <3>3
  <2>2. CASE i = Len(s) + 1
    <3>1. c[i] = t[1] /\ t # <<>>
      BY <1>1, <1>2, <2>2
    <3> QED
      BY <1>3, <3>1 DEF Guarding
  <2>3. CASE i > Len(s) + 1
    <3>1. c[i] = t[i - Len(s)]
      BY <1>1, <1>2, <2>3
    <3>2. c[i - 1] = t[(i - Len(s)) - 1]
      <4>1. i - 1 \in 1 .. Len(c) /\ ~(i - 1 <= Len(s))
        BY <1>1, <1>2, <2>3
      <4>2. c[i - 1] = t[(i - 1) - Len(s)]
        BY <1>1, <4>1
      <4>3. (i - 1) - Len(s) = (i - Len(s)) - 1
        BY <1>2
      <4> QED
        BY <4>2, <4>3
    <3>3. i - Len(s) \in 2 .. Len(t)
      BY <1>1, <1>2, <2>3
    <3>4. /\ t[i - Len(s)] \in Statuses => t[(i - Len(s)) - 1] = "load"
          /\ t[i - Len(s)] = "load" => t[(i - Len(s)) - 1] = "lock"
      BY <3>3 DEF Ordered
    <3> QED
      BY <3>1, <3>2, <3>4
  <2> QED
    BY <1>1, <1>2, <2>1, <2>2, <2>3
<1>5. Ordered(c)
  BY <1>4 DEF Ordered
<1>6. c # <<>> /\ Head(c) = Head(s)
  BY <1>1, <1>2
<1>7. ~UnderLock(c)
  BY <1>6 DEF UnderLock
<1> QED
  BY <1>1, <1>5, <1>6, <1>7 DEF c

LEMMA UpsertOrdered ==
  ASSUME NEW s \in Statuses
  PROVE  /\ UpsertDeployment(s) \in Seq(Statements) /\ UpsertDeployment(s) # <<>>
         /\ Ordered(UpsertDeployment(s)) /\ ~UnderLock(UpsertDeployment(s))
  BY DEF UpsertDeployment, Statements, Statuses, Ordered, UnderLock, Guarding

LEMMA HandlersOrdered ==
  \A op \in Operations : Ordered(Handlers[op]) /\ ~UnderLock(Handlers[op])
<1> DEFINE Good(s) == s \in Seq(Statements) /\ s # <<>> /\ Ordered(s) /\ ~UnderLock(s)
<1>1. \A s \in Statuses : Good(UpsertDeployment(s))
  BY UpsertOrdered
<1>2. /\ Good(<<"inspect_repository">>) /\ Good(<<"inspect_started">>)
      /\ Good(<<"inspect_completed", "host">>) /\ Good(<<"secret_exists">>)
      /\ Good(SetHealth) /\ Good(Apply)
  BY DEF SetHealth, Apply, Statements, Statuses, Ordered, UnderLock, Guarding
<1>3. /\ Good(Create) /\ Good(SetRepository) /\ Good(SetHealthCheck) /\ Good(Provision)
      /\ Good(EnableTls) /\ Good(AddProcess) /\ Good(ConfigureDeployment)
      /\ Good(ApplyManifest)
  BY DEF Create, SetRepository, SetHealthCheck, Provision, EnableTls, AddProcess,
         ConfigureDeployment, ApplyManifest, Statements, Statuses, Ordered, UnderLock,
         Guarding
<1>4. /\ Good(AttachService) /\ Good(SetReference) /\ Good(SetSecret)
      /\ Good(RotateSecret) /\ Good(DeleteSecret) /\ Good(Delete)
  BY DEF AttachService, SetReference, SetSecret, RotateSecret, DeleteSecret, Delete,
         Statements, Statuses, Ordered, UnderLock, Guarding
<1>5. \A s, t : Good(s) /\ Good(t) => Good(s \o t)
  BY ConcatOrdered
<1> HIDE DEF Good
<1>6. Good(Deploy) /\ Good(Cancel) /\ Good(Rollback) /\ Good(Import)
  BY <1>1, <1>2, <1>5 DEF Deploy, Cancel, Rollback, Import, Statuses
<1>7. \A op \in Operations : Good(Handlers[op])
  BY <1>3, <1>4, <1>6 DEF Handlers, Operations
<1> QED
  BY <1>7 DEF Good

\* One statement on: the order stays, and only a load or a lock leads to a
\* statement under the lock.
LEMMA TailOrdered ==
  ASSUME NEW s \in Seq(Statements), s # <<>>, Ordered(s)
  PROVE  /\ Ordered(Tail(s))
         /\ UnderLock(Tail(s)) => Head(s) \in {"load", "lock"}
<1>1. /\ Tail(s) \in Seq(Statements) /\ Len(Tail(s)) = Len(s) - 1
      /\ \A i \in 1 .. Len(Tail(s)) : Tail(s)[i] = s[i + 1]
  BY HeadTailProperties
<1>2. Len(s) \in Nat \ {0} /\ Head(s) = s[1]
  OBVIOUS
<1> DEFINE t == Tail(s)
<1> HIDE DEF t
<1>3. ASSUME NEW i \in 2 .. Len(t)
      PROVE  /\ t[i] \in Statuses => t[i - 1] = "load"
             /\ t[i] = "load" => t[i - 1] = "lock"
  <2>1. i + 1 \in 2 .. Len(s) /\ i \in 1 .. Len(t) /\ i - 1 \in 1 .. Len(t)
    BY <1>1, <1>2 DEF t
  <2>2. t[i] = s[i + 1] /\ t[i - 1] = s[i]
    BY <1>1, <2>1 DEF t
  <2>3. /\ s[i + 1] \in Statuses => s[(i + 1) - 1] = "load"
        /\ s[i + 1] = "load" => s[(i + 1) - 1] = "lock"
    BY <2>1 DEF Ordered
  <2>4. (i + 1) - 1 = i
    BY <2>1
  <2> QED
    BY <2>2, <2>3, <2>4
<1>4. ASSUME UnderLock(t) PROVE s[1] \in {"load", "lock"}
  <2>1. t # <<>> /\ t[1] \in Guarding
    BY <1>1, <1>4 DEF UnderLock, t
  <2>2. 2 \in 2 .. Len(s) /\ t[1] = s[2]
    BY <1>1, <1>2, <2>1 DEF t
  <2>3. /\ s[2] \in Statuses => s[2 - 1] = "load"
        /\ s[2] = "load" => s[2 - 1] = "lock"
    BY <2>2 DEF Ordered
  <2>4. 2 - 1 = 1
    OBVIOUS
  <2> QED
    BY <2>1, <2>2, <2>3, <2>4 DEF Guarding
<1> QED
  BY <1>2, <1>3, <1>4 DEF Ordered, t

\* Process p moves on to the statements t; the others keep what they hold.
LEMMA LockMoves ==
  ASSUME TypeOK, LockInv, NEW p \in Procs, NEW t, todo' = [todo EXCEPT ![p] = t],
         Ordered(t), UnderLock(t) => lock' = p,
         \A q \in Procs \ {p} : UnderLock(todo[q]) => lock' = q
  PROVE  LockInv'
<1>1. ASSUME NEW q \in Procs
      PROVE  Ordered(todo'[q]) /\ (UnderLock(todo'[q]) => lock' = q)
  <2>1. CASE q = p
    BY <2>1 DEF TypeOK
  <2>2. CASE q # p
    BY <2>2 DEF TypeOK, LockInv
  <2> QED
    BY <2>1, <2>2
<1> QED
  BY <1>1 DEF LockInv

LEMMA ShortOrdered ==
  /\ Ordered(<<>>) /\ ~UnderLock(<<>>)
  /\ Ordered(<<"undo">>) /\ ~UnderLock(<<"undo">>)
  BY DEF Ordered, UnderLock, Guarding, Statuses

\* A statement that is neither under the lock nor takes it.
LEMMA UnguardedKeepsLock ==
  ASSUME TypeOK, LockInv, NEW p \in Procs, NEW s, At(p, s),
         s \notin Guarding \cup {"lock"}, UNCHANGED lock,
         \/ Fail(p) \/ (\E j : Proceed(p, j))
         \/ todo' = [todo EXCEPT ![p] = <<"undo">>]
  PROVE  LockInv'
<1>1. \A q \in Procs \ {p} : UnderLock(todo[q]) => lock' = q
  BY DEF LockInv
<1>2. CASE Fail(p)
  BY <1>1, <1>2, LockMoves, ShortOrdered DEF Fail
<1>3. CASE todo' = [todo EXCEPT ![p] = <<"undo">>]
  BY <1>1, <1>3, LockMoves, ShortOrdered
<1>4. CASE \E j : Proceed(p, j)
  <2>1. todo' = [todo EXCEPT ![p] = Tail(todo[p])]
    BY <1>4 DEF Proceed
  <2>2. todo[p] \in Seq(Statements) /\ todo[p] # <<>> /\ Ordered(todo[p])
    BY DEF TypeOK, LockInv, At
  <2>3. Ordered(Tail(todo[p])) /\ ~UnderLock(Tail(todo[p]))
    BY <2>2, TailOrdered DEF At, Guarding
  <2> QED
    BY <1>1, <2>1, <2>3, LockMoves
<1> QED
  BY <1>2, <1>3, <1>4

LEMMA StepKeepsLock ==
  ASSUME TypeOK, LockInv, NEW p \in Procs, Step(p)
  PROVE  LockInv'
<1>1. /\ todo[p] \in Seq(Statements) /\ Ordered(todo[p])
      /\ \A s : At(p, s) => todo[p] # <<>> /\ Head(todo[p]) = s
  BY DEF TypeOK, LockInv, At
<1>2. CASE Inspect(p) \/ HostWork(p) \/ SecretExists(p)
  BY <1>2, UnguardedKeepsLock
     DEF Inspect, HostWork, SecretExists, GoOnIf, Guarding, Statuses
<1>3. CASE InspectName(p) \/ PutSecret(p) \/ RemoveSecret(p)
  BY <1>3, UnguardedKeepsLock DEF InspectName, PutSecret, RemoveSecret, Guarding, Statuses
<1>4. CASE InspectDeployment(p)
  BY <1>4, UnguardedKeepsLock DEF InspectDeployment, GoOnIf, Guarding, Statuses
<1>5. CASE CheckUnique(p) \/ Trash(p)
  BY <1>5, UnguardedKeepsLock DEF CheckUnique, Trash, GoOnIf, Guarding, Statuses
<1>6. CASE Save(p) \/ Persist(p) \/ Undo(p)
  BY <1>6, UnguardedKeepsLock DEF Save, Persist, Undo, Guarding, Statuses
<1>7. CASE Load(p)
  <2>1. CASE At(p, "find")
    BY <1>1, <1>7, <2>1, UnguardedKeepsLock DEF Load, GoOnIf, Guarding, Statuses
  <2>2. CASE At(p, "load") /\ Proceed(p, Loaded(p))
    <3>1. lock = p /\ lock' = lock
      BY <1>7, <2>2 DEF LockInv, UnderLock, At, Guarding, Load
    <3>2. todo' = [todo EXCEPT ![p] = Tail(todo[p])] /\ Ordered(Tail(todo[p]))
      BY <1>1, <2>2, TailOrdered DEF Proceed
    <3>3. \A q \in Procs \ {p} : UnderLock(todo[q]) => lock' = q
      BY <3>1 DEF LockInv
    <3> QED
      BY <3>1, <3>2, <3>3, LockMoves
  <2> QED
    BY <1>7, <2>1, <2>2 DEF Load
<1>8. CASE Lock(p)
  <2>1. todo' = [todo EXCEPT ![p] = Tail(todo[p])] /\ Ordered(Tail(todo[p]))
    BY <1>1, <1>8, TailOrdered DEF Lock, Proceed
  <2>2. \A q \in Procs \ {p} : ~UnderLock(todo[q])
    BY <1>8, StoreConstants DEF Lock, LockInv
  <2>3. lock' = p
    BY <1>8 DEF Lock
  <2> QED
    BY <2>1, <2>2, <2>3, LockMoves
<1>9. CASE Record(p)
  <2>1. PICK s \in Statuses : At(p, s)
    BY <1>9 DEF Record
  <2>2. lock = p
    BY <2>1 DEF LockInv, UnderLock, At, Guarding
  <2>3. \A q \in Procs \ {p} : ~UnderLock(todo[q])
    BY <2>2 DEF LockInv
  <2>4. /\ todo' = [todo EXCEPT ![p] = Tail(todo[p])]
        /\ Ordered(Tail(todo[p])) /\ ~UnderLock(Tail(todo[p]))
    BY <1>1, <1>9, <2>1, TailOrdered DEF Record, Proceed, Statuses
  <2> QED
    BY <2>3, <2>4, LockMoves
<1> QED
  BY <1>2, <1>3, <1>4, <1>5, <1>6, <1>7, <1>8, <1>9 DEF Step

\* Of any number of deployments, rollbacks and cancellations that record
\* themselves at once, each loads what the one before it saved: no two are
\* about to save.
THEOREM UpsertsOneAtATime == Spec => []UpsertsExclusive
<1>1. Init => LockInv
  BY ShortOrdered DEF Init, LockInv
<1>2. TypeOK /\ LockInv /\ [Next]_vars => LockInv'
  <2> SUFFICES ASSUME TypeOK, LockInv, [Next]_vars PROVE LockInv'
    OBVIOUS
  <2>1. CASE UNCHANGED vars
    BY <2>1 DEF LockInv, vars
  <2>2. ASSUME NEW p \in Procs, Ask(p) PROVE LockInv'
    <3>1. PICK j \in Asked : todo' = [todo EXCEPT ![p] = Handlers[j.op]]
      BY <2>2 DEF Ask
    <3>2. j.op \in Operations
      BY RequestsAssumption DEF Asked
    <3>3. Ordered(Handlers[j.op]) /\ ~UnderLock(Handlers[j.op])
      BY <3>2, HandlersOrdered
    <3>4. \A q \in Procs \ {p} : UnderLock(todo[q]) => lock' = q
      BY <2>2 DEF Ask, LockInv
    <3> QED
      BY <3>1, <3>3, <3>4, LockMoves
  <2>3. ASSUME NEW p \in Procs, Step(p) PROVE LockInv'
    BY <2>3, StepKeepsLock
  <2>4. ASSUME NEW p \in Procs, Crash(p) PROVE LockInv'
    <3>1. \A q \in Procs \ {p} : UnderLock(todo[q]) => lock' = q
      BY <2>4 DEF Crash, LockInv
    <3> QED
      BY <2>4, <3>1, LockMoves, ShortOrdered DEF Crash, Fail
  <2> QED
    BY <2>1, <2>2, <2>3, <2>4 DEF Next
<1>3. LockInv => UpsertsExclusive
  <2> SUFFICES ASSUME LockInv, NEW p \in Procs, NEW q \in Procs,
                      NEW s \in Statuses, NEW t \in Statuses, At(p, s), At(q, t)
               PROVE  p = q
    BY DEF UpsertsExclusive
  <2>1. lock = p /\ lock = q
    BY DEF LockInv, UnderLock, At, Guarding
  <2> QED
    BY <2>1
<1>4. Spec => []TypeOK
  BY TypeCorrect
<1> QED
  BY <1>1, <1>2, <1>3, <1>4, PTL DEF Spec

-----------------------------------------------------------------------------
(* One process, whatever fails or kills it: what the file lists resolves.    *)

\* The references and deployments of state s resolve, with the secrets kept.
Whole(s, kept) ==
    /\ \A a \in s.apps, n \in Names :
          a.env[n] = OwnReference(a.id, n) => OwnReference(a.id, n) \in kept
    /\ \A d \in s.deployments : Exists(s, d.app)

\* No two variables have one secret name.
NamesApart ==
    \A a, b \in Apps, m, n \in Names : OwnReference(a, m) = OwnReference(b, n) => a = b /\ m = n

Recording == {"deploy", "cancel", "rollback"}
Inspections == {"inspect_repository", "inspect_started", "inspect_completed"}
Placing == {"set_secret", "set_reference"}
DeleteLeft == {<<"find", "trash", "save">>, <<"trash", "save">>, <<"save">>, <<>>}

\* Statements that only some operations have
Belongs(op, x) ==
    /\ x \in {"check_unique", "persist", "undo"} => op = "create"
    /\ op = "create" => x \in CreateStatements
    /\ x = "trash" => op = "delete"
    /\ x \in {"inspect_name", "remove_secret"} => op = "delete_secret"
    /\ x \in Statuses \cup {"inspect_started", "inspect_completed"} => op \in Recording

\* Statement y may come right after statement x.
Succeeds(op, x, y) ==
    /\ y = "save" => x \in {"find", "check_unique", "trash"}
    /\ y = "trash" => x = "find"
    /\ y \in Statuses => x = "load"
    /\ y \in {"remove_secret", "persist"} => x = "save"
    /\ op \in Placing => (y = "find" => x = "secret_exists")
    /\ y \notin Inspections \cup {"undo"}

Fits(op, t) ==
    /\ \A i \in 1 .. Len(t) : Belongs(op, t[i])
    /\ \A i \in 2 .. Len(t) : Succeeds(op, t[i - 1], t[i])
    /\ op = "delete" => t \in DeleteLeft

\* A handler with locals j may execute statement x: what it loaded is still the
\* file when it saves, what it looked up is still there, and an undone creation
\* goes back to a whole state.
Ready(j, x, s, kept, there, died) ==
    /\ x \in {"save", "trash"} \cup Statuses => j.state = s
    /\ (j.op = "import" /\ x # "secret_exists") \/ (j.op \in Placing /\ x \in {"find", "save"})
          => j.ref \in kept
    /\ j.op \in Recording /\ x \notin Inspections => Exists(s, j.app)
    /\ j.op = "create" /\ x # "check_unique" =>
          /\ Whole(j.state, kept) /\ j.app \in there
          /\ \A a \in j.state.apps : a.id # j.app /\ (died = 0 => a.id \in there)
    /\ x = "remove_secret" => \A a \in Find(s, j.app) : a.env[j.name] = NoRef

\* An application has its directory, or is being deleted.
Housed(j, t, s, there, died) ==
    died = 0 => \A a \in s.apps :
        a.id \in there \/ (j.op = "delete" /\ t = <<"save">> /\ a.id = j.app)

SoleInv(p) ==
    /\ \A q \in Procs \ {p} : todo[q] = <<>>
    /\ Whole(file, secrets)
    /\ Fits(job[p].op, todo[p])
    /\ todo[p] # <<>> => Ready(job[p], Head(todo[p]), file, secrets, roots, crashes)
    /\ Housed(job[p], todo[p], file, roots, crashes)

-----------------------------------------------------------------------------
(* What handlers are made of                                                 *)

\* The parts of a handler fit one after the other.
Part(op, t) ==
    /\ t \in Seq(Statements) /\ t # <<>>
    /\ \A i \in 1 .. Len(t) : Belongs(op, t[i])
    /\ \A i \in 2 .. Len(t) : Succeeds(op, t[i - 1], t[i])

\* A handler begins with nothing that has to be ready.
Opens(op, x) ==
    /\ x \notin {"save", "trash", "remove_secret", "undo"} \cup Statuses
    /\ op = "create" => x = "check_unique"
    /\ op \in Recording => x \in Inspections
    /\ op = "import" => x = "secret_exists"
    /\ op \in Placing => x # "find"

\* The beginning of a handler
Begun(op, t) == Part(op, t) /\ Opens(op, t[1])

LEMMA PartsJoin ==
  ASSUME NEW op, NEW s, NEW t, Begun(op, s), Part(op, t), Succeeds(op, s[Len(s)], t[1])
  PROVE  Begun(op, s \o t)
<1> USE DEF Begun
<1> DEFINE c == s \o t
<1>0. s \in Seq(Statements) /\ t \in Seq(Statements)
  BY DEF Part
<1>1. /\ c \in Seq(Statements) /\ Len(c) = Len(s) + Len(t)
      /\ \A i \in 1 .. Len(c) : c[i] = IF i <= Len(s) THEN s[i] ELSE t[i - Len(s)]
  BY <1>0, ConcatProperties
<1>2. Len(s) \in Nat \ {0} /\ Len(t) \in Nat \ {0}
  BY DEF Part
<1> HIDE DEF c
<1>3. ASSUME NEW i \in 1 .. Len(c)
      PROVE  Belongs(op, c[i])
  <2>1. CASE i <= Len(s)
    <3>1. i \in 1 .. Len(s) /\ c[i] = s[i]
      BY <1>1, <1>2, <2>1
    <3> QED BY <3>1 DEF Part
  <2>2. CASE ~(i <= Len(s))
    <3>1. i - Len(s) \in 1 .. Len(t) /\ c[i] = t[i - Len(s)]
      BY <1>1, <1>2, <2>2
    <3> QED BY <3>1 DEF Part
  <2> QED BY <2>1, <2>2
<1>4. ASSUME NEW i \in 2 .. Len(c)
      PROVE  Succeeds(op, c[i - 1], c[i])
  <2>0. i \in 1 .. Len(c) /\ i - 1 \in 1 .. Len(c) /\ i \in Nat
    BY <1>1, <1>2
  <2>1. CASE i <= Len(s)
    <3>1. i \in 2 .. Len(s) /\ c[i] = s[i] /\ c[i - 1] = s[i - 1]
      BY <1>1, <1>2, <2>0, <2>1
    <3> QED BY <3>1 DEF Part
  <2>2. CASE i = Len(s) + 1
    <3>1. c[i] = t[1] /\ c[i - 1] = s[Len(s)]
      BY <1>1, <1>2, <2>0, <2>2
    <3> QED BY <3>1
  <2>3. CASE i > Len(s) + 1
    <3> DEFINE k == i - Len(s)
    <3>1. k \in 2 .. Len(t) /\ (i - 1) - Len(s) = k - 1
      BY <1>1, <1>2, <2>0, <2>3
    <3>2. ~(i <= Len(s)) /\ ~(i - 1 <= Len(s))
      BY <1>2, <2>0, <2>3
    <3>3. c[i] = t[i - Len(s)] /\ c[i - 1] = t[(i - 1) - Len(s)]
      BY <1>1, <2>0, <3>2
    <3>4. c[i] = t[k] /\ c[i - 1] = t[k - 1]
      BY <3>1, <3>3
    <3> HIDE DEF k
    <3> QED BY <3>1, <3>4 DEF Part
  <2> QED BY <1>2, <2>0, <2>1, <2>2, <2>3
<1>5. c # <<>> /\ c[1] = s[1]
  <2>1. 1 \in 1 .. Len(c) /\ 1 <= Len(s)
    BY <1>1, <1>2
  <2> QED BY <1>1, <2>1
<1>6. Begun(op, c)
  BY <1>1, <1>3, <1>4, <1>5 DEF Part
<1> QED BY <1>6 DEF c

LEMMA ReleaseParts ==
  ASSUME NEW op \in Recording
  PROVE  /\ \A s \in Statuses : /\ Part(op, UpsertDeployment(s)) /\ UpsertDeployment(s)[1] = "lock"
                                /\ UpsertDeployment(s)[Len(UpsertDeployment(s))] = s
         /\ Part(op, SetHealth) /\ SetHealth[1] = "find"
<1> USE DEF Part, Belongs, Succeeds, Recording, Inspections, Placing, CreateStatements, Statements
<1>1. ASSUME NEW s \in Statuses
      PROVE  Part(op, UpsertDeployment(s)) /\ UpsertDeployment(s)[1] = "lock"
             /\ UpsertDeployment(s)[Len(UpsertDeployment(s))] = s
  <2> DEFINE u == UpsertDeployment(s)
  <2>1. u \in Seq(Statements) /\ Len(u) = 3 /\ u[1] = "lock" /\ u[2] = "load" /\ u[3] = s
    BY DEF UpsertDeployment
  <2> HIDE DEF u
  <2>2. \A i \in 1 .. Len(u) : Belongs(op, u[i])
    <3>1. ASSUME NEW i \in 1 .. Len(u) PROVE Belongs(op, u[i])
      <4>1. i = 1 \/ i = 2 \/ i = 3
        BY <2>1
      <4> QED BY <2>1, <4>1 DEF Statuses
    <3> QED BY <3>1
  <2>3. \A i \in 2 .. Len(u) : Succeeds(op, u[i - 1], u[i])
    <3>1. ASSUME NEW i \in 2 .. Len(u) PROVE Succeeds(op, u[i - 1], u[i])
      <4>1. (i = 2 /\ i - 1 = 1) \/ (i = 3 /\ i - 1 = 2)
        BY <2>1
      <4> QED BY <2>1, <4>1 DEF Statuses
    <3> QED BY <3>1
  <2>4. u # <<>> /\ u[Len(u)] = s
    BY <2>1
  <2> QED BY <2>1, <2>2, <2>3, <2>4 DEF u
<1>2. Part(op, SetHealth) /\ SetHealth[1] = "find"
  <2>1. /\ SetHealth \in Seq(Statements) /\ Len(SetHealth) = 2 /\ SetHealth[1] = "find"
        /\ SetHealth[2] = "save" /\ SetHealth # <<>>
    BY DEF SetHealth
  <2>2. \A i \in 1 .. 2 : i = 1 \/ i = 2
    OBVIOUS
  <2>3. \A i \in 2 .. 2 : i = 2 /\ i - 1 = 1
    OBVIOUS
  <2>4. /\ \A i \in 1 .. 2 : Belongs(op, SetHealth[i])
        /\ \A i \in 2 .. 2 : Succeeds(op, SetHealth[i - 1], SetHealth[i])
    BY <2>1, <2>2, <2>3 DEF Statuses
  <2> QED BY <2>1, <2>4
<1> QED BY <1>1, <1>2

LEMMA ReleaseJoins ==
  ASSUME NEW op \in Recording, NEW s, NEW t, Begun(op, s), Part(op, t), t[1] \in {"lock", "find"}
  PROVE  Begun(op, s \o t)
<1>1. Succeeds(op, s[Len(s)], t[1])
  BY DEF Succeeds, Recording, Placing, Statuses, Inspections
<1> QED BY <1>1, PartsJoin

\* Every handler fits, and begins with nothing that has to be ready.
LEMMA HandlersFit ==
  \A op \in Operations :
      Fits(op, Handlers[op]) /\ Handlers[op] # <<>> /\ Opens(op, Handlers[op][1])
<1> DEFINE Good(op, t) == Fits(op, t) /\ t # <<>> /\ Opens(op, t[1])
<1> USE DEF Belongs, Succeeds, Recording, Inspections, Placing, CreateStatements, Statuses
<1>1. Good("create", Create)
  <2>1. /\ Len(Create) = 3 /\ Create[1] = "check_unique" /\ Create[2] = "save"
        /\ Create[3] = "persist" /\ Create # <<>>
    BY DEF Create
  <2>2. \A i \in 1 .. 3 : i = 1 \/ i = 2 \/ i = 3
    OBVIOUS
  <2>3. \A i \in 2 .. 3 : (i = 2 /\ i - 1 = 1) \/ (i = 3 /\ i - 1 = 2)
    OBVIOUS
  <2> QED BY <2>1, <2>2, <2>3 DEF Fits, Opens
<1>2. ASSUME NEW op \in Operations \ {"create", "import", "delete"}, NEW t, Len(t) = 2, t # <<>>,
             t[1] = "find", t[2] = "save", op \notin Recording \cup Placing
      PROVE  Good(op, t)
  <2>1. \A i \in 1 .. 2 : i = 1 \/ i = 2
    OBVIOUS
  <2>2. \A i \in 2 .. 2 : i = 2 /\ i - 1 = 1
    OBVIOUS
  <2> QED BY <1>2, <2>1, <2>2 DEF Fits, Opens
<1>3. /\ Good("set_repository", SetRepository) /\ Good("set_health_check", SetHealthCheck)
      /\ Good("attach_service", AttachService)
  <2>1. {"set_repository", "set_health_check", "attach_service"} \subseteq Operations
    BY DEF Operations, Handlers
  <2> QED BY <1>2, <2>1 DEF SetRepository, SetHealthCheck, AttachService
<1>4. ASSUME NEW op \in {"provision", "enable_tls", "add_process"}
      PROVE  Good(op, <<"inspect", "host", "find", "save">>)
  <2>2. \A i \in 1 .. 4 : i = 1 \/ i = 2 \/ i = 3 \/ i = 4
    OBVIOUS
  <2>3. \A i \in 2 .. 4 : (i = 2 /\ i - 1 = 1) \/ (i = 3 /\ i - 1 = 2) \/ (i = 4 /\ i - 1 = 3)
    OBVIOUS
  <2> QED BY <2>2, <2>3 DEF Fits, Opens
<1>5. /\ Good("provision", Provision) /\ Good("enable_tls", EnableTls)
      /\ Good("add_process", AddProcess)
  BY <1>4 DEF Provision, EnableTls, AddProcess
<1>6. Good("configure_deployment", ConfigureDeployment)
  <2>2. \A i \in 1 .. 3 : i = 1 \/ i = 2 \/ i = 3
    OBVIOUS
  <2>3. \A i \in 2 .. 3 : (i = 2 /\ i - 1 = 1) \/ (i = 3 /\ i - 1 = 2)
    OBVIOUS
  <2> QED BY <2>2, <2>3 DEF Fits, Opens, ConfigureDeployment
<1>7. Good("apply_manifest", ApplyManifest)
  <2>2. \A i \in 1 .. 4 : i = 1 \/ i = 2 \/ i = 3 \/ i = 4
    OBVIOUS
  <2>3. \A i \in 2 .. 4 : (i = 2 /\ i - 1 = 1) \/ (i = 3 /\ i - 1 = 2) \/ (i = 4 /\ i - 1 = 3)
    OBVIOUS
  <2> QED BY <2>2, <2>3 DEF Fits, Opens, ApplyManifest
<1>8. Good("set_reference", SetReference)
  <2>2. \A i \in 1 .. 3 : i = 1 \/ i = 2 \/ i = 3
    OBVIOUS
  <2>3. \A i \in 2 .. 3 : (i = 2 /\ i - 1 = 1) \/ (i = 3 /\ i - 1 = 2)
    OBVIOUS
  <2> QED BY <2>2, <2>3 DEF Fits, Opens, SetReference
<1>9. Good("set_secret", SetSecret)
  <2>1. /\ Len(SetSecret) = 5 /\ SetSecret # <<>> /\ SetSecret[1] = "inspect"
        /\ SetSecret[2] = "put_secret" /\ SetSecret[3] = "secret_exists"
        /\ SetSecret[4] = "find" /\ SetSecret[5] = "save"
    BY DEF SetSecret
  <2>2. \A i \in 1 .. 5 : i = 1 \/ i = 2 \/ i = 3 \/ i = 4 \/ i = 5
    OBVIOUS
  <2>3. \A i \in 2 .. 5 : \/ (i = 2 /\ i - 1 = 1) \/ (i = 3 /\ i - 1 = 2)
                          \/ (i = 4 /\ i - 1 = 3) \/ (i = 5 /\ i - 1 = 4)
    OBVIOUS
  <2> QED BY <2>1, <2>2, <2>3 DEF Fits, Opens
<1>10. Good("rotate_secret", RotateSecret)
  <2>2. \A i \in 1 .. 3 : i = 1 \/ i = 2 \/ i = 3
    OBVIOUS
  <2>3. \A i \in 2 .. 3 : (i = 2 /\ i - 1 = 1) \/ (i = 3 /\ i - 1 = 2)
    OBVIOUS
  <2> QED BY <2>2, <2>3 DEF Fits, Opens, RotateSecret
<1>11. Good("delete_secret", DeleteSecret)
  <2>2. \A i \in 1 .. 4 : i = 1 \/ i = 2 \/ i = 3 \/ i = 4
    OBVIOUS
  <2>3. \A i \in 2 .. 4 : (i = 2 /\ i - 1 = 1) \/ (i = 3 /\ i - 1 = 2) \/ (i = 4 /\ i - 1 = 3)
    OBVIOUS
  <2> QED BY <2>2, <2>3 DEF Fits, Opens, DeleteSecret
<1>12. Good("delete", Delete)
  <2>2. \A i \in 1 .. 3 : i = 1 \/ i = 2 \/ i = 3
    OBVIOUS
  <2>3. \A i \in 2 .. 3 : (i = 2 /\ i - 1 = 1) \/ (i = 3 /\ i - 1 = 2)
    OBVIOUS
  <2> QED BY <2>2, <2>3 DEF Fits, Opens, Delete, DeleteLeft
<1>13. ASSUME NEW op, NEW t, Begun(op, t), op # "delete" PROVE Good(op, t)
  BY <1>13 DEF Begun, Part, Fits
<1>14. Good("import", Import)
  <2>1. Begun("import", <<"secret_exists">>)
    <3>1. \A i \in 1 .. 1 : i = 1
      OBVIOUS
    <3>2. \A i \in 2 .. 1 : FALSE
      OBVIOUS
    <3>3. <<"secret_exists">> \in Seq(Statements)
      BY DEF Statements
    <3> QED BY <3>1, <3>2, <3>3 DEF Part, Begun, Opens
  <2>2. Part("import", Apply) /\ Apply[1] = "inspect"
    <3>1. \A i \in 1 .. 4 : i = 1 \/ i = 2 \/ i = 3 \/ i = 4
      OBVIOUS
    <3>2. \A i \in 2 .. 4 : (i = 2 /\ i - 1 = 1) \/ (i = 3 /\ i - 1 = 2) \/ (i = 4 /\ i - 1 = 3)
      OBVIOUS
    <3>3. Apply \in Seq(Statements)
      BY DEF Apply, Statements
    <3> QED BY <3>1, <3>2, <3>3 DEF Part, Apply
  <2>3. <<"secret_exists">>[Len(<<"secret_exists">>)] = "secret_exists"
        /\ <<"secret_exists">>[1] = "secret_exists"
    OBVIOUS
  <2>4. Succeeds("import", <<"secret_exists">>[Len(<<"secret_exists">>)], Apply[1])
    BY <2>2, <2>3
  <2>5. Begun("import", Import)
    BY <2>1, <2>2, <2>3, <2>4, PartsJoin DEF Import
  <2> QED BY <1>13, <2>5
<1>15. ASSUME NEW op \in Recording, NEW x \in Inspections PROVE Begun(op, <<x>>)
  <2>1. \A i \in 1 .. 1 : i = 1
    OBVIOUS
  <2>2. \A i \in 2 .. 1 : FALSE
    OBVIOUS
  <2>3. <<x>> \in Seq(Statements)
    BY DEF Statements
  <2> QED BY <2>1, <2>2, <2>3 DEF Part, Begun, Opens
<1>18. {"deploy", "cancel", "rollback"} = Recording /\ {"started", "completed", "cancelling", "rolled_back"} = Statuses
  OBVIOUS
<1>19. Good("deploy", Deploy)
  <2> DEFINE op == "deploy"
             i == <<"inspect_repository">>
             u == UpsertDeployment("started")
             v == UpsertDeployment("completed")
  <2>0. op \in Recording
    OBVIOUS
  <2>1. Begun(op, i)
    BY <1>15
  <2>2. Part(op, u) /\ u[1] = "lock" /\ Part(op, v) /\ v[1] = "lock" /\ Part(op, SetHealth) /\ SetHealth[1] = "find"
    BY ReleaseParts, <1>18
  <2> HIDE DEF i, u, v, op, Belongs, Succeeds, Recording, Inspections, Placing, CreateStatements, Statuses
  <2>3. Begun(op, i \o u)
    BY ReleaseJoins, <2>0, <2>1, <2>2
  <2>4. Begun(op, (i \o u) \o v)
    BY ReleaseJoins, <2>0, <2>2, <2>3
  <2>5. Begun(op, ((i \o u) \o v) \o SetHealth)
    BY ReleaseJoins, <2>0, <2>2, <2>4
  <2>6. Deploy = ((i \o u) \o v) \o SetHealth
    BY DEF Deploy, i, u, v
  <2> QED BY <1>13, <2>5, <2>6 DEF op
<1>20. Good("cancel", Cancel)
  <2> DEFINE op == "cancel"
             i == <<"inspect_started">>
             u == UpsertDeployment("cancelling")
  <2>0. op \in Recording
    OBVIOUS
  <2>1. Begun(op, i)
    BY <1>15
  <2>2. Part(op, u) /\ u[1] = "lock"
    BY ReleaseParts, <1>18
  <2> HIDE DEF i, u, op, Belongs, Succeeds, Recording, Inspections, Placing, CreateStatements, Statuses
  <2>3. Begun(op, i \o u)
    BY ReleaseJoins, <2>0, <2>1, <2>2
  <2>4. Cancel = i \o u
    BY DEF Cancel, i, u
  <2> QED BY <1>13, <2>3, <2>4 DEF op
<1>21. Good("rollback", Rollback)
  <2> DEFINE op == "rollback"
             i == <<"inspect_completed", "host">>
             u == UpsertDeployment("rolled_back")
  <2>0. op \in Recording
    OBVIOUS
  <2>1. Begun(op, i)
    <3>1. \A k \in 1 .. 2 : k = 1 \/ k = 2
      OBVIOUS
    <3>2. \A k \in 2 .. 2 : k = 2 /\ k - 1 = 1
      OBVIOUS
    <3>3. i \in Seq(Statements)
      BY DEF Statements
    <3> QED BY <3>1, <3>2, <3>3 DEF Part, Begun, Opens
  <2>2. Part(op, u) /\ u[1] = "lock" /\ Part(op, SetHealth) /\ SetHealth[1] = "find"
    BY ReleaseParts, <1>18
  <2> HIDE DEF i, u, op, Belongs, Succeeds, Recording, Inspections, Placing, CreateStatements, Statuses
  <2>3. Begun(op, i \o u)
    BY ReleaseJoins, <2>0, <2>1, <2>2
  <2>4. Begun(op, (i \o u) \o SetHealth)
    BY ReleaseJoins, <2>0, <2>2, <2>3
  <2>5. Rollback = (i \o u) \o SetHealth
    BY DEF Rollback, i, u
  <2> QED BY <1>13, <2>4, <2>5 DEF op
<1> HIDE DEF Good
<1>22. ASSUME NEW op \in Operations PROVE Good(op, Handlers[op])
  BY <1>1, <1>3, <1>5, <1>6, <1>7, <1>8, <1>9, <1>10, <1>11, <1>12, <1>14, <1>19, <1>20, <1>21
     DEF Operations, Handlers
<1> QED BY <1>22 DEF Good

-----------------------------------------------------------------------------
(* How a process moves                                                       *)

LEMMA TailFits ==
  ASSUME NEW op, NEW t \in Seq(Statements), t # <<>>, Fits(op, t)
  PROVE  /\ Belongs(op, Head(t)) /\ Fits(op, Tail(t)) /\ Tail(t) \in Seq(Statements)
         /\ Tail(t) # <<>> => Succeeds(op, Head(t), Head(Tail(t))) /\ Belongs(op, Head(Tail(t)))
         /\ op = "delete" /\ Head(t) = "trash" => Tail(t) = <<"save">>
<1> DEFINE u == Tail(t)
<1>1. /\ u \in Seq(Statements) /\ Len(u) = Len(t) - 1 /\ Len(t) \in Nat \ {0} /\ Head(t) = t[1]
      /\ \A i \in 1 .. Len(u) : u[i] = t[i + 1]
  BY HeadTailProperties
<1>2. u # <<>> => Head(u) = u[1] /\ 1 \in 1 .. Len(u) /\ Len(u) \in Nat
  BY <1>1
<1> HIDE DEF u
<1>3. Belongs(op, Head(t))
  <2>1. 1 \in 1 .. Len(t)
    BY <1>1
  <2> QED BY <1>1, <2>1 DEF Fits
<1>4. ASSUME NEW i \in 1 .. Len(u) PROVE Belongs(op, u[i])
  <2>1. i + 1 \in 1 .. Len(t)
    BY <1>1
  <2> QED BY <1>1, <2>1 DEF Fits
<1>5. ASSUME NEW i \in 2 .. Len(u) PROVE Succeeds(op, u[i - 1], u[i])
  <2>1. i + 1 \in 2 .. Len(t) /\ i \in 1 .. Len(u) /\ i - 1 \in 1 .. Len(u) /\ (i - 1) + 1 = i /\ (i + 1) - 1 = i
    BY <1>1
  <2>2. u[i] = t[i + 1] /\ u[i - 1] = t[i]
    BY <1>1, <2>1
  <2> QED BY <2>1, <2>2 DEF Fits
<1>6. u # <<>> => Succeeds(op, Head(t), Head(u)) /\ Belongs(op, Head(u))
  <2> SUFFICES ASSUME u # <<>> PROVE Succeeds(op, Head(t), Head(u)) /\ Belongs(op, Head(u))
    OBVIOUS
  <2>1. Head(u) = u[1] /\ 1 \in 1 .. Len(u) /\ u[1] = t[2] /\ 2 \in 2 .. Len(t) /\ 2 - 1 = 1
    BY <1>1, <1>2
  <2>2. Succeeds(op, t[2 - 1], t[2])
    BY <2>1 DEF Fits
  <2> QED BY <1>1, <1>4, <2>1, <2>2
<1>7. op = "delete" => u \in DeleteLeft /\ (Head(t) = "trash" => u = <<"save">>)
  <2> DEFINE a == <<"find", "trash", "save">>
             b == <<"trash", "save">>
             c == <<"save">>
  <2>1. a \in Seq(Statements) /\ b \in Seq(Statements) /\ c \in Seq(Statements)
    BY DEF Statements
  <2>2. Len(a) = 3 /\ Len(b) = 2 /\ Len(c) = 1
    OBVIOUS
  <2>3. /\ \A i \in 1 .. 2 : b[i] = a[i + 1]
        /\ \A i \in 1 .. 1 : c[i] = b[i + 1]
    OBVIOUS
  <2>4. Tail(a) = b /\ Tail(b) = c /\ Tail(c) = <<>>
    BY <2>1, <2>2, <2>3, TailIs
  <2>5. Head(a) = "find" /\ Head(b) = "trash" /\ Head(c) = "save"
    OBVIOUS
  <2> HIDE DEF a, b, c
  <2>6. op = "delete" => t = a \/ t = b \/ t = c
    BY DEF Fits, DeleteLeft, a, b, c
  <2>7. DeleteLeft = {a, b, c, <<>>}
    BY DEF DeleteLeft, a, b, c
  <2>8. op = "delete" => u \in DeleteLeft /\ (Head(t) = "trash" => u = c)
    BY <2>4, <2>5, <2>6, <2>7 DEF u
  <2> QED BY <2>8 DEF c
<1>8. Fits(op, u)
  BY <1>4, <1>5, <1>7 DEF Fits
<1> QED BY <1>1, <1>3, <1>6, <1>7, <1>8 DEF u

\* What a handler with locals j may execute after statement x is ready.
NextReady(j, x, s, kept, there, died) ==
    \A y : Succeeds(j.op, x, y) /\ Belongs(j.op, y) => Ready(j, y, s, kept, there, died)

LEMMA FitsEmpty == \A op : Fits(op, <<>>)
<1>1. 1 .. Len(<<>>) = {} /\ 2 .. Len(<<>>) = {}
  OBVIOUS
<1> QED BY <1>1 DEF Fits, DeleteLeft

LEMMA HousedIdle ==
  ASSUME NEW j, NEW s, NEW there, NEW died, Housed(j, <<>>, s, there, died)
  PROVE  \A k, t : Housed(k, t, s, there, died)
<1>1. <<>> # <<"save">>
  OBVIOUS
<1> QED BY <1>1 DEF Housed

LEMMA FailSole ==
  ASSUME TypeOK, NEW p \in Procs, SoleInv(p), Fail(p), Whole(file', secrets'),
         Housed(NoJob, <<>>, file', roots', crashes')
  PROVE  SoleInv(p)'
<1>1. todo'[p] = <<>> /\ job'[p] = NoJob /\ \A q \in Procs \ {p} : todo'[q] = <<>>
  BY DEF Fail, TypeOK, SoleInv
<1>2. Fits(job'[p].op, todo'[p])
  BY <1>1, FitsEmpty
<1> QED BY <1>1, <1>2 DEF SoleInv

LEMMA ProceedSole ==
  ASSUME TypeOK, NEW p \in Procs, SoleInv(p), NEW x, At(p, x), NEW j, Proceed(p, j), j.op = job[p].op,
         Whole(file', secrets'), NextReady(j, x, file', secrets', roots', crashes'),
         Housed(j, Tail(todo[p]), file', roots', crashes')
  PROVE  SoleInv(p)'
<1> DEFINE t == Tail(todo[p])
<1>1. /\ todo[p] \in Seq(Statements) /\ todo[p] # <<>> /\ Head(todo[p]) = x /\ Fits(j.op, todo[p])
  BY DEF At, TypeOK, SoleInv
<1>2. /\ Fits(j.op, t)
      /\ t # <<>> => Succeeds(j.op, x, Head(t)) /\ Belongs(j.op, Head(t))
  BY <1>1, TailFits
<1>3. /\ todo'[p] = t /\ job'[p] = (IF t = <<>> THEN NoJob ELSE j)
      /\ \A q \in Procs \ {p} : todo'[q] = <<>>
  BY DEF Proceed, TypeOK, SoleInv
<1>4. Fits(job'[p].op, todo'[p])
  BY <1>2, <1>3, FitsEmpty
<1>5. t # <<>> => Ready(j, Head(t), file', secrets', roots', crashes')
  BY <1>2 DEF NextReady
<1>6. Housed(job'[p], todo'[p], file', roots', crashes')
  <2>1. CASE t = <<>>
    BY <1>3, <2>1, HousedIdle
  <2>2. CASE t # <<>>
    BY <1>3, <2>2
  <2> QED BY <2>1, <2>2
<1> HIDE DEF t
<1> QED BY <1>3, <1>4, <1>5, <1>6 DEF SoleInv

\* A statement that leaves the file leaves the next one ready.
LEMMA SteadyReady ==
  ASSUME NEW i, NEW x, NEW s, NEW kept, NEW there, NEW died, Ready(i, x, s, kept, there, died),
         Belongs(i.op, x), x \notin {"check_unique", "save"},
         NEW j, j.op = i.op, j.app = i.app, j.ref = i.ref \/ x = "inspect_name",
         j.state = IF x \in {"find", "load"} THEN s ELSE i.state,
         x = "secret_exists" => j.ref \in kept,
         x \in Inspections => Exists(s, j.app),
         NEW more, kept \subseteq more, NEW here, there \subseteq here \/ i.op = "delete"
  PROVE  NextReady(j, x, s, more, here, died)
<1> SUFFICES ASSUME NEW y, Succeeds(j.op, x, y), Belongs(j.op, y)
             PROVE  Ready(j, y, s, more, here, died)
  BY DEF NextReady
<1>1. y \in {"save", "trash"} \cup Statuses => j.state = s
  BY DEF Ready, Succeeds
<1>2. (j.op = "import" /\ y # "secret_exists") \/ (j.op \in Placing /\ y \in {"find", "save"}) => j.ref \in more
  <2>1. CASE x = "secret_exists"
    BY <2>1
  <2>2. CASE x = "inspect_name"
    BY <2>2 DEF Belongs, Placing
  <2>3. CASE x \notin {"secret_exists", "inspect_name"}
    BY <2>3 DEF Ready, Succeeds, Belongs, Placing, CreateStatements
  <2> QED BY <2>1, <2>2, <2>3
<1>3. j.op \in Recording /\ y \notin Inspections => Exists(s, j.app)
  BY DEF Ready
<1>4. j.op = "create" /\ y # "check_unique" =>
          /\ Whole(j.state, more) /\ j.app \in here
          /\ \A a \in j.state.apps : a.id # j.app /\ (died = 0 => a.id \in here)
  <2> SUFFICES ASSUME j.op = "create" PROVE
          /\ Whole(j.state, more) /\ j.app \in here
          /\ \A a \in j.state.apps : a.id # j.app /\ (died = 0 => a.id \in here)
    OBVIOUS
  <2>1. /\ Whole(i.state, kept) /\ i.app \in there
        /\ \A a \in i.state.apps : a.id # i.app /\ (died = 0 => a.id \in there)
    BY DEF Ready
  <2>2. x \notin {"find", "load"}
    BY DEF Belongs, CreateStatements
  <2>3. there \subseteq here /\ j.state = i.state
    BY <2>2
  <2> QED BY <2>1, <2>3 DEF Whole
<1>5. y = "remove_secret" => FALSE
  BY DEF Succeeds
<1> QED BY <1>1, <1>2, <1>3, <1>4, <1>5 DEF Ready

\* What is known of the statement a process is at.
LEMMA AtGives ==
  ASSUME TypeOK, NEW p \in Procs, SoleInv(p), NEW x, At(p, x)
  PROVE  /\ job[p] \in Jobs /\ file \in States /\ todo[p] # <<>> /\ Head(todo[p]) = x
         /\ job[p].app \in Apps /\ job[p].name \in Names /\ job[p].state \in States /\ job[p].ref \in References
         /\ Belongs(job[p].op, x) /\ Ready(job[p], x, file, secrets, roots, crashes)
         /\ Whole(file, secrets) /\ Housed(job[p], todo[p], file, roots, crashes)
         /\ x # "save" => \A k, t : Housed(k, t, file, roots, crashes)
         /\ job[p].op = "delete" /\ x = "trash" => Tail(todo[p]) = <<"save">>
<1>1. /\ todo[p] \in Seq(Statements) /\ todo[p] # <<>> /\ Head(todo[p]) = x /\ Fits(job[p].op, todo[p])
      /\ job[p] \in Jobs /\ file \in States
  BY DEF At, TypeOK, SoleInv
<1>2. x # "save" => todo[p] # <<"save">>
  BY <1>1
<1>3. Housed(job[p], todo[p], file, roots, crashes)
  BY DEF SoleInv
<1>4. x # "save" => \A k, t : Housed(k, t, file, roots, crashes)
  BY <1>2, <1>3 DEF Housed
<1> QED BY <1>1, <1>3, <1>4, TailFits DEF SoleInv, Jobs

LEMMA SteadySole ==
  ASSUME TypeOK, NEW p \in Procs, SoleInv(p), NEW x, At(p, x), x \notin {"check_unique", "save", "trash"},
         NEW j, Proceed(p, j), j.op = job[p].op, j.app = job[p].app, j.ref = job[p].ref \/ x = "inspect_name",
         j.state = IF x \in {"find", "load"} THEN file ELSE job[p].state,
         x = "secret_exists" => j.ref \in secrets, x \in Inspections => Exists(file, j.app),
         file' = file, roots' = roots, crashes' = crashes, secrets \subseteq secrets'
  PROVE  SoleInv(p)'
<1>1. /\ Belongs(job[p].op, x) /\ Ready(job[p], x, file, secrets, roots, crashes)
      /\ Whole(file, secrets) /\ \A k, t : Housed(k, t, file, roots, crashes)
  BY AtGives
<1>2. NextReady(j, x, file, secrets', roots, crashes)
  <2>1. /\ x \notin {"check_unique", "save"} /\ roots \subseteq roots
        /\ x = "secret_exists" => j.ref \in secrets
    OBVIOUS
  <2> QED BY <1>1, <2>1, SteadyReady
<1>3. Whole(file', secrets')
  BY <1>1 DEF Whole
<1> QED BY <1>1, <1>2, <1>3, ProceedSole

LEMMA SteadyFails ==
  ASSUME TypeOK, NEW p \in Procs, SoleInv(p), NEW x, At(p, x), x # "save", Fail(p),
         file' = file, roots' = roots, crashes' = crashes, secrets' = secrets
  PROVE  SoleInv(p)'
<1>1. Whole(file', secrets') /\ Housed(NoJob, <<>>, file', roots', crashes')
  BY AtGives
<1> QED BY <1>1, FailSole

\* The locals of a handler, by what a statement sets of them.
LEMMA LocalsAre ==
  ASSUME TypeOK, NEW p \in Procs
  PROVE  /\ /\ Loaded(p).op = job[p].op /\ Loaded(p).app = job[p].app /\ Loaded(p).ref = job[p].ref
            /\ Loaded(p).state = file
         /\ \A r : LET j == [job[p] EXCEPT !.ref = r]
                   IN  j.op = job[p].op /\ j.app = job[p].app /\ j.state = job[p].state
         /\ \A d : LET j == [job[p] EXCEPT !.id = d]
                   IN  j.op = job[p].op /\ j.app = job[p].app /\ j.state = job[p].state /\ j.ref = job[p].ref
         /\ \A b : LET j == [Loaded(p) EXCEPT !.preexisted = b]
                   IN  j.op = job[p].op /\ j.app = job[p].app /\ j.state = file
<1>1. job[p] \in Jobs
  BY DEF TypeOK
<1> QED BY <1>1 DEF Loaded, Jobs

LEMMA LooksSole ==
  ASSUME TypeOK, NEW p \in Procs, SoleInv(p),
         \/ Inspect(p) \/ InspectName(p) \/ InspectDeployment(p) \/ HostWork(p) \/ SecretExists(p)
         \/ PutSecret(p) \/ Load(p) \/ Lock(p)
  PROVE  SoleInv(p)'
<1> USE DEF Inspections, host
<1>0. file \in States
  BY DEF TypeOK
<1>1. CASE Inspect(p)
  <2>0. file' = file /\ roots' = roots /\ secrets' = secrets /\ crashes' = crashes
    BY <1>1 DEF Inspect
  <2>1. PICK x \in {"inspect", "inspect_repository", "inspect_own", "domain_free"} :
            /\ At(p, x) /\ (Proceed(p, job[p]) \/ Fail(p))
            /\ x = "inspect_repository" => (Fail(p) \/ Exists(file, job[p].app))
    <3>1. (\E a \in Find(file, job[p].app) : "repository" \in a.set) => Exists(file, job[p].app)
      BY DEF Exists
    <3> QED BY <1>1, <3>1 DEF Inspect, GoOnIf
  <2>2. CASE Fail(p)
    BY <2>0, <2>1, <2>2, SteadyFails
  <2>3. CASE ~Fail(p)
    BY <2>0, <2>1, <2>3, SteadySole
  <2> QED BY <2>2, <2>3
<1>2. CASE InspectName(p)
  <2>0. /\ file' = file /\ roots' = roots /\ secrets' = secrets /\ crashes' = crashes
        /\ At(p, "inspect_name")
    BY <1>2 DEF InspectName
  <2>1. CASE Fail(p)
    BY <2>0, <2>1, SteadyFails
  <2>2. CASE ~Fail(p)
    <3>1. PICK r : Proceed(p, [job[p] EXCEPT !.ref = r])
      BY <1>2, <2>2 DEF InspectName
    <3> DEFINE j == [job[p] EXCEPT !.ref = r]
    <3>2. j.op = job[p].op /\ j.app = job[p].app /\ j.state = job[p].state /\ Proceed(p, j)
      BY <3>1, LocalsAre
    <3> HIDE DEF j
    <3> QED BY <2>0, <3>2, SteadySole
  <2> QED BY <2>1, <2>2
<1>3. CASE InspectDeployment(p)
  <2>0. file' = file /\ roots' = roots /\ secrets' = secrets /\ crashes' = crashes
    BY <1>3 DEF InspectDeployment
  <2>1. \A d \in file.deployments : d.app = job[p].app => Exists(file, job[p].app)
    BY DEF SoleInv, Whole
  <2>2. CASE At(p, "inspect_started") /\ Fail(p)
    BY <2>0, <2>2, SteadyFails
  <2>3. CASE At(p, "inspect_started") /\ ~Fail(p)
    <3>1. PICK d \in file.deployments : d.app = job[p].app /\ Proceed(p, [job[p] EXCEPT !.id = d.id])
      <4>1. ~At(p, "inspect_completed")
        BY <2>3 DEF At
      <4> QED BY <1>3, <2>3, <4>1 DEF InspectDeployment
    <3> DEFINE j == [job[p] EXCEPT !.id = d.id]
    <3>2. /\ j.op = job[p].op /\ j.app = job[p].app /\ j.state = job[p].state /\ j.ref = job[p].ref
          /\ Proceed(p, j)
      BY <3>1, LocalsAre
    <3> HIDE DEF j
    <3> QED BY <2>0, <2>1, <2>3, <3>1, <3>2, SteadySole
  <2>4. CASE At(p, "inspect_completed")
    <3>0. ~At(p, "inspect_started")
      BY <2>4 DEF At
    <3>1. \/ Fail(p)
          \/ Proceed(p, job[p]) /\ \E d \in file.deployments : d.app = job[p].app
      BY <1>3, <2>4, <3>0 DEF InspectDeployment, GoOnIf
    <3>2. CASE Fail(p)
      BY <2>0, <2>4, <3>2, SteadyFails
    <3>3. CASE ~Fail(p)
      BY <2>0, <2>1, <2>4, <3>1, <3>3, SteadySole
    <3> QED BY <3>2, <3>3
  <2>5. At(p, "inspect_started") \/ At(p, "inspect_completed")
    BY <1>3 DEF InspectDeployment
  <2> QED BY <2>2, <2>3, <2>4, <2>5
<1>4. CASE HostWork(p)
  BY <1>4, SteadySole, SteadyFails DEF HostWork
<1>5. CASE SecretExists(p)
  <2>1. CASE job[p].ref \in secrets
    BY <1>5, <2>1, SteadySole DEF SecretExists, GoOnIf
  <2>2. CASE job[p].ref \notin secrets
    BY <1>5, <2>2, SteadyFails DEF SecretExists, GoOnIf
  <2> QED BY <2>1, <2>2
<1>6. CASE PutSecret(p)
  BY <1>6, SteadySole DEF PutSecret
<1>7. CASE Load(p)
  <2>0. file' = file /\ roots' = roots /\ secrets' = secrets /\ crashes' = crashes
    BY <1>7 DEF Load
  <2>1. PICK x \in {"find", "load"} : At(p, x) /\ (Proceed(p, Loaded(p)) \/ Fail(p))
    BY <1>7 DEF Load, GoOnIf
  <2>2. CASE Fail(p)
    BY <2>0, <2>1, <2>2, SteadyFails
  <2>3. CASE ~Fail(p)
    <3> DEFINE j == Loaded(p)
    <3>1. /\ j.op = job[p].op /\ j.app = job[p].app /\ j.state = file /\ j.ref = job[p].ref
          /\ Proceed(p, j)
      BY <2>1, <2>3, LocalsAre
    <3> HIDE DEF j
    <3> QED BY <2>0, <2>1, <3>1, SteadySole
  <2> QED BY <2>2, <2>3
<1>8. CASE Lock(p)
  BY <1>8, SteadySole DEF Lock
<1> QED BY <1>1, <1>2, <1>3, <1>4, <1>5, <1>6, <1>7, <1>8

\* What a handler changes leaves the references and deployments resolved.
LEMMA ChangedWhole ==
  ASSUME NEW j \in Jobs, NEW s \in States, NEW kept, Whole(s, kept),
         j.op \in Placing \cup {"import"} => j.ref \in kept
  PROVE  /\ Whole(Changed(j, s), kept)
         /\ j.op # "delete" => \A id : Exists(s, id) => Exists(Changed(j, s), id)
         /\ j.op \notin {"create", "delete"} => \A a \in Changed(j, s).apps : \E b \in s.apps : a.id = b.id
<1>0. /\ \A id \in Apps, n \in Names : OwnReference(id, n) \in References /\ OwnReference(id, n) # NoRef
      /\ \A a \in s.apps : a \in Applications /\ a.id \in Apps
      /\ \A d \in s.deployments : Exists(s, d.app)
      /\ \A a \in s.apps, n \in Names :
            a.env[n] = OwnReference(a.id, n) => OwnReference(a.id, n) \in kept
  BY StoreConstants DEF States, Applications, OwnReference, Whole
<1>1. CASE j.op = "create"
  <2> DEFINE c == NewApplication(j)
  <2>1. Changed(j, s).apps = s.apps \cup {c} /\ Changed(j, s).deployments = s.deployments
    BY <1>1 DEF Changed, States
  <2>2. c.id \in Apps /\ \A n \in Names : c.env[n] = NoRef
    BY DEF NewApplication, Jobs
  <2> HIDE DEF c
  <2>3. \A id : Exists(s, id) => Exists(Changed(j, s), id)
    BY <2>1 DEF Exists, Find
  <2> QED BY <1>0, <1>1, <2>1, <2>2, <2>3 DEF Whole
<1>2. CASE j.op = "delete"
  <2>1. /\ Changed(j, s).apps = s.apps \ Find(s, j.app)
        /\ Changed(j, s).deployments = {d \in s.deployments : d.app # j.app}
    BY <1>2 DEF Changed, Without
  <2>2. \A d \in Changed(j, s).deployments : Exists(Changed(j, s), d.app)
    BY <1>0, <2>1 DEF Exists, Find
  <2> QED BY <1>0, <1>2, <2>1, <2>2 DEF Whole
<1>3. CASE j.op \notin {"create", "delete"}
  <2> DEFINE own == Find(s, j.app)
             new == {Updated(j, a) : a \in own}
  <2>1. Changed(j, s).apps = (s.apps \ own) \cup new /\ Changed(j, s).deployments = s.deployments
    BY <1>3 DEF Changed, States
  <2>2. own \subseteq s.apps /\ \A a \in own : a.id = j.app
    BY DEF Find
  <2>3. \A a \in new : \E b \in own : a = Updated(j, b) /\ a.id = b.id
    BY <1>0, <2>2, UpdateTyped
  <2>4. ASSUME NEW a \in new, NEW n \in Names, a.env[n] = OwnReference(a.id, n)
        PROVE  OwnReference(a.id, n) \in kept
    <3>1. PICK b \in own : a = Updated(j, b) /\ a.id = b.id
      BY <2>3
    <3>2. a.env = NewReferences(j, b) /\ b \in s.apps /\ b \in Applications /\ a.id \in Apps
      BY <1>0, <2>2, <3>1 DEF Updated
    <3>3. b.env \in [Names -> References \cup {NoRef}] /\ OwnReference(a.id, n) # NoRef
      BY <1>0, <3>2 DEF Applications
    <3>4. a.env[n] \in {b.env[n], NoRef} \/ (a.env[n] = j.ref /\ j.op \in Placing \cup {"import"})
      BY <3>2, <3>3 DEF NewReferences, Placing
    <3>5. CASE a.env[n] = j.ref /\ j.op \in Placing \cup {"import"}
      BY <2>4, <3>5
    <3>6. CASE a.env[n] = b.env[n]
      BY <1>0, <2>4, <3>1, <3>2, <3>6
    <3> QED BY <2>4, <3>3, <3>4, <3>5, <3>6
  <2>5. ASSUME NEW id, Exists(s, id) PROVE Exists(Changed(j, s), id)
    <3>1. PICK b \in s.apps : b.id = id
      BY <2>5 DEF Exists, Find
    <3>2. CASE b \in own
      <4>1. Updated(j, b) \in new /\ Updated(j, b).id = id
        BY <1>0, <3>1, <3>2, UpdateTyped
      <4> QED BY <2>1, <4>1 DEF Exists, Find
    <3>3. CASE b \notin own
      BY <2>1, <3>1, <3>3 DEF Exists, Find
    <3> QED BY <3>2, <3>3
  <2> HIDE DEF own, new
  <2>6. \A a \in Changed(j, s).apps : \E b \in s.apps : a.id = b.id
    BY <2>1, <2>2, <2>3
  <2>7. Whole(Changed(j, s), kept)
    BY <1>0, <2>1, <2>4, <2>5 DEF Whole
  <2> QED BY <1>3, <2>5, <2>6, <2>7
<1> QED BY <1>1, <1>2, <1>3

LEMMA SaveSole ==
  ASSUME TypeOK, NEW p \in Procs, SoleInv(p), Save(p)
  PROVE  SoleInv(p)'
<1> DEFINE j == job[p]
<1>1. /\ At(p, "save") /\ Proceed(p, j) /\ file' = Changed(j, file)
      /\ secrets' = secrets /\ roots' = roots /\ crashes' = crashes
      /\ j.state = file
  <2>1. At(p, "save")
    BY DEF Save
  <2>2. job[p].state = file
    BY <2>1, AtGives DEF Ready
  <2> QED BY <2>1, <2>2 DEF Save, host
<1>2. /\ j \in Jobs /\ file \in States /\ Belongs(j.op, "save")
      /\ Ready(j, "save", file, secrets, roots, crashes)
      /\ Whole(file, secrets) /\ Housed(j, todo[p], file, roots, crashes)
  BY <1>1, AtGives
<1> HIDE DEF j
<1>3. j.op \in Placing \cup {"import"} => j.ref \in secrets
  BY <1>2 DEF Ready
<1>4. /\ Whole(file', secrets)
      /\ j.op # "delete" => \A id : Exists(file, id) => Exists(file', id)
      /\ j.op \notin {"create", "delete"} => \A a \in file'.apps : \E b \in file.apps : a.id = b.id
  BY <1>1, <1>2, <1>3, ChangedWhole
<1>5. crashes = 0 => \A a \in file'.apps : a.id \in roots
  <2> SUFFICES ASSUME crashes = 0, NEW a \in file'.apps PROVE a.id \in roots
    OBVIOUS
  <2>1. CASE j.op = "create"
    <3>1. file'.apps = file.apps \cup {NewApplication(j)} /\ NewApplication(j).id = j.app
      BY <1>1, <1>2, <2>1 DEF Changed, States, NewApplication
    <3>2. j.app \in roots
      BY <1>2, <2>1 DEF Ready
    <3> QED BY <1>2, <2>1, <3>1, <3>2 DEF Housed
  <2>2. CASE j.op = "delete"
    <3>1. a \in file.apps /\ a.id # j.app
      BY <1>1, <2>2 DEF Changed, Without, Find
    <3> QED BY <1>2, <3>1 DEF Housed
  <2>3. CASE j.op \notin {"create", "delete"}
    <3>1. PICK b \in file.apps : a.id = b.id
      BY <1>4, <2>3
    <3> QED BY <1>2, <2>3, <3>1 DEF Housed
  <2> QED BY <2>1, <2>2, <2>3
<1>6. NextReady(j, "save", file', secrets, roots, crashes)
  <2> SUFFICES ASSUME NEW y, Succeeds(j.op, "save", y), Belongs(j.op, y)
               PROVE  Ready(j, y, file', secrets, roots, crashes)
    BY DEF NextReady
  <2>1. y \notin {"save", "trash"} \cup Statuses /\ (j.op \in Placing => y # "find")
    BY DEF Succeeds
  <2>2. j.op = "import" => j.ref \in secrets
    BY <1>3
  <2>3. j.op \in Recording => Exists(file', j.app)
    BY <1>2, <1>4 DEF Ready, Recording, Inspections
  <2>4. j.op = "create" =>
          /\ Whole(j.state, secrets) /\ j.app \in roots
          /\ \A a \in j.state.apps : a.id # j.app /\ (crashes = 0 => a.id \in roots)
    BY <1>2 DEF Ready
  <2>5. ASSUME y = "remove_secret", NEW a \in Find(file', j.app) PROVE a.env[j.name] = NoRef
    <3>1. j.op = "delete_secret"
      BY <2>5 DEF Belongs
    <3>2. a \in (file.apps \ Find(file, j.app)) \cup {Updated(j, b) : b \in Find(file, j.app)} /\ a.id = j.app
      BY <1>1, <1>2, <3>1 DEF Changed, States, Find
    <3>3. PICK b \in Find(file, j.app) : a = Updated(j, b)
      BY <3>2 DEF Find
    <3>4. a.env = [b.env EXCEPT ![j.name] = NoRef] /\ b.env \in [Names -> References \cup {NoRef}] /\ j.name \in Names
      BY <1>2, <3>1, <3>3 DEF Updated, NewReferences, States, Applications, Find, Jobs
    <3> QED BY <3>4
  <2> QED BY <2>1, <2>2, <2>3, <2>4, <2>5 DEF Ready
<1>7. Housed(j, Tail(todo[p]), file', roots, crashes)
  BY <1>5 DEF Housed
<1> QED BY <1>1, <1>4, <1>6, <1>7, ProceedSole DEF j

LEMMA CheckUniqueSole ==
  ASSUME TypeOK, NEW p \in Procs, SoleInv(p), CheckUnique(p)
  PROVE  SoleInv(p)'
<1>1. /\ At(p, "check_unique") /\ file' = file /\ secrets' = secrets /\ crashes' = crashes
      /\ roots \subseteq roots'
  BY DEF CheckUnique
<1>2. /\ Belongs(job[p].op, "check_unique") /\ Whole(file, secrets)
      /\ \A k, t : Housed(k, t, file, roots, crashes)
  BY <1>1, AtGives
<1>3. job[p].op = "create"
  BY <1>2 DEF Belongs
<1>4. \A k, t : Housed(k, t, file, roots', crashes)
  BY <1>1, <1>2 DEF Housed
<1>5. CASE ~Free(file, job[p])
  <2>1. Fail(p)
    BY <1>5 DEF CheckUnique, GoOnIf
  <2> QED BY <1>1, <1>2, <1>4, <2>1, FailSole
<1>6. CASE Free(file, job[p])
  <2> DEFINE j == [Loaded(p) EXCEPT !.preexisted = job[p].app \in roots]
  <2>1. Proceed(p, j) /\ job[p].app \in roots'
    BY <1>6 DEF CheckUnique, GoOnIf
  <2>2. j.op = job[p].op /\ j.app = job[p].app /\ j.state = file
    BY LocalsAre
  <2> HIDE DEF j
  <2>3. \A a \in j.state.apps : a.id # j.app /\ (crashes = 0 => a.id \in roots')
    <3>1. \A a \in file.apps : a.id # job[p].app
      BY <1>6 DEF Free
    <3>2. ASSUME crashes = 0, NEW a \in file.apps PROVE a.id \in roots'
      <4>1. Housed(NoJob, <<>>, file, roots', crashes)
        BY <1>4
      <4> QED BY <3>2, <4>1 DEF Housed, NoJob
    <3> QED BY <2>2, <3>1, <3>2
  <2>4. NextReady(j, "check_unique", file, secrets, roots', crashes)
    <3>1. j.op = "create" /\ Whole(j.state, secrets) /\ j.app \in roots' /\ j.state = file
      BY <1>2, <1>3, <2>1, <2>2
    <3> QED BY <2>3, <3>1 DEF NextReady, Ready, Belongs, Recording, Placing
  <2> QED BY <1>1, <1>2, <1>4, <2>1, <2>2, <2>4, ProceedSole
<1> QED BY <1>5, <1>6

LEMMA TrashSole ==
  ASSUME TypeOK, NEW p \in Procs, SoleInv(p), Trash(p)
  PROVE  SoleInv(p)'
<1>1. At(p, "trash") /\ file' = file /\ secrets' = secrets /\ crashes' = crashes
  BY DEF Trash
<1>2. /\ Belongs(job[p].op, "trash") /\ Whole(file, secrets)
      /\ Ready(job[p], "trash", file, secrets, roots, crashes)
      /\ \A k, t : Housed(k, t, file, roots, crashes)
      /\ job[p].op = "delete" => Tail(todo[p]) = <<"save">>
  BY <1>1, AtGives
<1>3. job[p].op = "delete"
  BY <1>2 DEF Belongs
<1>4. CASE Proceed(p, job[p]) /\ roots' = roots \ {job[p].app}
  <2> DEFINE j == job[p]
  <2>1. Housed(j, Tail(todo[p]), file, roots', crashes)
    <3>1. Housed(NoJob, <<>>, file, roots, crashes)
      BY <1>2
    <3> QED BY <1>2, <1>3, <1>4, <3>1 DEF Housed, NoJob
  <2>2. NextReady(j, "trash", file, secrets, roots', crashes)
    <3>0. /\ "trash" \notin {"check_unique", "save"} \cup Inspections /\ secrets \subseteq secrets
          /\ j.state = IF "trash" \in {"find", "load"} THEN file ELSE job[p].state
      BY DEF Inspections
    <3> QED BY <1>2, <1>3, <3>0, SteadyReady
  <2> HIDE DEF j
  <2> QED BY <1>1, <1>2, <1>4, <2>1, <2>2, ProceedSole DEF j
<1>5. CASE Fail(p) /\ UNCHANGED roots
  BY <1>1, <1>5, SteadyFails
<1> QED BY <1>4, <1>5 DEF Trash

LEMMA PersistSole ==
  ASSUME TypeOK, NEW p \in Procs, SoleInv(p), Persist(p)
  PROVE  SoleInv(p)'
<1>1. /\ At(p, "persist") /\ file' = file /\ secrets' = secrets /\ roots' = roots /\ crashes' = crashes
  BY DEF Persist, host
<1>2. CASE Proceed(p, job[p])
  BY <1>1, <1>2, SteadySole DEF Inspections
<1>3. CASE todo' = [todo EXCEPT ![p] = <<"undo">>] /\ UNCHANGED job
  <2>1. /\ Belongs(job[p].op, "persist") /\ Whole(file, secrets)
        /\ Ready(job[p], "persist", file, secrets, roots, crashes)
        /\ \A k, t : Housed(k, t, file, roots, crashes)
    BY <1>1, AtGives
  <2>2. job[p].op = "create"
    BY <2>1 DEF Belongs
  <2>3. /\ todo'[p] = <<"undo">> /\ job'[p] = job[p] /\ Head(<<"undo">>) = "undo"
        /\ \A q \in Procs \ {p} : todo'[q] = <<>>
    BY <1>3 DEF TypeOK, SoleInv
  <2>4. Fits("create", <<"undo">>)
    <3>1. /\ Len(<<"undo">>) = 1 /\ <<"undo">>[1] = "undo"
          /\ \A i \in 1 .. 1 : i = 1
          /\ \A i \in 2 .. 1 : FALSE
      OBVIOUS
    <3> QED BY <3>1 DEF Fits, Belongs, CreateStatements, Statuses
  <2>5. Ready(job[p], "undo", file, secrets, roots, crashes)
    BY <2>1, <2>2 DEF Ready, Statuses, Placing, Recording
  <2> QED BY <1>1, <2>1, <2>2, <2>3, <2>4, <2>5 DEF SoleInv
<1> QED BY <1>2, <1>3 DEF Persist

LEMMA UndoSole ==
  ASSUME TypeOK, NEW p \in Procs, SoleInv(p), Undo(p)
  PROVE  SoleInv(p)'
<1> DEFINE j == job[p]
<1>1. /\ At(p, "undo") /\ Proceed(p, j) /\ file' = j.state /\ secrets' = secrets /\ crashes' = crashes
      /\ roots' = roots \/ roots' = roots \ {j.app}
  BY DEF Undo
<1>2. Belongs(j.op, "undo") /\ Ready(j, "undo", file, secrets, roots, crashes)
  BY <1>1, AtGives
<1> HIDE DEF j
<1>3. j.op = "create"
  BY <1>2 DEF Belongs
<1>4. /\ Whole(j.state, secrets)
      /\ \A a \in j.state.apps : a.id # j.app /\ (crashes = 0 => a.id \in roots)
  BY <1>2, <1>3 DEF Ready
<1>5. \A k, t : Housed(k, t, file', roots', crashes)
  BY <1>1, <1>4 DEF Housed
<1>6. NextReady(j, "undo", file', secrets, roots', crashes)
  <2> SUFFICES ASSUME NEW y, Succeeds(j.op, "undo", y), Belongs(j.op, y)
               PROVE  Ready(j, y, file', secrets, roots', crashes)
    BY DEF NextReady
  <2>1. y = "check_unique"
    BY <1>3 DEF Succeeds, Belongs, CreateStatements
  <2> QED BY <1>3, <2>1 DEF Ready, Statuses, Placing, Recording
<1> QED BY <1>1, <1>4, <1>5, <1>6, ProceedSole DEF j

LEMMA RecordSole ==
  ASSUME TypeOK, NEW p \in Procs, SoleInv(p), Record(p)
  PROVE  SoleInv(p)'
<1> DEFINE j == job[p]
<1>1. PICK x \in Statuses : At(p, x) /\ file' = Upserted(j, x, j.state)
  BY DEF Record
<1>2. Proceed(p, j) /\ secrets' = secrets /\ roots' = roots /\ crashes' = crashes
  BY DEF Record, host
<1>3. /\ Belongs(j.op, x) /\ Ready(j, x, file, secrets, roots, crashes) /\ Whole(file, secrets)
      /\ x # "save" => \A k, t : Housed(k, t, file, roots, crashes)
      /\ file \in States
  BY <1>1, AtGives
<1> HIDE DEF j
<1>4. j.op \in Recording /\ j.state = file /\ Exists(file, j.app) /\ x \notin Inspections \cup {"save", "find", "load", "secret_exists"}
  BY <1>3 DEF Belongs, Ready, Statuses, Inspections
<1>5. /\ file'.apps = file.apps
      /\ \A d \in file'.deployments : d \in file.deployments \/ d.app = j.app
  BY <1>1, <1>3, <1>4 DEF Upserted, States
<1>6. \A id : Exists(file, id) => Exists(file', id)
  BY <1>5 DEF Exists, Find
<1>7. Whole(file', secrets)
  BY <1>3, <1>4, <1>5, <1>6 DEF Whole
<1>8. \A k, t : Housed(k, t, file', roots, crashes)
  BY <1>3, <1>4, <1>5 DEF Housed
<1>9. NextReady(j, x, file', secrets, roots, crashes)
  <2> SUFFICES ASSUME NEW y, Succeeds(j.op, x, y), Belongs(j.op, y)
               PROVE  Ready(j, y, file', secrets, roots, crashes)
    BY DEF NextReady
  <2>1. y \notin {"save", "trash", "remove_secret"} \cup Statuses
    BY <1>4 DEF Succeeds, Statuses
  <2> QED BY <1>4, <1>6, <2>1 DEF Ready, Recording, Placing
<1> QED BY <1>1, <1>2, <1>7, <1>8, <1>9, ProceedSole DEF j

LEMMA OwnReferencesAre ==
  \A id \in Apps, n \in Names : OwnReference(id, n) \in References /\ OwnReference(id, n) # NoRef
BY StoreConstants DEF OwnReference

LEMMA RemoveSecretSole ==
  ASSUME TypeOK, NamesApart, NEW p \in Procs, SoleInv(p), RemoveSecret(p)
  PROVE  SoleInv(p)'
<1> DEFINE j == job[p]
<1>1. /\ At(p, "remove_secret") /\ Proceed(p, j) /\ file' = file /\ roots' = roots /\ crashes' = crashes
      /\ secrets' = IF j.ref = OwnReference(j.app, j.name) THEN secrets \ {j.ref} ELSE secrets
  BY DEF RemoveSecret
<1>2. /\ Belongs(j.op, "remove_secret") /\ Ready(j, "remove_secret", file, secrets, roots, crashes)
      /\ Whole(file, secrets) /\ \A k, t : Housed(k, t, file, roots, crashes)
      /\ file \in States /\ j.app \in Apps /\ j.name \in Names
  BY <1>1, AtGives
<1> HIDE DEF j
<1>3. j.op = "delete_secret" /\ \A a \in Find(file, j.app) : a.env[j.name] = NoRef
  BY <1>2 DEF Belongs, Ready
<1>4. ASSUME NEW a \in file.apps, NEW n \in Names, a.env[n] = OwnReference(a.id, n)
      PROVE  OwnReference(a.id, n) \in secrets'
  <2>1. OwnReference(a.id, n) \in secrets /\ a.id \in Apps
    BY <1>2, <1>4 DEF Whole, States, Applications
  <2>2. OwnReference(a.id, n) # NoRef
    BY <2>1, OwnReferencesAre
  <2>3. a.id # j.app \/ n # j.name
    BY <1>3, <1>4, <2>2 DEF Find
  <2>4. OwnReference(a.id, n) # OwnReference(j.app, j.name)
    BY <1>2, <2>1, <2>3 DEF NamesApart
  <2> QED BY <1>1, <2>1, <2>4
<1>5. Whole(file', secrets')
  BY <1>1, <1>2, <1>4 DEF Whole
<1>6. NextReady(j, "remove_secret", file, secrets', roots, crashes)
  <2> SUFFICES ASSUME NEW y, Succeeds(j.op, "remove_secret", y), Belongs(j.op, y)
               PROVE  Ready(j, y, file, secrets', roots, crashes)
    BY DEF NextReady
  <2>1. y \notin {"save", "trash", "remove_secret"} \cup Statuses
    BY DEF Succeeds, Statuses
  <2> QED BY <1>3, <2>1 DEF Ready, Recording, Placing
<1> QED BY <1>1, <1>2, <1>5, <1>6, ProceedSole DEF j

LEMMA AskSole ==
  ASSUME TypeOK, NEW p \in Procs, SoleInv(p), Ask(p)
  PROVE  SoleInv(p)'
<1>1. PICK i \in Asked :
        /\ job' = [job EXCEPT ![p] = [i EXCEPT !.id = IF i.op \in Releasing THEN issued + 1 ELSE 0]]
        /\ todo' = [todo EXCEPT ![p] = Handlers[i.op]]
  BY DEF Ask
<1>2. /\ todo[p] = <<>> /\ file' = file /\ secrets' = secrets /\ roots' = roots /\ crashes' = crashes
  BY DEF Ask, host
<1>3. i \in [op: Requests, app: Apps, domain: Domains, name: Names, ref: References,
             set: {{}, Portable}, id: {0}, state: {Empty}, preexisted: {FALSE}]
  BY DEF Asked
<1> DEFINE k == [i EXCEPT !.id = IF i.op \in Releasing THEN issued + 1 ELSE 0]
           t == Handlers[i.op]
<1>4. k.op = i.op /\ i.op \in Operations
  BY <1>3, RequestsAssumption
<1>5. /\ todo'[p] = t /\ job'[p] = k /\ \A q \in Procs \ {p} : todo'[q] = <<>>
  BY <1>1 DEF TypeOK, SoleInv
<1>6. Fits(k.op, t) /\ Opens(k.op, t[1]) /\ Head(t) = t[1] /\ t # <<>>
  <2>1. t \in Seq(Statements)
    BY <1>4, HandlersTyped
  <2> QED BY <1>4, <2>1, HandlersFit
<1> HIDE DEF k, t
<1>7. Ready(k, Head(t), file, secrets, roots, crashes)
  BY <1>6 DEF Opens, Ready, Statuses, Inspections, Recording, Placing
<1>8. Housed(k, t, file, roots, crashes) /\ Whole(file, secrets)
  <2>1. Housed(job[p], <<>>, file, roots, crashes)
    BY <1>2 DEF SoleInv
  <2> QED BY <2>1, HousedIdle DEF SoleInv
<1> QED BY <1>2, <1>5, <1>6, <1>7, <1>8 DEF SoleInv

LEMMA CrashSole ==
  ASSUME TypeOK, NEW p \in Procs, SoleInv(p), Crash(p)
  PROVE  SoleInv(p)'
<1>1. Fail(p) /\ file' = file /\ secrets' = secrets /\ roots' = roots /\ crashes' = crashes + 1 /\ crashes \in Nat
  BY StoreConstants DEF Crash, host, TypeOK
<1>2. Whole(file', secrets') /\ Housed(NoJob, <<>>, file', roots', crashes')
  BY <1>1 DEF SoleInv, Housed
<1> QED BY <1>1, <1>2, FailSole

LEMMA InitSole == ASSUME Init, NEW p \in Procs PROVE SoleInv(p)
<1>1. Whole(file, secrets) /\ Housed(job[p], todo[p], file, roots, crashes)
  BY DEF Init, Empty, Whole, Housed
<1> QED BY <1>1, FitsEmpty DEF Init, SoleInv

\* Whatever the one process that acts does.
LEMMA OneActs ==
  ASSUME TypeOK, NamesApart, NEW p \in Procs, SoleInv(p), Ask(p) \/ Step(p) \/ Crash(p)
  PROVE  SoleInv(p)'
BY AskSole, CrashSole, LooksSole, SaveSole, CheckUniqueSole, TrashSole, PersistSole, UndoSole,
   RecordSole, RemoveSecretSole DEF Step

LEMMA OthersRest ==
  ASSUME NEW p \in Procs, SoleInv(p), NEW q \in Procs \ {p}
  PROVE  ~Step(q) /\ ~Crash(q)
<1>1. todo[q] = <<>>
  BY DEF SoleInv
<1>2. \A x : ~At(q, x)
  BY <1>1 DEF At
<1> QED BY <1>1, <1>2 DEF Step, Crash, Inspect, InspectName, InspectDeployment, HostWork, SecretExists,
       PutSecret, RemoveSecret, Load, CheckUnique, Trash, Save, Persist, Undo, Lock, Record

LEMMA SoleStutters ==
  ASSUME NEW p \in Procs, SoleInv(p), UNCHANGED vars
  PROVE  SoleInv(p)'
BY DEF SoleInv, vars, host, Housed

LEMMA SoleGives ==
  ASSUME NEW p \in Procs, SoleInv(p)
  PROVE  RecordsResolve
<1>1. OwnReferencesResolve /\ DeploymentsHaveApplications
  BY DEF SoleInv, Whole, OwnReferencesResolve, DeploymentsHaveApplications
<1>2. ApplicationsHaveDirectories
  BY DEF SoleInv, Housed, ApplicationsHaveDirectories
<1> QED BY <1>1, <1>2 DEF RecordsResolve

\* One process on the host, any applications and requests, failures and deaths:
\* each application's own references have their secret, each deployment its
\* application, and each application its directory until a process died.
\* Two variables with one secret name, which the code's names do not exclude,
\* would lose the secret of one with the other.
THEOREM OneProcessResolves ==
  ASSUME NamesApart, NEW p, Procs = {p} PROVE Spec => []RecordsResolve
<1>0. p \in Procs
  OBVIOUS
<1>1. Init => SoleInv(p)
  BY <1>0, InitSole
<1>2. TypeOK /\ SoleInv(p) /\ [Next]_vars => SoleInv(p)'
  BY <1>0, OneActs, SoleStutters DEF Next
<1>3. SoleInv(p) => RecordsResolve
  BY <1>0, SoleGives
<1> QED BY <1>1, <1>2, <1>3, TypeCorrect, PTL DEF Spec

\* The same of the one process of Store, beside others that do nothing.
THEOREM RecordsResolveInStore ==
  ASSUME NamesApart PROVE StoreSpec => []RecordsResolveAlone
<1> DEFINE Sound == about = "single" => SoleInv(OneProc)
<1>0. OneProc \in Procs
  BY StoreAssumption
<1>1. StoreInit => Init /\ Sound
  BY <1>0, InitSole DEF StoreInit
<1>2. [StoreNext]_<<vars, about>> => [Next]_vars
  BY DEF StoreNext, Next
<1>3. TypeOK /\ Sound /\ [StoreNext]_<<vars, about>> => Sound'
  <2> SUFFICES ASSUME TypeOK, Sound, [StoreNext]_<<vars, about>>, about' = "single" PROVE SoleInv(OneProc)'
    OBVIOUS
  <2>1. about = "single" /\ SoleInv(OneProc)
    BY DEF StoreNext
  <2>2. CASE UNCHANGED vars
    BY <1>0, <2>1, <2>2, SoleStutters
  <2>3. ASSUME NEW p \in Procs, (Ask(p) /\ AskedHere(p)) \/ Step(p) \/ Crash(p)
        PROVE  SoleInv(OneProc)'
    <3>1. p = OneProc
      BY <1>0, <2>1, <2>3, OthersRest DEF AskedHere
    <3> QED BY <1>0, <2>1, <2>3, <3>1, OneActs
  <2> QED BY <2>2, <2>3 DEF StoreNext
<1>4. Sound => RecordsResolveAlone
  BY <1>0, SoleGives DEF RecordsResolveAlone
<1> HIDE DEF Sound
<1> QED BY <1>1, <1>2, <1>3, <1>4, TypeCorrect, PTL DEF StoreSpec, Spec
=============================================================================
