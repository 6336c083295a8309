----------------------------- MODULE NodeProofs -----------------------------
(* What a node stands on, for any number of processes, threads, contents,      *)
(* inodes, releases and workers: one master key opens every secret, a file and *)
(* a cached artifact change only as a whole, a self update or an integration   *)
(* that fails leaves what it found, and a journal is read as it was written.   *)
EXTENDS Node, SequenceTheorems, TLAPS

-----------------------------------------------------------------------------
(* The secrets.                                                              *)

SecretLabels == {"idle", "key", "mint", "fill", "open", "backup", "copy", "replace",
           "remove", "remove_backup"}
SecretFiles == [kind : {"plain"}, value : Nat, key : {NoKey}]
                \cup [kind : {"sealed"}, value : Nat, key : Procs]
SecretJobs == [op : {"create", "rotate", "put", "read", "migrate", "delete"},
         ref : Refs, value : Nat, key : {NoKey} \cup Procs, source : SecretFiles]

SecretTypes ==
    /\ key \in {NoKey, Empty} \cup Procs
    /\ file \in [Refs -> SecretFiles] /\ backup \in [Refs -> SecretFiles]
    /\ pc \in [Procs -> SecretLabels] /\ job \in [Procs -> {NoJob} \cup SecretJobs]
    /\ \A p \in Procs : pc[p] # "idle" => job[p] \in SecretJobs
    /\ values \in Nat /\ want \in [Refs -> Nat]

\* There is a key when something is sealed with it or about to be, and one
\* process at most fills the file that it alone created.
Keys ==
    /\ \A r \in Refs :
         /\ file[r].kind = "sealed" => file[r].key = key /\ key \in Procs
         /\ backup[r].kind = "sealed" => backup[r].key = key /\ key \in Procs
    /\ \A p \in Procs :
         /\ pc[p] \in {"backup", "copy", "replace"} => job[p].key = key /\ key \in Procs
         /\ pc[p] = "copy" /\ job[p].source.kind = "sealed" => job[p].source.key = key
         /\ pc[p] = "fill" => key = Empty
    /\ \A p, q \in Procs : pc[p] = "fill" /\ pc[q] = "fill" => p = q

\* A reader that is about to seal a value has the present one.
Migrations ==
    /\ \A r \in Refs \ raced : file[r].value = want[r]
    /\ \A p \in Procs :
         pc[p] # "idle" /\ job[p].op = "migrate" /\ job[p].ref \notin raced =>
            job[p].value = want[job[p].ref]

\* A deletion removes the file before its backup.
Deletions ==
    /\ DeletionIsComplete
    /\ \A p \in Procs :
         pc[p] = "copy" =>
            \/ Exists(job[p].ref) \/ job[p].ref \in cut
            \/ \E q \in Procs : pc[q] = "remove_backup" /\ job[q].ref = job[p].ref
    /\ \A p \in Procs : pc[p] \in {"remove", "remove_backup"} => job[p].op = "delete"

SecretInv == SecretTypes /\ Keys /\ Migrations /\ Deletions

-----------------------------------------------------------------------------
(* The steps by kind.                                                       *)

\* The locals of a call.
LEMMA JobsAre ==
    ASSUME NEW op \in {"create", "rotate", "put", "read", "migrate", "delete"},
           NEW r \in Refs, NEW v \in Nat, NEW k \in {NoKey} \cup Procs
    PROVE  Job(op, r, v, k) \in SecretJobs
BY DEF Job, SecretJobs, Absent, Plain, SecretFiles

\* A call begins with what it was asked for, or with what it read.
LEMMA Beginning ==
    ASSUME SecretInv, NEW p \in Procs, NEW r \in Refs, NEW v \in Nat, NEW label, NEW op,
           pc[p] = "idle",
           op \in {"create", "rotate", "put", "read", "migrate", "delete"},
           label = (IF op = "delete" THEN "remove" ELSE "key"),
           op = "migrate" => v = file[r].value,
           Goto(p, label), job' = [job EXCEPT ![p] = Job(op, r, v, NoKey)],
           values' \in Nat, UNCHANGED Data
    PROVE  SecretInv'
<1>0. job'[p] = Job(op, r, v, NoKey) /\ pc'[p] = label /\ Job(op, r, v, NoKey) \in SecretJobs
  BY JobsAre DEF SecretInv, SecretTypes, Goto
<1>1. \A q \in Procs \ {p} : job'[q] = job[q] /\ pc'[q] = pc[q]
  BY DEF SecretInv, SecretTypes, Goto
<1>2. UNCHANGED <<key, file, backup, want, raced, cut>>
  BY DEF Data
<1>3. SecretTypes'
  BY <1>0, <1>1, <1>2 DEF SecretInv, SecretTypes, Goto, SecretLabels
<1>4. Keys'
  BY <1>0, <1>1, <1>2 DEF SecretInv, Keys
<1>5. Migrations'
  BY <1>0, <1>1, <1>2 DEF SecretInv, Migrations, Job
<1>6. Deletions'
  BY <1>0, <1>1, <1>2 DEF SecretInv, Deletions, DeletionIsComplete, Exists, Job
<1> QED
  BY <1>3, <1>4, <1>5, <1>6 DEF SecretInv

\* A call returns with nothing changed, or is killed.
LEMMA Returning ==
    ASSUME SecretInv, NEW p \in Procs, Return(p),
           UNCHANGED <<key, file, backup, want, raced, values>>,
           cut' = IF pc[p] = "remove_backup" THEN cut \cup {job[p].ref} ELSE cut
    PROVE  SecretInv'
<1>0. job'[p] = NoJob /\ pc'[p] = "idle"
  BY DEF SecretInv, SecretTypes, Return, Goto
<1>1. \A q \in Procs \ {p} : job'[q] = job[q] /\ pc'[q] = pc[q]
  BY DEF SecretInv, SecretTypes, Return, Goto
<1>2. UNCHANGED <<key, file, backup, want, raced, values>>
  OBVIOUS
<1>3. SecretTypes'
  BY <1>0, <1>1, <1>2 DEF SecretInv, SecretTypes, Return, Goto, SecretLabels
<1>4. Keys'
  BY <1>0, <1>1, <1>2 DEF SecretInv, Keys
<1>5. Migrations'
  BY <1>0, <1>1, <1>2 DEF SecretInv, Migrations
<1>6. Deletions'
  BY <1>0, <1>1, <1>2 DEF SecretInv, Deletions, DeletionIsComplete, Exists
<1> QED
  BY <1>3, <1>4, <1>5, <1>6 DEF SecretInv

\* A process goes on, with the key as it is, or with a key file of its own.
LEMMA KeyFound ==
    ASSUME SecretInv, NEW p \in Procs, NEW label \in {"mint", "open", "backup", "fill"},
           NEW new \in SecretJobs,
           new.op = job[p].op, new.ref = job[p].ref, new.value = job[p].value,
           pc[p] \in {"key", "mint", "fill"},
           Goto(p, label), job' = [job EXCEPT ![p] = new],
           \/ key' = key
           \/ key = NoKey /\ key' = Empty
           \/ pc[p] = "fill" /\ key' = p,
           label = "fill" => key = NoKey /\ key' = Empty,
           label = "backup" => new.key = key' /\ key' \in Procs,
           UNCHANGED <<file, backup, want, raced, cut, values>>
    PROVE  SecretInv'
<1>0. job'[p] = new /\ pc'[p] = label
  BY DEF SecretInv, SecretTypes, Goto
<1>1. \A q \in Procs \ {p} : job'[q] = job[q] /\ pc'[q] = pc[q]
  BY DEF SecretInv, SecretTypes, Goto
<1>2. UNCHANGED <<file, backup, want, raced, cut, values>>
  OBVIOUS
<1>3. SecretTypes'
  BY <1>0, <1>1, <1>2 DEF SecretInv, SecretTypes, Goto, SecretLabels
<1>4. Keys'
  <2>1. key' # key => /\ \A r \in Refs : file[r].kind # "sealed" /\ backup[r].kind # "sealed"
                      /\ \A q \in Procs : pc[q] \notin {"backup", "copy", "replace"}
    BY SecretsAssumption DEF SecretInv, Keys
  <2>2. key' # key => \A q \in Procs \ {p} : pc[q] # "fill"
    BY SecretsAssumption DEF SecretInv, Keys
  <2>3. \A r \in Refs :
          /\ file'[r].kind = "sealed" => file'[r].key = key' /\ key' \in Procs
          /\ backup'[r].kind = "sealed" => backup'[r].key = key' /\ key' \in Procs
    BY <1>2, <2>1 DEF SecretInv, Keys
  <2>4. ASSUME NEW q \in Procs
        PROVE  /\ pc'[q] \in {"backup", "copy", "replace"} =>
                    job'[q].key = key' /\ key' \in Procs
               /\ pc'[q] = "copy" /\ job'[q].source.kind = "sealed" =>
                    job'[q].source.key = key'
               /\ pc'[q] = "fill" => key' = Empty
    BY <1>0, <1>1, <2>1, <2>2 DEF SecretInv, Keys
  <2>5. ASSUME NEW a \in Procs, NEW b \in Procs, pc'[a] = "fill", pc'[b] = "fill"
        PROVE  a = b
    BY <1>0, <1>1, <2>2, <2>5, SecretsAssumption DEF SecretInv, Keys
  <2> QED
    BY <2>3, <2>4, <2>5 DEF Keys
<1>5. Migrations'
  BY <1>0, <1>1, <1>2 DEF SecretInv, Migrations
<1>6. Deletions'
  BY <1>0, <1>1, <1>2 DEF SecretInv, Deletions, DeletionIsComplete, Exists
<1> QED
  BY <1>3, <1>4, <1>5, <1>6 DEF SecretInv

-----------------------------------------------------------------------------
(* The actions.                                                             *)

LEMMA SecretBegins ==
    ASSUME SecretInv, NEW p \in Procs, NEW r \in Refs,
           Create(p, r) \/ Rotate(p, r) \/ Put(p, r) \/ Read(p, r) \/ Delete(p, r)
    PROVE  SecretInv'
<1>1. ASSUME NEW op \in {"create", "rotate", "put"}, Write(p, r, op)
      PROVE  SecretInv'
  <2>1. values + 1 \in Nat /\ values' = values + 1
    BY <1>1 DEF SecretInv, SecretTypes, Write
  <2> QED
    BY <1>1, <2>1, Beginning DEF Write
<1>2. CASE Read(p, r)
  <2> DEFINE op == IF file[r].kind = "plain" THEN "migrate" ELSE "read"
  <2>1. file[r].value \in Nat /\ values' \in Nat
    BY <1>2 DEF SecretInv, SecretTypes, SecretFiles, Read
  <2>2. /\ pc[p] = "idle" /\ Goto(p, "key") /\ UNCHANGED Data
        /\ job' = [job EXCEPT ![p] = Job(op, r, file[r].value, NoKey)]
    BY <1>2 DEF Read
  <2>3. op \in {"create", "rotate", "put", "read", "migrate", "delete"} /\ op # "delete"
    OBVIOUS
  <2> HIDE DEF op
  <2> QED
    BY <2>1, <2>2, <2>3, Beginning
<1>3. CASE Delete(p, r)
  <2>1. values' \in Nat
    BY <1>3 DEF SecretInv, SecretTypes, Delete
  <2> QED
    BY <1>3, <2>1, Beginning DEF Delete
<1> QED
  BY <1>1, <1>2, <1>3 DEF Create, Rotate, Put

\* The locals with a key.
LEMMA WithKey ==
    ASSUME SecretInv, NEW p \in Procs, pc[p] # "idle", NEW k \in Procs,
           NEW new, new = Job(job[p].op, job[p].ref, job[p].value, k)
    PROVE  /\ new \in SecretJobs /\ new.op = job[p].op /\ new.ref = job[p].ref
           /\ new.value = job[p].value /\ new.key = k
<1>1. /\ job[p].op \in {"create", "rotate", "put", "read", "migrate", "delete"}
      /\ job[p].ref \in Refs /\ job[p].value \in Nat
  BY DEF SecretInv, SecretTypes, SecretJobs
<1> QED
  BY <1>1, JobsAre DEF Job

\* A key that is there is used.
LEMMA Using ==
    ASSUME SecretInv, NEW p \in Procs, pc[p] \in {"key", "mint"}, key # NoKey, Use(p),
           UNCHANGED <<key, file, backup, want, raced, cut, values>>
    PROVE  SecretInv'
<1>1. CASE key = Empty
  <2>1. Return(p) /\ cut' = IF pc[p] = "remove_backup" THEN cut \cup {job[p].ref} ELSE cut
    BY <1>1 DEF Use
  <2> QED
    BY <2>1, Returning
<1>2. CASE key # Empty
  <2> DEFINE new == Job(job[p].op, job[p].ref, job[p].value, key)
             label == IF job[p].op = "read" THEN "open" ELSE "backup"
  <2>1. key \in Procs
    BY <1>2 DEF SecretInv, SecretTypes
  <2>2. job' = [job EXCEPT ![p] = new] /\ Goto(p, label)
    BY <1>2 DEF Use
  <2>3. /\ new \in SecretJobs /\ new.op = job[p].op /\ new.ref = job[p].ref
        /\ new.value = job[p].value /\ new.key = key
    BY <2>1, WithKey
  <2>4. label \in {"open", "backup"}
    OBVIOUS
  <2> HIDE DEF new, label
  <2>5. key' = key /\ (label = "fill" => key = NoKey /\ key' = Empty)
    BY <2>4
  <2> QED
    BY <2>1, <2>2, <2>3, <2>4, <2>5, KeyFound
<1> QED
  BY <1>1, <1>2

\* The locals and the label alone.
LEMMA Unkeyed ==
    ASSUME SecretInv, NEW p \in Procs, pc[p] # "idle", UNCHANGED job
    PROVE  job[p] \in SecretJobs /\ job' = [job EXCEPT ![p] = job[p]]
BY DEF SecretInv, SecretTypes

LEMMA KeyKeeps ==
    ASSUME SecretInv, NEW p \in Procs, FindKey(p) \/ Mint(p) \/ Fill(p)
    PROVE  SecretInv'
<1>1. CASE FindKey(p) /\ key = NoKey
  <2>1. /\ pc[p] = "key" /\ Goto(p, "mint") /\ UNCHANGED job
        /\ UNCHANGED <<key, file, backup, want, raced, cut, values>>
    BY <1>1 DEF FindKey, Data
  <2>2. job[p] \in SecretJobs /\ job' = [job EXCEPT ![p] = job[p]]
    BY <2>1, Unkeyed
  <2> QED
    BY <2>1, <2>2, KeyFound
<1>2. CASE FindKey(p) /\ key # NoKey
  <2>1. /\ pc[p] = "key" /\ Use(p)
        /\ UNCHANGED <<key, file, backup, want, raced, cut, values>>
    BY <1>2 DEF FindKey, Data
  <2> QED
    BY <1>2, <2>1, Using
<1>3. CASE Mint(p) /\ key = NoKey
  <2>1. /\ pc[p] = "mint" /\ key' = Empty /\ Goto(p, "fill") /\ UNCHANGED job
        /\ UNCHANGED <<file, backup, want, raced, cut, values>>
    BY <1>3 DEF Mint
  <2>2. job[p] \in SecretJobs /\ job' = [job EXCEPT ![p] = job[p]]
    BY <2>1, Unkeyed
  <2> QED
    BY <1>3, <2>1, <2>2, KeyFound
<1>4. CASE Mint(p) /\ key # NoKey
  <2>1. /\ pc[p] = "mint" /\ Use(p)
        /\ UNCHANGED <<key, file, backup, want, raced, cut, values>>
    BY <1>4 DEF Mint
  <2> QED
    BY <1>4, <2>1, Using
<1>5. CASE Fill(p)
  <2> DEFINE new == Job(job[p].op, job[p].ref, job[p].value, p)
             label == IF job[p].op = "read" THEN "open" ELSE "backup"
  <2>1. /\ pc[p] = "fill" /\ key' = p /\ job' = [job EXCEPT ![p] = new]
        /\ Goto(p, label) /\ UNCHANGED <<file, backup, want, raced, cut, values>>
    BY <1>5 DEF Fill
  <2>2. /\ new \in SecretJobs /\ new.op = job[p].op /\ new.ref = job[p].ref
        /\ new.value = job[p].value /\ new.key = p
    BY <2>1, WithKey
  <2>3. label \in {"open", "backup"}
    OBVIOUS
  <2> HIDE DEF new, label
  <2>4. label = "fill" => key = NoKey /\ key' = Empty
    BY <2>3
  <2> QED
    BY <2>1, <2>2, <2>3, <2>4, KeyFound
<1> QED
  BY <1>1, <1>2, <1>3, <1>4, <1>5

\* The file that a writer opens is sealed like the others.
LEMMA OpenSourceKeeps ==
    ASSUME SecretInv, NEW p \in Procs, OpenSource(p)
    PROVE  SecretInv'
<1> DEFINE r == job[p].ref
           new == [job[p] EXCEPT !.source = file[r]]
<1>0. /\ r \in Refs /\ pc[p] = "backup" /\ job[p] \in SecretJobs /\ file[r] \in SecretFiles
      /\ UNCHANGED <<key, file, backup, want, raced, cut, values>>
  BY DEF SecretInv, SecretTypes, SecretJobs, OpenSource, Data
<1>1. /\ new \in SecretJobs /\ new.source = file[r] /\ new.ref = r
      /\ new.op = job[p].op /\ new.value = job[p].value /\ new.key = job[p].key
  BY <1>0 DEF SecretJobs
<1>2. \/ Exists(r) /\ Goto(p, "copy") /\ job' = [job EXCEPT ![p] = new]
      \/ Goto(p, "replace") /\ job' = job
  BY DEF OpenSource
<1>3. /\ \A q \in Procs \ {p} : pc'[q] = pc[q] /\ job'[q] = job[q]
      /\ pc' \in [Procs -> SecretLabels] /\ job' \in [Procs -> {NoJob} \cup SecretJobs]
      /\ job'[p] \in SecretJobs /\ job'[p].ref = r /\ job'[p].op = job[p].op
      /\ job'[p].value = job[p].value /\ job'[p].key = job[p].key
      /\ pc'[p] \in {"copy", "replace"}
      /\ pc'[p] = "copy" => Exists(r) /\ job'[p].source = file[r]
  BY <1>0, <1>1, <1>2 DEF SecretInv, SecretTypes, Goto, SecretLabels
<1>4. job[p].ref = r
  OBVIOUS
<1> HIDE DEF r, new
<1>5. SecretTypes'
  BY <1>0, <1>3 DEF SecretInv, SecretTypes
<1>6. Keys'
  BY <1>0, <1>3 DEF SecretInv, Keys
<1>7. Migrations'
  BY <1>0, <1>3, <1>4 DEF SecretInv, Migrations
<1>8. Deletions'
  BY <1>0, <1>3, <1>4 DEF SecretInv, Deletions, DeletionIsComplete, Exists
<1> QED
  BY <1>5, <1>6, <1>7, <1>8 DEF SecretInv

\* The backup of a file is sealed like the file that was opened.
LEMMA BackUpKeeps ==
    ASSUME SecretInv, NEW p \in Procs, BackUp(p)
    PROVE  SecretInv'
<1> DEFINE r == job[p].ref
           old == job[p].source
<1>0. /\ r \in Refs /\ old \in SecretFiles /\ pc[p] = "copy" /\ Goto(p, "replace")
      /\ backup' = [backup EXCEPT ![r] = old]
      /\ UNCHANGED <<key, file, job, want, raced, cut, values>>
  BY DEF SecretInv, SecretTypes, SecretJobs, BackUp
<1>1. /\ pc'[p] = "replace" /\ \A q \in Procs \ {p} : pc'[q] = pc[q]
      /\ \A s \in Refs : backup'[s] = backup[s] \/ (backup'[s] = old /\ s = r)
      /\ backup' \in [Refs -> SecretFiles] /\ pc' \in [Procs -> SecretLabels]
  BY <1>0 DEF SecretInv, SecretTypes, Goto, SecretLabels
<1>2. job[p].ref = r /\ job[p].source = old
  OBVIOUS
<1> HIDE DEF r, old
<1>3. SecretTypes'
  BY <1>0, <1>1 DEF SecretInv, SecretTypes
<1>4. Keys'
  BY <1>0, <1>1, <1>2 DEF SecretInv, Keys
<1>5. Migrations'
  BY <1>0, <1>1 DEF SecretInv, Migrations
<1>6. Deletions'
  BY <1>0, <1>1, <1>2 DEF SecretInv, Deletions, DeletionIsComplete, Exists
<1> QED
  BY <1>3, <1>4, <1>5, <1>6 DEF SecretInv

\* Who has overtaken a reader says so.
LEMMA Overtaking ==
    ASSUME SecretInv, NEW p \in Procs, NEW r \in Refs, NEW q \in Procs \ {p},
           pc[q] # "idle", job[q].op = "migrate", job[q].ref = r
    PROVE  r \in Overtaken(p, r)
BY DEF Overtaken, Migrated

LEMMA ReplaceKeeps ==
    ASSUME SecretInv, NEW p \in Procs, Replace(p)
    PROVE  SecretInv'
<1> DEFINE r == job[p].ref
           new == Sealed(job[p].value, job[p].key)
<1>0. /\ pc[p] = "replace" /\ r \in Refs /\ job[p].value \in Nat
      /\ job[p].key = key /\ key \in Procs
      /\ file' = [file EXCEPT ![r] = new]
      /\ Return(p) /\ UNCHANGED <<key, backup, cut, values>>
  BY DEF SecretInv, SecretTypes, Keys, SecretJobs, Replace
<1>1. /\ new \in SecretFiles /\ new.kind = "sealed" /\ new.key = key
      /\ new.value = job[p].value /\ new # Absent
  BY <1>0 DEF Sealed, SecretFiles, Absent, Plain
<1>2. /\ file'[r] = new /\ \A s \in Refs \ {r} : file'[s] = file[s]
      /\ file' \in [Refs -> SecretFiles]
  BY <1>0, <1>1 DEF SecretInv, SecretTypes
<1>3. /\ job'[p] = NoJob /\ pc'[p] = "idle"
      /\ \A q \in Procs \ {p} : job'[q] = job[q] /\ pc'[q] = pc[q]
      /\ pc' \in [Procs -> SecretLabels] /\ job' \in [Procs -> {NoJob} \cup SecretJobs]
  BY <1>0 DEF SecretInv, SecretTypes, Return, Goto, SecretLabels
<1>4. \/ job[p].op = "migrate" /\ UNCHANGED <<want, raced>>
      \/ /\ job[p].op # "migrate" /\ want' = [want EXCEPT ![r] = job[p].value]
         /\ raced' = Overtaken(p, r)
  BY DEF Replace
<1>5. /\ want' \in [Refs -> Nat] /\ \A s \in Refs \ {r} : want'[s] = want[s]
      /\ raced \subseteq raced' /\ raced' \subseteq raced \cup {r}
      /\ job[p].op # "migrate" => want'[r] = job[p].value
      /\ job[p].op = "migrate" => UNCHANGED <<want, raced>>
      /\ \A q \in Procs \ {p} : pc[q] # "idle" /\ job[q].op = "migrate" /\ job[q].ref = r
                                /\ job[p].op # "migrate" => r \in raced'
  BY <1>0, <1>4, Overtaking DEF SecretInv, SecretTypes, Overtaken
<1> HIDE DEF r, new
<1>6. SecretTypes'
  BY <1>0, <1>2, <1>3, <1>5 DEF SecretInv, SecretTypes
<1>7. Keys'
  BY <1>0, <1>1, <1>2, <1>3 DEF SecretInv, Keys
<1>8. Migrations'
  <2>1. ASSUME NEW s \in Refs \ raced'
        PROVE  file'[s].value = want'[s]
    <3>1. CASE s # r
      BY <1>2, <1>5, <3>1 DEF SecretInv, Migrations
    <3>2. CASE s = r /\ job[p].op # "migrate"
      BY <1>1, <1>2, <1>5, <3>2
    <3>3. CASE s = r /\ job[p].op = "migrate"
      BY <1>0, <1>1, <1>2, <1>5, <3>3 DEF SecretInv, Migrations, r
    <3> QED
      BY <3>1, <3>2, <3>3
  <2>2. ASSUME NEW q \in Procs, pc'[q] # "idle", job'[q].op = "migrate",
               job'[q].ref \notin raced'
        PROVE  job'[q].value = want'[job'[q].ref]
    <3>1. q # p /\ job'[q] = job[q] /\ pc[q] # "idle" /\ job[q].ref \in Refs
      BY <1>3, <2>2 DEF SecretInv, SecretTypes, SecretJobs
    <3>2. CASE job[q].ref # r
      BY <1>5, <2>2, <3>1, <3>2 DEF SecretInv, Migrations
    <3>3. CASE job[q].ref = r
      BY <1>5, <2>2, <3>1, <3>3 DEF SecretInv, Migrations
    <3> QED
      BY <3>2, <3>3
  <2> QED
    BY <2>1, <2>2 DEF Migrations
<1>9. Deletions'
  BY <1>0, <1>1, <1>2, <1>3 DEF SecretInv, Deletions, DeletionIsComplete, Exists
<1> QED
  BY <1>6, <1>7, <1>8, <1>9 DEF SecretInv

LEMMA RemoveFileKeeps ==
    ASSUME SecretInv, NEW p \in Procs, RemoveFile(p)
    PROVE  SecretInv'
<1> DEFINE r == job[p].ref
<1>0. /\ pc[p] = "remove" /\ r \in Refs /\ job[p].op = "delete"
      /\ file' = [file EXCEPT ![r] = Absent] /\ want' = [want EXCEPT ![r] = 0]
      /\ raced' = Overtaken(p, r) /\ Goto(p, "remove_backup")
      /\ UNCHANGED <<key, backup, job, cut, values>>
  BY DEF SecretInv, SecretTypes, Deletions, SecretJobs, RemoveFile
<1>1. Absent \in SecretFiles /\ Absent.kind = "plain" /\ Absent.value = 0
  BY DEF Absent, Plain, SecretFiles
<1>2. /\ file'[r] = Absent /\ want'[r] = 0
      /\ \A s \in Refs \ {r} : file'[s] = file[s] /\ want'[s] = want[s]
      /\ file' \in [Refs -> SecretFiles] /\ want' \in [Refs -> Nat]
  BY <1>0, <1>1 DEF SecretInv, SecretTypes
<1>3. /\ pc'[p] = "remove_backup" /\ pc' \in [Procs -> SecretLabels]
      /\ \A q \in Procs \ {p} : pc'[q] = pc[q]
  BY <1>0 DEF SecretInv, SecretTypes, Goto, SecretLabels
<1>4. /\ raced \subseteq raced' /\ raced' \subseteq raced \cup {r}
      /\ \A q \in Procs \ {p} : pc[q] # "idle" /\ job[q].op = "migrate" /\ job[q].ref = r
                                => r \in raced'
  BY <1>0, Overtaking DEF Overtaken
<1>5. job[p].ref = r
  OBVIOUS
<1> HIDE DEF r
<1>6. SecretTypes'
  BY <1>0, <1>2, <1>3 DEF SecretInv, SecretTypes
<1>7. Keys'
  BY <1>0, <1>1, <1>2, <1>3 DEF SecretInv, Keys
<1>8. Migrations'
  <2>1. \A s \in Refs \ raced' : file'[s].value = want'[s]
    BY <1>1, <1>2, <1>4 DEF SecretInv, Migrations
  <2>2. ASSUME NEW q \in Procs, pc'[q] # "idle", job'[q].op = "migrate",
               job'[q].ref \notin raced'
        PROVE  job'[q].value = want'[job'[q].ref]
    <3>1. q # p /\ job'[q] = job[q] /\ pc[q] # "idle" /\ job[q].ref \in Refs
      BY <1>0, <1>3, <2>2 DEF SecretInv, SecretTypes, SecretJobs
    <3>2. CASE job[q].ref # r
      BY <1>2, <1>4, <2>2, <3>1, <3>2 DEF SecretInv, Migrations
    <3>3. CASE job[q].ref = r
      BY <1>4, <2>2, <3>1, <3>3
    <3> QED
      BY <3>2, <3>3
  <2> QED
    BY <2>1, <2>2 DEF Migrations
<1>9. Deletions'
  BY <1>0, <1>2, <1>3, <1>5 DEF SecretInv, Deletions, DeletionIsComplete, Exists
<1> QED
  BY <1>6, <1>7, <1>8, <1>9 DEF SecretInv

LEMMA RemoveBackupKeeps ==
    ASSUME SecretInv, NEW p \in Procs, RemoveBackup(p)
    PROVE  SecretInv'
<1> DEFINE r == job[p].ref
<1>0. /\ pc[p] = "remove_backup" /\ r \in Refs
      /\ backup' = [backup EXCEPT ![r] = Absent]
      /\ cut' = IF Copied(r) THEN cut \cup {r} ELSE cut \ {r}
      /\ Return(p) /\ UNCHANGED <<key, file, want, raced, values>>
  BY DEF SecretInv, SecretTypes, SecretJobs, RemoveBackup
<1>1. Absent \in SecretFiles /\ Absent.kind = "plain"
  BY DEF Absent, Plain, SecretFiles
<1>2. /\ backup'[r] = Absent /\ \A s \in Refs \ {r} : backup'[s] = backup[s]
      /\ backup' \in [Refs -> SecretFiles]
  BY <1>0, <1>1 DEF SecretInv, SecretTypes
<1>3. /\ job'[p] = NoJob /\ pc'[p] = "idle"
      /\ \A q \in Procs \ {p} : job'[q] = job[q] /\ pc'[q] = pc[q]
      /\ pc' \in [Procs -> SecretLabels] /\ job' \in [Procs -> {NoJob} \cup SecretJobs]
  BY <1>0 DEF SecretInv, SecretTypes, Return, Goto, SecretLabels
<1>4. job[p].ref = r
  OBVIOUS
<1> HIDE DEF r
<1>5. SecretTypes'
  BY <1>0, <1>2, <1>3 DEF SecretInv, SecretTypes
<1>6. Keys'
  BY <1>0, <1>1, <1>2, <1>3 DEF SecretInv, Keys
<1>7. Migrations'
  BY <1>0, <1>3 DEF SecretInv, Migrations
<1>8. Deletions'
  BY <1>0, <1>2, <1>3, <1>4 DEF SecretInv, Deletions, DeletionIsComplete, Exists, Copied
<1> QED
  BY <1>5, <1>6, <1>7, <1>8 DEF SecretInv

LEMMA ReturnKeeps ==
    ASSUME SecretInv, NEW p \in Procs, Open(p) \/ ReplaceFails(p) \/ Kill(p)
    PROVE  SecretInv'
<1>1. /\ Return(p) /\ UNCHANGED <<key, file, backup, want, raced, values>>
      /\ cut' = IF pc[p] = "remove_backup" THEN cut \cup {job[p].ref} ELSE cut
  BY DEF Open, ReplaceFails, Kill, Data
<1> QED
  BY <1>1, Returning

-----------------------------------------------------------------------------
LEMMA SecretStarts == Init => SecretInv
<1> SUFFICES ASSUME Init PROVE SecretInv
  OBVIOUS
<1>1. \A r \in Refs :
        /\ file[r] \in SecretFiles /\ file[r].kind = "plain" /\ backup[r] = Absent
        /\ backup[r] \in SecretFiles /\ backup[r].kind = "plain"
        /\ file[r].value \in Nat /\ want[r] = file[r].value
  BY DEF Init, Plain, Absent, SecretFiles
<1>2. SecretTypes
  BY <1>1 DEF Init, SecretTypes, SecretLabels
<1> QED
  BY <1>1, <1>2 DEF Init, SecretInv, Keys, Migrations, Deletions, DeletionIsComplete

LEMMA SecretKeeps == SecretInv /\ [Next]_vars => SecretInv'
<1>1. ASSUME SecretInv, NEW p \in Procs, NEW r \in Refs,
             Create(p, r) \/ Rotate(p, r) \/ Put(p, r) \/ Read(p, r) \/ Delete(p, r)
      PROVE  SecretInv'
  BY <1>1, SecretBegins
<1>2. ASSUME SecretInv, NEW p \in Procs, FindKey(p) \/ Mint(p) \/ Fill(p)
      PROVE  SecretInv'
  BY <1>2, KeyKeeps
<1>3. ASSUME SecretInv, NEW p \in Procs, Open(p) \/ ReplaceFails(p) \/ Kill(p)
      PROVE  SecretInv'
  BY <1>3, ReturnKeeps
<1>4. ASSUME SecretInv, NEW p \in Procs,
             OpenSource(p) \/ BackUp(p) \/ Replace(p) \/ RemoveFile(p) \/ RemoveBackup(p)
      PROVE  SecretInv'
  BY <1>4, OpenSourceKeeps, BackUpKeeps, ReplaceKeeps, RemoveFileKeeps, RemoveBackupKeeps
<1>5. SecretInv /\ UNCHANGED vars => SecretInv'
  BY DEF vars, SecretInv, SecretTypes, Keys, Migrations, Deletions, DeletionIsComplete, Exists
<1> QED
  BY <1>1, <1>2, <1>3, <1>4, <1>5 DEF Next

LEMMA SecretsSuffice == SecretInv => SecretsKept
BY DEF SecretInv, Keys, Migrations, Deletions, SecretsKept, SecretsOpen, MigrationKeepsValues

-----------------------------------------------------------------------------
(* The self update.                                                          *)

Held == Releases \cup {Nothing, Torn}
Updates == [before : Held, sum : Held, copied : Held]

UpdateTypes ==
    /\ published \in Releases /\ binary \in Held /\ recovery \in Held
    /\ download \in [Procs -> Held] /\ update \in [Procs -> Updates]
    /\ pc \in [Procs -> {"idle", "download", "checksum", "verify", "copy", "copying", "rename",
                         "check", "done", "failed", "unrestored"}]
    /\ overlapped \in BOOLEAN

\* What an update that runs alone has found, fetched and kept.
Updating(p) ==
    /\ pc[p] # "idle" => update[p].before \in Releases \ Broken
    /\ pc[p] \in {"download", "checksum", "verify", "copy", "copying", "rename", "failed"} =>
         binary = update[p].before
    /\ pc[p] \in {"checksum", "verify", "copy", "copying", "rename"} => download[p] \in Releases
    /\ pc[p] \in {"copy", "copying", "rename"} => download[p] \notin Broken
    /\ pc[p] = "copying" => recovery = Torn /\ update[p].copied = update[p].before
    /\ pc[p] \in {"rename", "check", "unrestored"} => recovery = update[p].before

UpdateInv ==
    /\ UpdateTypes
    /\ ~overlapped =>
         /\ \A p, q \in Procs : pc[p] # "idle" /\ pc[q] # "idle" => p = q
         /\ binary \in Releases \ Broken
         /\ \A p \in Procs : Updating(p)

\* The assumptions of SelfUpdate.
LEMMA UpdateConstants ==
    /\ 1 \in Releases /\ 1 \notin Broken
    /\ Nothing \notin Releases /\ Torn \notin Releases /\ Nothing # Torn
BY NodeAssumption DEF NodeAssumption, U!UpdateAssumption

LEMMA UpdateStarts == U!Init => UpdateInv
<1> SUFFICES ASSUME U!Init
             PROVE  UpdateInv
  OBVIOUS
<1>1. UpdateTypes
  BY UpdateConstants DEF U!Init, UpdateTypes, Held, Updates, U!NoJob
<1> QED
  BY <1>1, UpdateConstants DEF U!Init, UpdateInv, Updating

\* A step of the only update that runs.
LEMMA UpdateStep ==
    ASSUME UpdateInv, NEW p \in Procs, ~overlapped', overlapped' = overlapped, pc[p] # "idle",
           UpdateTypes', \A q \in Procs \ {p} : pc'[q] = pc[q],
           binary' \in Releases \ Broken, Updating(p)'
    PROVE  UpdateInv'
<1>1. \A q \in Procs \ {p} : pc'[q] = "idle"
  BY DEF UpdateInv
<1>2. \A q \in Procs \ {p} : Updating(q)'
  BY <1>1 DEF Updating
<1> QED
  BY <1>1, <1>2 DEF UpdateInv

LEMMA UpdateTypesKeep ==
    ASSUME UpdateTypes, U!Next
    PROVE  UpdateTypes'
<1> USE UpdateConstants DEF UpdateTypes, U!Goto, U!Host
<1>1. ASSUME NEW r \in Releases, U!Publish(r)
      PROVE  UpdateTypes'
  BY <1>1 DEF U!Publish
<1>2. ASSUME NEW p \in Procs, U!Begin(p)
      PROVE  UpdateTypes'
  BY <1>2 DEF U!Begin, U!NoJob, Held, Updates
<1>3. ASSUME NEW p \in Procs, U!Download(p) \/ U!DownloadFails(p) \/ U!DownloadChecksum(p)
      PROVE  UpdateTypes'
  BY <1>3 DEF U!Download, U!DownloadFails, U!DownloadChecksum, Held, Updates
<1>4. ASSUME NEW p \in Procs, \/ U!Verify(p) \/ U!InstalledRuns(p) \/ U!RecoveryFails(p)
                              \/ U!Refused(p) \/ U!RestoreFails(p)
      PROVE  UpdateTypes'
  BY <1>4 DEF U!Verify, U!InstalledRuns, U!RecoveryFails, U!Refused, U!RestoreFails
<1>5. ASSUME NEW p \in Procs, U!StartRecovery(p) \/ U!EndRecovery(p)
      PROVE  UpdateTypes'
  BY <1>5 DEF U!StartRecovery, U!EndRecovery, Held, Updates
<1>6. ASSUME NEW p \in Procs, U!Rename(p) \/ U!InstalledFails(p)
      PROVE  UpdateTypes'
  BY <1>6 DEF U!Rename, U!InstalledFails, Held
<1>7. ASSUME NEW p \in Procs, U!Return(p) \/ U!Kill(p)
      PROVE  UpdateTypes'
  <2>1. U!NoJob \in Updates
    BY DEF U!NoJob, Held, Updates
  <2> QED
    BY <1>7, <2>1 DEF U!Return, U!Kill, Held
<1> QED
  BY <1>1, <1>2, <1>3, <1>4, <1>5, <1>6, <1>7 DEF U!Next

LEMMA UpdateKeeps ==
    ASSUME UpdateInv, U!Next
    PROVE  UpdateInv'
<1>0. UpdateTypes /\ UpdateTypes'
  BY UpdateTypesKeep DEF UpdateInv
<1>1. CASE overlapped'
  BY <1>0, <1>1 DEF UpdateInv
<1> SUFFICES ASSUME ~overlapped'
             PROVE  UpdateInv'
  BY <1>1
<1> USE UpdateConstants DEF U!Goto, U!Host
<1>2. ASSUME NEW r \in Releases, U!Publish(r)
      PROVE  UpdateInv'
  BY <1>0, <1>2 DEF U!Publish, UpdateInv, Updating
<1>3. ASSUME NEW p \in Procs, U!Begin(p)
      PROVE  UpdateInv'
  <2>1. ~overlapped /\ \A q \in Procs \ {p} : pc[q] = "idle" /\ pc'[q] = "idle"
    BY <1>0, <1>3 DEF U!Begin, UpdateTypes
  <2>2. update'[p].before = binary /\ pc'[p] = "download"
    BY <1>0, <1>3 DEF U!Begin, U!NoJob, UpdateTypes
  <2>3. binary' = binary /\ binary \in Releases \ Broken
    BY <1>3, <2>1 DEF U!Begin, UpdateInv
  <2>4. \A q \in Procs : Updating(q)'
    BY <2>1, <2>2, <2>3 DEF Updating
  <2> QED
    BY <1>0, <2>1, <2>3, <2>4 DEF UpdateInv
<1>4. ASSUME NEW p \in Procs, pc[p] # "idle", overlapped' = overlapped, Updating(p),
             binary \in Releases \ Broken,
             \/ U!Download(p) \/ U!DownloadFails(p) \/ U!DownloadChecksum(p) \/ U!Verify(p)
             \/ U!StartRecovery(p) \/ U!EndRecovery(p) \/ U!RecoveryFails(p)
             \/ U!Refused(p) \/ U!Rename(p) \/ U!InstalledRuns(p) \/ U!InstalledFails(p)
             \/ U!RestoreFails(p) \/ U!Return(p) \/ U!Kill(p)
      PROVE  UpdateInv'
  <2>1. ASSUME \A q \in Procs \ {p} : pc'[q] = pc[q],
               binary' \in Releases \ Broken, Updating(p)'
        PROVE  UpdateInv'
    BY <1>0, <1>4, <2>1, UpdateStep
  <2> USE <1>0 DEF UpdateTypes
  <2>2. CASE U!Download(p) \/ U!DownloadFails(p) \/ U!DownloadChecksum(p)
    BY <1>4, <2>1, <2>2 DEF U!Download, U!DownloadFails, U!DownloadChecksum, Updating, Updates
  <2>3. CASE U!Verify(p)
    BY <1>4, <2>1, <2>3 DEF U!Verify, U!Verified, Updating
  <2>4. CASE U!StartRecovery(p)
    BY <1>4, <2>1, <2>4 DEF U!StartRecovery, Updating, Updates
  <2>5. CASE U!EndRecovery(p) \/ U!RecoveryFails(p) \/ U!Refused(p)
    BY <1>4, <2>1, <2>5 DEF U!EndRecovery, U!RecoveryFails, U!Refused, Updating
  <2>6. CASE U!Rename(p)
    BY <1>4, <2>1, <2>6 DEF U!Rename, Updating
  <2>7. CASE U!InstalledRuns(p) \/ U!InstalledFails(p) \/ U!RestoreFails(p)
    BY <1>4, <2>1, <2>7 DEF U!InstalledRuns, U!InstalledFails, U!RestoreFails, Updating
  <2>8. CASE U!Return(p) \/ U!Kill(p)
    BY <1>4, <2>1, <2>8 DEF U!Return, U!Kill, Updating
  <2> QED
    BY <1>4, <2>2, <2>3, <2>4, <2>5, <2>6, <2>7, <2>8
<1>5. ASSUME NEW p \in Procs,
             \/ U!Download(p) \/ U!DownloadFails(p) \/ U!DownloadChecksum(p) \/ U!Verify(p)
             \/ U!StartRecovery(p) \/ U!EndRecovery(p) \/ U!RecoveryFails(p)
             \/ U!Refused(p) \/ U!Rename(p) \/ U!InstalledRuns(p) \/ U!InstalledFails(p)
             \/ U!RestoreFails(p) \/ U!Return(p) \/ U!Kill(p)
      PROVE  UpdateInv'
  <2>1. pc[p] # "idle" /\ overlapped' = overlapped
    BY <1>5
       DEF U!Download, U!DownloadFails, U!DownloadChecksum, U!Verify, U!StartRecovery,
           U!EndRecovery, U!RecoveryFails, U!Refused, U!Rename, U!InstalledRuns,
           U!InstalledFails, U!RestoreFails, U!Return, U!Kill
  <2>2. Updating(p) /\ binary \in Releases \ Broken
    BY <2>1 DEF UpdateInv
  <2> QED
    BY <1>4, <1>5, <2>1, <2>2
<1> QED
  BY <1>2, <1>3, <1>5 DEF U!Next

-----------------------------------------------------------------------------
(* The integration.                                                          *)

Settings == I!Configurations
Runs == [Workers -> Settings \cup {I!Down}]
Applies == [op : {"apply"}, path : Releases, original : Settings, was : Runs, had : BOOLEAN,
            todo : SUBSET Workers, restarted : SUBSET Workers,
            half : SUBSET (Workers \cup {"file", "reference"})]

IntegrationTypes ==
    /\ env \in [Releases -> Settings] /\ current \in Releases /\ runs \in Runs
    /\ attached \in BOOLEAN /\ snapshots \subseteq [path : Releases, content : Settings]
    /\ edits \in 0..MaxEdits
    /\ pc \in [Procs -> {"idle", "install", "read", "write", "restart", "restore", "again"}]
    /\ \A p \in Procs : pc[p] # "idle" => job[p] \in Applies
    /\ DOMAIN job = Procs

\* What a call that nothing else disturbs has found and done.
Applying(p) ==
    /\ job[p].path = current
    /\ "reference" \notin job[p].half => attached = job[p].had
    /\ pc[p] \in {"install", "read", "write", "restart"} => job[p].half = {}
    /\ pc[p] \in {"install", "read", "write"} =>
         env[current] = job[p].original /\ runs = job[p].was
           /\ job[p].todo = Workers /\ job[p].restarted = {}
    /\ pc[p] = "restart" => job[p].todo \cup job[p].restarted = Workers
    /\ pc[p] \in {"restart", "restore"} =>
         \A w \in Workers \ (job[p].restarted \cup job[p].half) :
            runs[w] \in {job[p].was[w], I!Down}
    /\ pc[p] = "restart" => \A w \in job[p].todo \ job[p].restarted : runs[w] = job[p].was[w]
    /\ pc[p] = "again" =>
         /\ "file" \notin job[p].half => env[current] = job[p].original
         /\ \A w \in Workers \ (job[p].restarted \cup job[p].half) :
              runs[w] \in {job[p].was[w], env[current], I!Down}

IntegrationInv ==
    /\ IntegrationTypes
    /\ \A p, q \in Procs : pc[p] # "idle" /\ pc[q] # "idle" => p = q \/ p \in disturbed
    /\ \A p \in Procs \ disturbed : pc[p] # "idle" => Applying(p)

LEMMA IntegrationStarts == I!Init => IntegrationInv
<1> SUFFICES ASSUME I!Init
             PROVE  IntegrationInv
  OBVIOUS
<1>1. MaxEdits \in Nat
  BY NodeAssumption DEF NodeAssumption, I!IntegrationAssumption
<1>2. IntegrationTypes
  <2>1. [edit |-> 0, redis |-> FALSE] \in Settings
    BY <1>1 DEF Settings, I!Configurations
  <2>2. env \in [Releases -> Settings] /\ current \in Releases
    BY <2>1 DEF I!Init
  <2>3. runs \in Runs
    BY <2>2 DEF I!Init, Runs
  <2>4. /\ attached \in BOOLEAN /\ snapshots = {} /\ edits = 0
        /\ pc = [p \in Procs |-> "idle"] /\ DOMAIN job = Procs
    BY DEF I!Init
  <2> QED
    BY <1>1, <2>2, <2>3, <2>4 DEF IntegrationTypes
<1> QED
  BY <1>2 DEF I!Init, IntegrationInv

IntegrationCall(p) ==
    \/ I!Install(p) \/ I!ReadAndSnapshot(p) \/ I!Refused(p)
    \/ I!WriteConfiguration(p) \/ I!WriteFails(p)
    \/ \E w \in Workers : I!RestartWorker(p, w) \/ I!RestartFails(p, w)
    \/ I!VerifyAndAttach(p) \/ I!VerificationFails(p) \/ I!AttachFails(p)
    \/ I!RestoreAfterFailure(p) \/ I!RestoreFails(p)
    \/ \E w \in Workers : I!RestartAgain(p, w) \/ I!RestartAgainFails(p, w)
    \/ I!Fail(p) \/ I!Kill(p)

\* What a step of a call does whatever else it does.
CallKeeps(p) ==
    /\ pc[p] # "idle" /\ \A q \in Procs \ {p} : pc'[q] = pc[q] /\ job'[q] = job[q]
    /\ disturbed \subseteq disturbed' /\ (p \in disturbed' => p \in disturbed)

\* The configuration that a call writes.
LEMMA WrittenIs ==
    ASSUME IntegrationTypes, NEW p \in Procs, pc[p] # "idle", I!Written(p)
    PROVE  env' \in [Releases -> Settings]
<1>1. job[p] \in Applies
  BY DEF IntegrationTypes
<1>2. [job[p].original EXCEPT !.redis = TRUE] \in Settings
  BY <1>1 DEF Applies, Settings, I!Configurations
<1> QED
  BY <1>1, <1>2 DEF IntegrationTypes, I!Written, Applies

\* A step of a call that nothing else disturbs, by what it leaves behind.
Goes(p) == IntegrationTypes' /\ CallKeeps(p) /\ (Applying(p) /\ pc'[p] # "idle" => Applying(p)')

LEMMA WorkersStart ==
    ASSUME IntegrationTypes, NEW w \in Workers
    PROVE  /\ I!Started(w) \in Runs /\ [runs EXCEPT ![w] = I!Down] \in Runs
           /\ I!Started(w)[w] = env[current] /\ [runs EXCEPT ![w] = I!Down][w] = I!Down
           /\ \A v \in Workers \ {w} :
                I!Started(w)[v] = runs[v] /\ [runs EXCEPT ![w] = I!Down][v] = runs[v]
BY DEF IntegrationTypes, I!Started, Runs

LEMMA RestartWorkerGoes ==
    ASSUME IntegrationTypes, NEW p \in Procs, NEW w \in Workers, I!RestartWorker(p, w)
    PROVE  Goes(p)
<1>1. /\ pc[p] = "restart" /\ runs' = I!Started(w)
      /\ job' = [job EXCEPT ![p].todo = @ \ {w}, ![p].restarted = @ \cup {w}]
      /\ UNCHANGED <<env, current, attached, snapshots, pc, disturbed, edits>>
  BY DEF I!RestartWorker, I!Rest
<1>2. job[p] \in Applies /\ DOMAIN job = Procs
  BY <1>1 DEF IntegrationTypes
<1>3. /\ job'[p] \in Applies /\ DOMAIN job' = Procs
      /\ \A q \in Procs \ {p} : job'[q] = job[q]
      /\ job'[p].path = job[p].path /\ job'[p].had = job[p].had
      /\ job'[p].was = job[p].was /\ job'[p].original = job[p].original
      /\ job'[p].todo = job[p].todo \ {w} /\ job'[p].restarted = job[p].restarted \cup {w}
      /\ job'[p].half = job[p].half
  BY <1>1, <1>2 DEF Applies
<1>4. runs' \in Runs /\ \A v \in Workers \ {w} : runs'[v] = runs[v]
  BY <1>1, WorkersStart
<1>5. IntegrationTypes' /\ CallKeeps(p)
  BY <1>1, <1>3, <1>4 DEF IntegrationTypes, CallKeeps
<1>6. ASSUME Applying(p)
      PROVE  Applying(p)'
  BY <1>1, <1>3, <1>4, <1>6 DEF Applying
<1> QED
  BY <1>5, <1>6 DEF Goes

LEMMA RestartFailsGoes ==
    ASSUME IntegrationTypes, NEW p \in Procs, NEW w \in Workers, I!RestartFails(p, w)
    PROVE  Goes(p)
<1> DEFINE todo == job[p].todo
           restarted == job[p].restarted
<1>1. /\ pc[p] = "restart" /\ pc' = [pc EXCEPT ![p] = "restore"] /\ w \in todo
      /\ UNCHANGED <<env, current, attached, snapshots, disturbed, edits>>
  BY DEF I!RestartFails, I!Rest, I!Goto
<1>2. /\ job[p] \in Applies /\ todo \subseteq Workers /\ restarted \subseteq Workers
      /\ job[p].half \subseteq Workers \cup {"file", "reference"}
      /\ todo = job[p].todo /\ restarted = job[p].restarted
      /\ pc'[p] = "restore" /\ \A q \in Procs \ {p} : pc'[q] = pc[q]
  BY <1>1 DEF IntegrationTypes, Applies
<1> HIDE DEF todo, restarted
<1>3. ASSUME NEW half, half \subseteq Workers \cup {"file", "reference"},
             half = job[p].half \/ half = job[p].half \cup {w},
             (job' = job /\ half = job[p].half) \/ job' = [job EXCEPT ![p].half = half],
             runs' \in Runs, \A v \in Workers \ {w} : runs'[v] = runs[v],
             w \in half \/ runs'[w] \in {runs[w], I!Down}
      PROVE  Goes(p)
  <2>1. /\ job'[p] \in Applies /\ DOMAIN job' = Procs
        /\ \A q \in Procs \ {p} : job'[q] = job[q]
        /\ job'[p].path = job[p].path /\ job'[p].had = job[p].had
        /\ job'[p].was = job[p].was /\ job'[p].original = job[p].original
        /\ job'[p].todo = todo /\ job'[p].restarted = restarted /\ job'[p].half = half
    BY <1>1, <1>2, <1>3 DEF IntegrationTypes, Applies
  <2>2. IntegrationTypes' /\ CallKeeps(p)
    BY <1>1, <1>2, <1>3, <2>1 DEF IntegrationTypes, CallKeeps
  <2>3. ASSUME Applying(p)
        PROVE  Applying(p)'
    <3>1. ASSUME NEW v \in Workers \ (restarted \cup half)
          PROVE  runs'[v] \in {job[p].was[v], I!Down}
      <4>1. runs[v] \in {job[p].was[v], I!Down}
        BY <1>1, <1>2, <1>3, <2>3 DEF Applying
      <4> QED
        BY <1>3, <4>1
    <3> QED
      BY <1>1, <1>2, <1>3, <2>1, <2>3, <3>1 DEF Applying
  <2> QED
    BY <2>2, <2>3 DEF Goes
<1>4. CASE runs' \in {runs, [runs EXCEPT ![w] = I!Down]} /\ UNCHANGED job
  <2>1. /\ runs' \in Runs /\ \A v \in Workers \ {w} : runs'[v] = runs[v]
        /\ runs'[w] \in {runs[w], I!Down}
    BY <1>4, WorkersStart DEF IntegrationTypes
  <2> QED
    BY <1>2, <1>3, <1>4, <2>1
<1>5. CASE runs' = I!Started(w) /\ job' = [job EXCEPT ![p].half = @ \cup {w}]
  <2> DEFINE half == job[p].half \cup {w}
  <2>1. job' = [job EXCEPT ![p].half = half]
    BY <1>2, <1>5 DEF IntegrationTypes
  <2>2. /\ runs' \in Runs /\ \A v \in Workers \ {w} : runs'[v] = runs[v]
        /\ half \subseteq Workers \cup {"file", "reference"}
    BY <1>2, <1>5, WorkersStart
  <2> QED
    BY <1>3, <2>1, <2>2
<1> QED
  BY <1>4, <1>5 DEF I!RestartFails

LEMMA RestartAgainGoes ==
    ASSUME IntegrationTypes, NEW p \in Procs, NEW w \in Workers,
           I!RestartAgain(p, w) \/ I!RestartAgainFails(p, w)
    PROVE  Goes(p)
<1> DEFINE todo == job[p].todo
           restarted == job[p].restarted \ {w}
<1>1. /\ pc[p] = "again" /\ pc' = pc
      /\ UNCHANGED <<env, current, attached, snapshots, disturbed, edits>>
  BY DEF I!RestartAgain, I!RestartAgainFails, I!Rest
<1>2. /\ job[p] \in Applies /\ todo \subseteq Workers /\ restarted \subseteq Workers
      /\ job[p].half \subseteq Workers \cup {"file", "reference"}
      /\ todo = job[p].todo /\ restarted = job[p].restarted \ {w}
  BY <1>1 DEF IntegrationTypes, Applies
<1> HIDE DEF todo, restarted
<1>3. ASSUME NEW half, half \subseteq Workers \cup {"file", "reference"},
             job[p].half \subseteq half, half \subseteq job[p].half \cup {w},
             \/ job' = [job EXCEPT ![p].restarted = restarted] /\ half = job[p].half
             \/ job' = [job EXCEPT ![p].restarted = restarted, ![p].half = half],
             runs' \in Runs, \A v \in Workers \ {w} : runs'[v] = runs[v],
             w \in half \/ runs'[w] \in {env[current], I!Down}
      PROVE  Goes(p)
  <2>1. /\ job'[p] \in Applies /\ DOMAIN job' = Procs
        /\ \A q \in Procs \ {p} : job'[q] = job[q]
        /\ job'[p].path = job[p].path /\ job'[p].had = job[p].had
        /\ job'[p].was = job[p].was /\ job'[p].original = job[p].original
        /\ job'[p].todo = todo /\ job'[p].restarted = restarted /\ job'[p].half = half
    BY <1>1, <1>2, <1>3 DEF IntegrationTypes, Applies
  <2>2. IntegrationTypes' /\ CallKeeps(p)
    BY <1>1, <1>2, <1>3, <2>1 DEF IntegrationTypes, CallKeeps
  <2>3. ASSUME Applying(p)
        PROVE  Applying(p)'
    <3>1. ASSUME NEW v \in Workers \ (restarted \cup half)
          PROVE  runs'[v] \in {job[p].was[v], env[current], I!Down}
      <4>1. v = w \/ runs[v] \in {job[p].was[v], env[current], I!Down}
        BY <1>1, <1>2, <1>3, <2>3 DEF Applying
      <4> QED
        BY <1>3, <4>1
    <3> QED
      BY <1>1, <1>2, <1>3, <2>1, <2>3, <3>1 DEF Applying
  <2> QED
    BY <2>2, <2>3 DEF Goes
<1>4. CASE I!RestartAgain(p, w)
  <2>1. runs' = I!Started(w) /\ job' = [job EXCEPT ![p].restarted = restarted]
    BY <1>2, <1>4 DEF I!RestartAgain, IntegrationTypes
  <2> QED
    BY <1>2, <1>3, <2>1, WorkersStart
<1>5. CASE UNCHANGED runs /\ job' = [job EXCEPT ![p].restarted = @ \ {w}, ![p].half = @ \cup {w}]
  <2> DEFINE half == job[p].half \cup {w}
  <2>1. job' = [job EXCEPT ![p].restarted = restarted, ![p].half = half]
    BY <1>2, <1>5 DEF IntegrationTypes, Applies
  <2>2. runs' \in Runs /\ half \subseteq Workers \cup {"file", "reference"}
    BY <1>2, <1>5 DEF IntegrationTypes
  <2> QED
    BY <1>3, <1>5, <2>1, <2>2
<1>6. CASE runs' = [runs EXCEPT ![w] = I!Down] /\ job' = [job EXCEPT ![p].restarted = @ \ {w}]
  <2>1. job' = [job EXCEPT ![p].restarted = restarted]
    BY <1>2, <1>6 DEF IntegrationTypes
  <2> QED
    BY <1>2, <1>3, <1>6, <2>1, WorkersStart
<1> QED
  BY <1>4, <1>5, <1>6 DEF I!RestartAgainFails

LEMMA HalfIs ==
    ASSUME IntegrationTypes, NEW p \in Procs, pc[p] # "idle",
           NEW half \in SUBSET (Workers \cup {"file", "reference"}),
           job' = [job EXCEPT ![p].half = half]
    PROVE  /\ job'[p] \in Applies /\ DOMAIN job' = Procs
           /\ \A q \in Procs \ {p} : job'[q] = job[q]
           /\ job'[p].path = job[p].path /\ job'[p].had = job[p].had
           /\ job'[p].was = job[p].was /\ job'[p].original = job[p].original
           /\ job'[p].todo = job[p].todo /\ job'[p].restarted = job[p].restarted
           /\ job'[p].half = half
BY DEF IntegrationTypes, Applies

\* The file or the reference is left half done.
LEMMA HalfGoes ==
    ASSUME IntegrationTypes, NEW p \in Procs,
           I!WriteFails(p) \/ I!AttachFails(p) \/ I!RestoreFails(p)
    PROVE  Goes(p)
<1>1. /\ pc[p] # "idle" /\ job[p] \in Applies
      /\ job[p].half \subseteq Workers \cup {"file", "reference"}
  BY DEF I!WriteFails, I!AttachFails, I!RestoreFails, IntegrationTypes, Applies
<1>3. CASE I!WriteFails(p)
  <2>1. /\ pc[p] = "write" /\ pc' = [pc EXCEPT ![p] = "again"] /\ I!Written(p)
        /\ I!Disturb(p) /\ job' = [job EXCEPT ![p].half = {"file"}]
        /\ UNCHANGED <<current, runs, attached, snapshots, edits>>
    BY <1>3 DEF I!WriteFails, I!Goto, I!Rest
  <2>2. /\ pc'[p] = "again" /\ \A q \in Procs \ {p} : pc'[q] = pc[q]
        /\ env' \in [Releases -> Settings]
    BY <1>1, <2>1, WrittenIs DEF IntegrationTypes
  <2>3. /\ job'[p] \in Applies /\ DOMAIN job' = Procs
        /\ \A q \in Procs \ {p} : job'[q] = job[q]
        /\ job'[p].path = job[p].path /\ job'[p].had = job[p].had
        /\ job'[p].was = job[p].was /\ job'[p].original = job[p].original
        /\ job'[p].todo = job[p].todo /\ job'[p].restarted = job[p].restarted
        /\ job'[p].half = {"file"}
    BY <1>1, <2>1, <2>2, HalfIs
  <2>4. IntegrationTypes' /\ CallKeeps(p)
    BY <1>1, <2>1, <2>2, <2>3 DEF IntegrationTypes, CallKeeps, I!Disturb
  <2>5. ASSUME Applying(p)
        PROVE  Applying(p)'
    BY <1>1, <2>1, <2>2, <2>3, <2>5 DEF Applying
  <2> QED
    BY <2>4, <2>5 DEF Goes
<1>4. CASE I!AttachFails(p)
  <2>1. /\ pc[p] = "restart" /\ job[p].todo = {} /\ pc' = [pc EXCEPT ![p] = "restore"]
        /\ attached' = TRUE /\ I!Disturb(p)
        /\ job' = [job EXCEPT ![p].half = job[p].half \cup {"reference"}]
        /\ UNCHANGED <<env, current, runs, snapshots, edits>>
    BY <1>1, <1>4 DEF I!AttachFails, I!Goto, I!Rest, IntegrationTypes
  <2>2. /\ pc'[p] = "restore" /\ \A q \in Procs \ {p} : pc'[q] = pc[q]
        /\ job[p].half \cup {"reference"} \subseteq Workers \cup {"file", "reference"}
    BY <1>1, <2>1 DEF IntegrationTypes
  <2>3. /\ job'[p] \in Applies /\ DOMAIN job' = Procs
        /\ \A q \in Procs \ {p} : job'[q] = job[q]
        /\ job'[p].path = job[p].path /\ job'[p].had = job[p].had
        /\ job'[p].was = job[p].was /\ job'[p].original = job[p].original
        /\ job'[p].todo = job[p].todo /\ job'[p].restarted = job[p].restarted
        /\ job'[p].half = job[p].half \cup {"reference"}
    BY <1>1, <2>1, <2>2, HalfIs
  <2>4. IntegrationTypes' /\ CallKeeps(p)
    BY <1>1, <2>1, <2>2, <2>3 DEF IntegrationTypes, CallKeeps, I!Disturb
  <2>5. ASSUME Applying(p)
        PROVE  Applying(p)'
    BY <1>1, <2>1, <2>2, <2>3, <2>5 DEF Applying
  <2> QED
    BY <2>4, <2>5 DEF Goes
<1>5. CASE I!RestoreFails(p)
  <2>1. /\ pc[p] = "restore" /\ pc' = [pc EXCEPT ![p] = "again"]
        /\ job' = [job EXCEPT ![p].half = job[p].half \cup {"file"}]
        /\ UNCHANGED <<env, current, runs, attached, snapshots, disturbed, edits>>
    BY <1>1, <1>5 DEF I!RestoreFails, I!Goto, I!Rest, I!Application, IntegrationTypes
  <2>2. /\ pc'[p] = "again" /\ \A q \in Procs \ {p} : pc'[q] = pc[q]
        /\ job[p].half \cup {"file"} \subseteq Workers \cup {"file", "reference"}
    BY <1>1, <2>1 DEF IntegrationTypes
  <2>3. /\ job'[p] \in Applies /\ DOMAIN job' = Procs
        /\ \A q \in Procs \ {p} : job'[q] = job[q]
        /\ job'[p].path = job[p].path /\ job'[p].had = job[p].had
        /\ job'[p].was = job[p].was /\ job'[p].original = job[p].original
        /\ job'[p].todo = job[p].todo /\ job'[p].restarted = job[p].restarted
        /\ job'[p].half = job[p].half \cup {"file"}
    BY <1>1, <2>1, <2>2, HalfIs
  <2>4. IntegrationTypes' /\ CallKeeps(p)
    BY <1>1, <2>1, <2>2, <2>3 DEF IntegrationTypes, CallKeeps
  <2>5. ASSUME Applying(p)
        PROVE  Applying(p)'
    BY <1>1, <2>1, <2>2, <2>3, <2>5 DEF Applying
  <2> QED
    BY <2>4, <2>5 DEF Goes
<1> QED
  BY <1>3, <1>4, <1>5

LEMMA CallsGo ==
    ASSUME IntegrationTypes, NEW p \in Procs, IntegrationCall(p)
    PROVE  Goes(p)
<1>1. CASE I!Install(p) \/ I!Refused(p) \/ I!VerificationFails(p) \/ I!Fail(p) \/ I!Kill(p)
  <2>1. IntegrationTypes' /\ CallKeeps(p)
    BY <1>1
       DEF I!Install, I!Refused, I!VerificationFails, I!Fail, I!Kill, IntegrationTypes, I!Goto,
           I!Rest, I!Application, CallKeeps
  <2>2. Applying(p) /\ pc'[p] # "idle" => Applying(p)'
    BY <1>1
       DEF I!Install, I!Refused, I!VerificationFails, I!Fail, I!Kill, IntegrationTypes, I!Goto,
           I!Rest, I!Application, Applying
  <2> QED
    BY <2>1, <2>2 DEF Goes
<1>2. CASE I!ReadAndSnapshot(p)
  <2>1. IntegrationTypes' /\ CallKeeps(p)
    BY <1>2
       DEF I!ReadAndSnapshot, Applies, IntegrationTypes, I!Goto, I!Rest, I!Application, CallKeeps
  <2>2. Applying(p) => Applying(p)'
    BY <1>2
       DEF I!ReadAndSnapshot, Applies, IntegrationTypes, I!Goto, I!Rest, I!Application, Applying
  <2> QED
    BY <2>1, <2>2 DEF Goes
<1>3. CASE I!WriteConfiguration(p)
  <2>0. pc[p] # "idle" /\ env' \in [Releases -> Settings]
    BY <1>3, WrittenIs DEF I!WriteConfiguration
  <2>1. IntegrationTypes' /\ CallKeeps(p)
    BY <1>3, <2>0
       DEF I!WriteConfiguration, IntegrationTypes, I!Goto, I!Rest, CallKeeps, I!Disturb
  <2>2. Applying(p) => Applying(p)'
    BY <1>3 DEF I!WriteConfiguration, I!Written, IntegrationTypes, I!Goto, I!Rest, Applying
  <2> QED
    BY <2>1, <2>2 DEF Goes
<1>4. CASE I!VerifyAndAttach(p)
  <2>1. IntegrationTypes' /\ CallKeeps(p) /\ pc'[p] = "idle"
    BY <1>4
       DEF I!VerifyAndAttach, IntegrationTypes, I!Goto, I!Rest, CallKeeps, I!Disturb
  <2> QED
    BY <2>1 DEF Goes
<1>5. CASE I!RestoreAfterFailure(p)
  <2>1. IntegrationTypes' /\ CallKeeps(p)
    BY <1>5
       DEF I!RestoreAfterFailure, I!Restored, Applies, IntegrationTypes, I!Goto, I!Rest,
           CallKeeps, I!Disturb
  <2>2. Applying(p) => Applying(p)'
    BY <1>5
       DEF I!RestoreAfterFailure, I!Restored, Applies, IntegrationTypes, I!Goto, I!Rest, Applying
  <2> QED
    BY <2>1, <2>2 DEF Goes
<1> QED
  BY <1>1, <1>2, <1>3, <1>4, <1>5, RestartWorkerGoes, RestartFailsGoes, RestartAgainGoes, HalfGoes
     DEF IntegrationCall

LEMMA CallsKeep ==
    ASSUME IntegrationInv, NEW p \in Procs, IntegrationCall(p)
    PROVE  IntegrationInv'
<1>1. IntegrationTypes' /\ CallKeeps(p) /\ IntegrationTypes
  BY CallsGo DEF IntegrationInv, Goes
<1>2. \A q \in Procs \ {p} : pc'[q] # "idle" => q \in disturbed'
  BY <1>1 DEF IntegrationInv, CallKeeps
<1>3. p \notin disturbed' /\ pc'[p] # "idle" => Applying(p)'
  BY <1>1, CallsGo DEF IntegrationInv, CallKeeps, Goes
<1>4. \A q, r \in Procs : pc'[q] # "idle" /\ pc'[r] # "idle" => q = r \/ q \in disturbed'
  BY <1>1, <1>2 DEF IntegrationInv, CallKeeps
<1> QED
  BY <1>1, <1>2, <1>3, <1>4 DEF IntegrationInv

LEMMA ApplyKeeps ==
    ASSUME IntegrationInv, NEW p \in Procs, I!Apply(p)
    PROVE  IntegrationInv'
<1> USE DEF I!Apply, I!Goto, I!Application, I!Rest
<1> DEFINE j == [op |-> "apply", path |-> current, original |-> env[current],
                 was |-> runs, had |-> attached, todo |-> Workers, restarted |-> {},
                 half |-> {}]
<1>0. IntegrationTypes
  BY DEF IntegrationInv
<1>1. j \in Applies
  BY <1>0 DEF IntegrationTypes, Applies
<1>2. job' = [job EXCEPT ![p] = j] /\ pc' = [pc EXCEPT ![p] = "install"]
  OBVIOUS
<1>3. IntegrationTypes'
  BY <1>0, <1>1, <1>2 DEF IntegrationTypes
<1>4. Applying(p)'
  BY <1>0, <1>2 DEF Applying, IntegrationTypes
<1>5. CASE \A q \in Procs \ {p} : pc[q] = "idle"
  <2>1. \A q \in Procs \ {p} : pc'[q] = "idle"
    BY <1>0, <1>2, <1>5 DEF IntegrationTypes
  <2> QED
    BY <1>3, <1>4, <2>1 DEF IntegrationInv
<1>6. CASE ~ \A q \in Procs \ {p} : pc[q] = "idle"
  <2>1. Procs \subseteq disturbed'
    BY <1>6
  <2> QED
    BY <1>3, <2>1 DEF IntegrationInv
<1> QED
  BY <1>5, <1>6

\* A roll-back, an edit and a deployment disturb every call under way.
LEMMA OthersDisturb ==
    ASSUME IntegrationInv,
           \/ \E p \in Procs, s \in snapshots : I!RollBack(p, s)
           \/ I!Edit \/ \E r \in Releases : I!Deploy(r)
    PROVE  IntegrationInv'
<1>0. IntegrationTypes /\ MaxEdits \in Nat
  BY NodeAssumption DEF IntegrationInv, NodeAssumption, I!IntegrationAssumption
<1>1. ASSUME IntegrationTypes', UNCHANGED <<pc, job>>, disturbed \subseteq disturbed',
             \A p \in Procs : pc[p] # "idle" => p \in disturbed'
      PROVE  IntegrationInv'
  BY <1>1 DEF IntegrationInv
<1>2. ASSUME NEW p \in Procs, NEW s \in snapshots, I!RollBack(p, s)
      PROVE  IntegrationInv'
  <2>1. IntegrationTypes'
    BY <1>0, <1>2 DEF I!RollBack, I!Restored, IntegrationTypes, I!Rest
  <2> QED
    BY <1>1, <1>2, <2>1 DEF I!RollBack, I!Disturb
<1>3. CASE I!Edit
  <2>1. [env[current] EXCEPT !.edit = edits + 1] \in Settings /\ edits + 1 \in 0..MaxEdits
    BY <1>0, <1>3 DEF I!Edit, IntegrationTypes, Settings, I!Configurations
  <2>2. IntegrationTypes'
    BY <1>0, <1>3, <2>1 DEF I!Edit, IntegrationTypes
  <2> QED
    BY <1>1, <1>3, <2>2 DEF I!Edit
<1>4. ASSUME NEW r \in Releases, I!Deploy(r)
      PROVE  IntegrationInv'
  <2>1. IntegrationTypes'
    BY <1>0, <1>4 DEF I!Deploy, IntegrationTypes, Runs
  <2> QED
    BY <1>1, <1>4, <2>1 DEF I!Deploy
<1> QED
  BY <1>2, <1>3, <1>4

LEMMA IntegrationKeeps ==
    ASSUME IntegrationInv, I!Next
    PROVE  IntegrationInv'
BY CallsKeep, ApplyKeeps, OthersDisturb DEF I!Next, IntegrationCall

LEMMA IntegrationIsEnough ==
    ASSUME IntegrationInv
    PROVE  I!FailedIntegrationIsUndone
BY DEF IntegrationInv, Applying, I!FailedIntegrationIsUndone

-----------------------------------------------------------------------------
(* A behaviour is about one part of the node.                                *)

LEMMA AboutUpdate ==
    ASSUME NodeNext, about = "update"
    PROVE  U!Next /\ about' = about
BY DEF NodeNext, U!Next, OnlySecret, OnlyFile, OnlyJournal, OnlyUpdate, OnlyCache, OnlyIntegration

LEMMA AboutIntegration ==
    ASSUME NodeNext, about = "integration"
    PROVE  I!Next /\ about' = about
BY DEF NodeNext, I!Next, OnlySecret, OnlyFile, OnlyJournal, OnlyUpdate, OnlyCache, OnlyIntegration

LEMMA AboutFile ==
    ASSUME NodeNext, about = "file"
    PROVE  F!Next /\ about' = about
BY DEF NodeNext, F!Next, F!Step, OnlySecret, OnlyFile, OnlyJournal, OnlyUpdate, OnlyCache, OnlyIntegration

LEMMA AboutCache ==
    ASSUME NodeNext, about = "cache"
    PROVE  C!Next /\ about' = about
BY DEF NodeNext, C!Next, OnlySecret, OnlyFile, OnlyJournal, OnlyUpdate, OnlyCache, OnlyIntegration

LEMMA AboutStays ==
    ASSUME NodeNext
    PROVE  about' = about
BY DEF NodeNext, OnlySecret, OnlyFile, OnlyJournal, OnlyUpdate, OnlyCache, OnlyIntegration

nodeVars == <<vars, replaced, journal, updated, cache, application, faults, about>>

FailureInv ==
    /\ about = "update" => UpdateInv
    /\ about = "integration" => IntegrationInv

LEMMA FailureKeeps ==
    ASSUME FailureInv, [NodeNext]_nodeVars
    PROVE  FailureInv'
<1>1. CASE NodeNext
  BY <1>1, AboutStays, AboutUpdate, AboutIntegration, UpdateKeeps, IntegrationKeeps
     DEF FailureInv
<1>2. CASE UNCHANGED nodeVars
  <2>1. UNCHANGED <<published, binary, recovery, download, update, overlapped, pc>>
    BY <1>2 DEF nodeVars, vars, updated
  <2>2. UpdateInv => UpdateInv'
    BY <2>1 DEF UpdateInv, UpdateTypes, Updating
  <2>3. UNCHANGED <<env, current, runs, attached, snapshots, edits, disturbed, pc, job>>
    BY <1>2 DEF nodeVars, vars, application
  <2>4. IntegrationInv => IntegrationInv'
    BY <2>3 DEF IntegrationInv, IntegrationTypes, Applying
  <2> QED
    BY <1>2, <2>2, <2>4 DEF FailureInv, nodeVars
<1> QED
  BY <1>1, <1>2

\* However a self update or an integration fails, and however many of its steps: the
\* first leaves the verified executable it found, or that one beside the new one
\* (self_update.rs: apply); the second, if nothing else changed the application,
\* the configuration, the references and the workers, each unless its own step took
\* effect and failed, or its restoration did (intelligence.rs: apply_laravel_redis).
THEOREM FailuresUndone == NodeSpec => []FailuresAreUndone
<1>1. NodeInit => FailureInv
  BY UpdateStarts, IntegrationStarts DEF NodeInit, FailureInv
<1>2. FailureInv /\ [NodeNext]_nodeVars => FailureInv'
  BY FailureKeeps
<1>3. FailureInv => FailuresAreUndone
  BY IntegrationIsEnough DEF FailureInv, FailuresAreUndone, UpdateInv, Updating, U!BinaryWorks
<1> QED
  BY <1>1, <1>2, <1>3, PTL DEF NodeSpec, nodeVars

LEMMA AboutSecret ==
    ASSUME NodeNext, about = "secret"
    PROVE  Next /\ about' = about
BY DEF NodeNext, Next, OnlySecret, OnlyFile, OnlyJournal, OnlyUpdate, OnlyCache, OnlyIntegration

\* A behaviour about another part has the old files it began with.
NoSecret ==
    \A r \in Refs : file[r].kind = "plain" /\ backup[r] = Absent /\ want[r] = file[r].value

NodeSecretInv ==
    /\ about = "secret" => SecretInv
    /\ about # "secret" => NoSecret

LEMMA NodeSecretKeeps ==
    ASSUME NodeSecretInv, [NodeNext]_nodeVars
    PROVE  NodeSecretInv'
<1>1. CASE NodeNext /\ about = "secret"
  <2>1. Next /\ about' = about
    BY <1>1, AboutSecret
  <2> QED
    BY <1>1, <2>1, SecretKeeps DEF NodeSecretInv
<1>2. CASE NodeNext /\ about # "secret"
  <2>1. UNCHANGED <<secret, about>>
    BY <1>2
       DEF NodeNext, OnlySecret, OnlyFile, OnlyJournal, OnlyUpdate, OnlyCache, OnlyIntegration,
           vars, secret
  <2> QED
    BY <1>2, <2>1 DEF NodeSecretInv, NoSecret, secret
<1>3. CASE UNCHANGED nodeVars
  BY <1>3, SecretKeeps DEF nodeVars, vars, NodeSecretInv, NoSecret
<1> QED
  BY <1>1, <1>2, <1>3

\* Whatever processes do to the secrets of a node, and wherever they die:
\* secrets.key opens all that is sealed, sealing an old file keeps its value unless
\* it was overtaken, and a deletion that returned leaves no backup, unless a writer
\* had the file open when it ended (secret_store.rs, atomic_file.rs).
THEOREM SecretsAreKept == NodeSpec => []SecretsKept
<1>1. NodeInit => NodeSecretInv
  BY SecretStarts DEF NodeInit, NodeSecretInv, NoSecret, Init, Absent, Plain
<1>2. NodeSecretInv /\ [NodeNext]_nodeVars => NodeSecretInv'
  BY NodeSecretKeeps
<1>3. NodeSecretInv => SecretsKept
  BY SecretsSuffice
     DEF NodeSecretInv, NoSecret, SecretsKept, SecretsOpen, MigrationKeepsValues,
         DeletionIsComplete, Absent, Plain
<1> QED
  BY <1>1, <1>2, <1>3, PTL DEF NodeSpec, nodeVars

-----------------------------------------------------------------------------
(* The replacement of a file.                                                *)

Inode == Inodes \cup {None}
Calls == [value : Contents \cup {None}, previous : Contents \cup {None}, source : Inode,
          copy : Inode, file : Inode, backed : BOOLEAN]

FileTypes ==
    /\ entry \in [F!Entries -> Inode]
    /\ data \in [Inodes -> Contents \cup {None, "torn"}]
    /\ at \in [Threads -> {"idle", "backup", "copy", "create", "write", "rename", "clean",
                           "changed"}]
    /\ call \in [Threads -> Calls]
    /\ use \in {"locked", "free", "store"}

\* No two names refer to one inode, and what the path refers to is whole.
Names ==
    /\ \A m, n \in F!Entries : m # n /\ entry[m] # None => entry[m] # entry[n]
    /\ entry["path"] # None => data[entry["path"]] \in Contents

\* The threads of a process write one after the other; under the lock, all do.
OneByOne ==
    \A s, t \in Threads : at[s] # "idle" /\ at[t] # "idle" =>
        s = t \/ (ProcessOf[s] # ProcessOf[t] /\ use # "locked")

\* What a thread has under way is what its names refer to.
Writing(t) ==
    /\ at[t] \in {"backup", "copy", "create", "write", "rename"} => call[t].value \in Contents
    /\ at[t] = "copy" =>
         call[t].copy \in Inodes /\ call[t].copy = entry["backup"] /\ call[t].source \in Inodes
    /\ at[t] \in {"write", "rename"} =>
         call[t].file \in Inodes /\ call[t].file = entry[ProcessOf[t]]
    /\ at[t] = "rename" => data[call[t].file] = call[t].value
    /\ at[t] = "changed" => use = "locked"

\* Under the lock, the backup is what the call found.
Taking(t) ==
    /\ at[t] \in {"backup", "copy"} => call[t].previous = F!Content /\ ~call[t].backed
    /\ at[t] = "copy" => call[t].source = entry["path"]
    /\ at[t] \in {"create", "write", "rename", "clean", "changed"} =>
         \/ /\ call[t].backed /\ entry["backup"] # None
            /\ data[entry["backup"]] = call[t].previous /\ call[t].previous \in Contents
         \/ ~call[t].backed /\ call[t].previous = None

Sound ==
    /\ FileTypes /\ Names /\ OneByOne
    /\ \A t \in Threads : Writing(t)
    /\ use = "locked" => \A t \in Threads : Taking(t)

FileInv == shared \in BOOLEAN /\ (~shared => Sound)

LEMMA FileConstants ==
    /\ ProcessOf \in [Threads -> Processes]
    /\ "path" \notin Processes /\ "backup" \notin Processes
    /\ None \notin Contents /\ None \notin Inodes /\ "torn" \notin Contents
    /\ "path" \in F!Entries /\ "backup" \in F!Entries
    /\ \A t \in Threads : ProcessOf[t] \in F!Entries /\ ProcessOf[t] \notin {"path", "backup"}
BY NodeAssumption DEF NodeAssumption, F!FileAssumption, F!Entries

LEMMA FileStarts == F!Init => FileInv
<1> SUFFICES ASSUME F!Init
             PROVE  FileInv
  OBVIOUS
<1>1. F!NoCall \in Calls
  BY DEF F!NoCall, Calls, Inode
<1>2. FileTypes
  BY <1>1 DEF F!Init, FileTypes, Inode
<1> QED
  BY <1>2, FileConstants DEF F!Init, FileInv, Sound, Names, OneByOne, Writing, Taking

\* What a statement of thread t makes of the entries, the inodes and the threads.
Did(t, label, now, names, contents) ==
    /\ FileTypes'
    /\ at'[t] = label /\ call'[t] = now /\ entry' = names /\ use' = use
    /\ \A s \in Threads \ {t} : at'[s] = at[s] /\ call'[s] = call[s]
    /\ \A n \in F!Entries : names[n] \in Inodes => data'[names[n]] = contents[names[n]]

LEMMA Statement ==
    ASSUME FileTypes, NEW t \in Threads, NEW label, NEW now \in Calls,
           NEW names \in [F!Entries -> Inode],
           NEW contents \in [Inodes -> Contents \cup {None, "torn"}],
           label \in {"idle", "backup", "copy", "create", "write", "rename", "clean", "changed"},
           F!Do(t, label, now, names, contents)
    PROVE  Did(t, label, now, names, contents)
<1> DEFINE calls == [call EXCEPT ![t] = now]
<1>1. /\ at' = [at EXCEPT ![t] = label] /\ call' = calls /\ entry' = names
      /\ data' = F!Kept(names, calls, contents) /\ use' = use
  BY DEF F!Do
<1>2. data' = [i \in Inodes |-> IF i \in F!Live(names, calls) THEN contents[i] ELSE None]
  BY <1>1 DEF F!Kept
<1>3. data' \in [Inodes -> Contents \cup {None, "torn"}]
  BY <1>2
<1>4. \A n \in F!Entries : names[n] \in F!Live(names, calls)
  BY DEF F!Live
<1>5. \A n \in F!Entries : names[n] \in Inodes => data'[names[n]] = contents[names[n]]
  BY <1>2, <1>4
<1>6. FileTypes'
  BY <1>1, <1>3 DEF FileTypes
<1> QED
  BY <1>1, <1>5, <1>6 DEF FileTypes, Did

\* What a statement of thread t leaves of the others'.
Apart(t) ==
    /\ \A s \in Threads \ {t} : at'[s] = at[s] /\ call'[s] = call[s]
    /\ \A p \in Processes \ {ProcessOf[t]} :
         entry'[p] = entry[p] /\ (entry[p] # None => data'[entry[p]] = data[entry[p]])
    /\ entry["backup"] # None /\ use # "locked" => entry'["backup"] = entry["backup"]
    /\ use' = use

LEMMA OthersApart ==
    ASSUME Sound, NEW t \in Threads, at[t] # "idle", Apart(t), FileTypes', Names', Writing(t)',
           use = "locked" => Taking(t)'
    PROVE  Sound'
<1>1. \A s \in Threads \ {t} : at[s] # "idle" => ProcessOf[s] \in Processes \ {ProcessOf[t]} /\ use # "locked"
  BY FileConstants DEF Sound, OneByOne
<1>2. OneByOne'
  BY DEF Sound, OneByOne, Apart
<1>3. ASSUME NEW s \in Threads \ {t}
      PROVE  Writing(s)'
  <2>1. at'[s] = at[s] /\ call'[s] = call[s] /\ use' = use
    BY DEF Apart
  <2>2. CASE at[s] = "idle"
    BY <2>1, <2>2 DEF Writing
  <2>3. CASE at[s] # "idle"
    <3>1. Writing(s) /\ ProcessOf[s] \in Processes \ {ProcessOf[t]} /\ use # "locked"
      BY <1>1, <2>3 DEF Sound
    <3>2. at[s] = "copy" => entry'["backup"] = entry["backup"]
      BY <3>1, FileConstants DEF Apart, Writing
    <3>3. entry'[ProcessOf[s]] = entry[ProcessOf[s]]
      BY <3>1 DEF Apart
    <3>4. at[s] = "rename" => data'[call[s].file] = data[call[s].file]
      BY <3>1, FileConstants DEF Apart, Writing
    <3> QED
      BY <2>1, <3>1, <3>2, <3>3, <3>4 DEF Writing
  <2> QED
    BY <2>2, <2>3
<1>4. use = "locked" => \A s \in Threads \ {t} : Taking(s)'
  BY <1>1 DEF Taking, Apart
<1> QED
  BY <1>2, <1>3, <1>4 DEF Sound, Apart

\* A statement of thread t keeps the rest sound if it keeps apart and t sound.
LEMMA StatementKeeps ==
    ASSUME Sound, NEW t \in Threads, at[t] # "idle", NEW label, NEW now \in Calls,
           NEW names \in [F!Entries -> Inode],
           NEW contents \in [Inodes -> Contents \cup {None, "torn"}],
           label \in {"idle", "backup", "copy", "create", "write", "rename", "clean", "changed"},
           F!Do(t, label, now, names, contents),
           \A p \in Processes \ {ProcessOf[t]} :
               names[p] = entry[p] /\ (entry[p] # None => contents[entry[p]] = data[entry[p]]),
           entry["backup"] # None /\ use # "locked" => names["backup"] = entry["backup"],
           Names', Writing(t)', use = "locked" => Taking(t)'
    PROVE  Sound'
<1>0. FileTypes
  BY DEF Sound
<1>1. Did(t, label, now, names, contents)
  BY <1>0, Statement
<1>2. \A p \in Processes : p \in F!Entries
  BY DEF F!Entries
<1>3. Apart(t)
  BY <1>1, <1>2 DEF Apart, Inode, Did
<1> QED
  BY <1>1, <1>3, OthersApart DEF Did

\* The content changes as a write or its taking back changes it.
Whole ==
    /\ F!Content' \in Contents \cup {None}
    /\ F!Content' # F!Content => \E t \in Threads :
         \/ at[t] = "rename" /\ F!Content' = call[t].value
         \/ at[t] = "changed" /\ F!Content' = call[t].previous

\* A statement that leaves the path, and what it refers to.
LEMMA PathStays ==
    ASSUME FileTypes, Names, FileTypes', entry'["path"] = entry["path"],
           entry["path"] # None => data'[entry["path"]] = data[entry["path"]]
    PROVE  Whole /\ F!Content' = F!Content
BY DEF Whole, F!Content, Names

\* Of thread t alone: its statement changes no entry and no live inode's content.
LEMMA OnlyCall ==
    ASSUME Sound, NEW t \in Threads, at[t] # "idle", NEW label, NEW now \in Calls,
           label \in {"idle", "create", "clean", "changed"},
           F!Do(t, label, now, entry, data),
           label = "create" => now.value \in Contents,
           label = "changed" => use = "locked",
           use = "locked" /\ label # "idle" =>
              \/ /\ now.backed /\ entry["backup"] # None
                 /\ data[entry["backup"]] = now.previous /\ now.previous \in Contents
              \/ ~now.backed /\ now.previous = None
    PROVE  Sound' /\ Whole
<1> USE FileConstants
<1>1. entry \in [F!Entries -> Inode] /\ data \in [Inodes -> Contents \cup {None, "torn"}]
  BY DEF Sound, FileTypes
<1>0. FileTypes
  BY DEF Sound
<1>9. Did(t, label, now, entry, data)
  BY <1>0, <1>1, Statement
<1>2. /\ FileTypes' /\ entry' = entry /\ use' = use /\ at'[t] = label /\ call'[t] = now
      /\ \A n \in F!Entries : entry[n] \in Inodes => data'[entry[n]] = data[entry[n]]
  BY <1>9 DEF Did
<1>3. Names'
  BY <1>1, <1>2 DEF Sound, Names, Inode
<1>4. Writing(t)'
  BY <1>2 DEF Writing
<1>5. use = "locked" => Taking(t)'
  BY <1>1, <1>2 DEF Taking, Inode
<1>6. Sound'
  BY <1>1, <1>3, <1>4, <1>5, StatementKeeps
<1> QED
  BY <1>1, <1>2, <1>6, PathStays DEF Sound, Inode

LEMMA FreshIsFree ==
    ASSUME F!Free
    PROVE  F!Fresh \in Inodes /\ \A n \in F!Entries : entry[n] # F!Fresh
<1>1. F!Fresh \in Inodes /\ F!Fresh \notin F!Live(entry, call)
  BY DEF F!Free, F!Fresh
<1> QED
  BY <1>1 DEF F!Live

LEMMA CallsAreCalls ==
    ASSUME FileTypes, NEW t \in Threads, NEW source \in Inode, NEW copy \in Inode,
           NEW made \in Inode, NEW backed \in BOOLEAN
    PROVE  /\ call[t] \in Calls /\ F!NoCall \in Calls
           /\ [call[t] EXCEPT !.source = source, !.copy = copy] \in Calls
           /\ [call[t] EXCEPT !.source = None, !.copy = None, !.backed = TRUE] \in Calls
           /\ [call[t] EXCEPT !.file = made] \in Calls
           /\ [call[t] EXCEPT !.value = None] \in Calls
           /\ [call[t] EXCEPT !.file = None, !.value = None] \in Calls
           /\ [call[t] EXCEPT !.value = None, !.file = None] \in Calls
BY DEF FileTypes, Calls, Inode, F!NoCall

LEMMA CallsStay ==
    ASSUME Sound, NEW t \in Threads,
           \/ F!NothingToCopy(t) \/ F!CopyFails(t) \/ F!TemporaryExists(t) \/ F!WriteFails(t)
           \/ F!RenameFails(t) \/ F!KeepChange(t)
    PROVE  Sound' /\ Whole
<1> USE FileConstants
<1>0. FileTypes /\ None \in Inode /\ TRUE \in BOOLEAN /\ Writing(t)
      /\ (use = "locked" => Taking(t))
  BY DEF Sound, Inode
<1>1. /\ call[t] \in Calls /\ F!NoCall \in Calls
      /\ [call[t] EXCEPT !.value = None] \in Calls
      /\ [call[t] EXCEPT !.file = None, !.value = None] \in Calls
      /\ [call[t] EXCEPT !.value = None, !.file = None] \in Calls
  BY <1>0, CallsAreCalls
<1>2. ASSUME at[t] # "idle", F!Do(t, "idle", F!NoCall, entry, data)
      PROVE  Sound' /\ Whole
  BY <1>1, <1>2, OnlyCall
<1>3. CASE F!NothingToCopy(t)
  <2>1. at[t] # "idle" /\ F!Do(t, "create", call[t], entry, data) /\ call[t].value \in Contents
    BY <1>0, <1>3 DEF F!NothingToCopy, Writing
  <2>2. use = "locked" => ~call[t].backed /\ call[t].previous = None
    BY <1>0, <1>3 DEF F!NothingToCopy, Taking, F!Content
  <2> QED
    BY <1>1, <2>1, <2>2, OnlyCall
<1>4. CASE F!CopyFails(t) \/ F!KeepChange(t)
  BY <1>2, <1>4 DEF F!CopyFails, F!KeepChange, F!Return
<1>5. ASSUME NEW now \in Calls, at[t] \in {"create", "write", "rename"},
             F!Do(t, "clean", now, entry, data),
             now.backed = call[t].backed, now.previous = call[t].previous
      PROVE  Sound' /\ Whole
  BY <1>0, <1>5, OnlyCall DEF Taking
<1>6. CASE F!TemporaryExists(t)
  BY <1>0, <1>1, <1>5, <1>6 DEF F!TemporaryExists, Calls
<1>7. CASE F!WriteFails(t)
  BY <1>0, <1>1, <1>2, <1>5, <1>7 DEF F!WriteFails, F!Return, Calls
<1>8. CASE F!RenameFails(t)
  BY <1>0, <1>1, <1>5, <1>8 DEF F!RenameFails, Calls
<1> QED
  BY <1>3, <1>4, <1>6, <1>7, <1>8

LEMMA StartCopyKeeps ==
    ASSUME Sound, NEW t \in Threads, F!StartCopy(t)
    PROVE  Sound' /\ Whole
<1> USE FileConstants
<1> DEFINE copy == IF entry["backup"] = None THEN F!Fresh ELSE entry["backup"]
           now == [call[t] EXCEPT !.source = entry["path"], !.copy = copy]
           names == [entry EXCEPT !["backup"] = copy]
           contents == [data EXCEPT ![copy] = "torn"]
<1>0. FileTypes /\ Names /\ Writing(t) /\ (use = "locked" => Taking(t))
  BY DEF Sound
<1>1. F!Do(t, "copy", now, names, contents) /\ at[t] = "backup" /\ entry["path"] # None
  BY DEF F!StartCopy
<1>2. /\ copy \in Inodes /\ \A n \in F!Entries \ {"backup"} : entry[n] # copy
      /\ (entry["backup"] # None => copy = entry["backup"])
  BY <1>0, FreshIsFree DEF F!StartCopy, FileTypes, Inode, Names
<1>3. /\ now \in Calls /\ now.value = call[t].value /\ now.previous = call[t].previous
      /\ now.backed = call[t].backed /\ now.source = entry["path"] /\ now.copy = copy
  <2>1. copy \in Inode /\ entry["path"] \in Inode /\ TRUE \in BOOLEAN /\ None \in Inode
    BY <1>0, <1>2 DEF FileTypes, Inode
  <2> HIDE DEF copy
  <2>2. now \in Calls
    BY <1>0, <2>1, CallsAreCalls
  <2>3. call[t] \in Calls
    BY <1>0 DEF FileTypes
  <2> QED
    BY <2>2, <2>3 DEF Calls
<1>4. /\ names \in [F!Entries -> Inode] /\ names["backup"] = copy
      /\ \A n \in F!Entries \ {"backup"} : names[n] = entry[n]
  BY <1>0, <1>2 DEF FileTypes, Inode
<1>5. /\ contents \in [Inodes -> Contents \cup {None, "torn"}]
      /\ \A i \in Inodes \ {copy} : contents[i] = data[i]
  BY <1>0, <1>2 DEF FileTypes
<1> HIDE DEF now, names, contents, copy
<1>6. Did(t, "copy", now, names, contents)
  BY <1>0, <1>1, <1>3, <1>4, <1>5, Statement
<1>7. \A n \in F!Entries \ {"backup"} :
         entry[n] # None => contents[entry[n]] = data[entry[n]]
  BY <1>0, <1>2, <1>5 DEF FileTypes, Inode
<1>8. entry'["path"] = entry["path"] /\ data'[entry["path"]] = data[entry["path"]]
  BY <1>0, <1>1, <1>4, <1>6, <1>7 DEF Did, FileTypes, Inode
<1>9. Names'
  BY <1>0, <1>2, <1>4, <1>6, <1>8 DEF Did, Names
<1>10. Writing(t)'
  BY <1>0, <1>1, <1>2, <1>3, <1>4, <1>6, <1>8 DEF Did, Writing, FileTypes, Inode
<1>11. Whole /\ F!Content' = F!Content
  BY <1>0, <1>6, <1>8, PathStays DEF Did
<1>12. use = "locked" => Taking(t)'
  BY <1>0, <1>1, <1>3, <1>4, <1>6, <1>11 DEF Did, Taking
<1>13. \A p \in Processes \ {ProcessOf[t]} :
          names[p] = entry[p] /\ (entry[p] # None => contents[entry[p]] = data[entry[p]])
  BY <1>4, <1>7 DEF F!Entries
<1>14. Sound'
  BY <1>1, <1>2, <1>3, <1>4, <1>5, <1>9, <1>10, <1>12, <1>13, StatementKeeps
<1> QED
  BY <1>11, <1>14

LEMMA EndCopyKeeps ==
    ASSUME Sound, NEW t \in Threads, F!EndCopy(t)
    PROVE  Sound' /\ Whole
<1> USE FileConstants
<1> DEFINE now == [call[t] EXCEPT !.source = None, !.copy = None, !.backed = TRUE]
           contents == [data EXCEPT ![call[t].copy] = data[call[t].source]]
<1>0. FileTypes /\ Names /\ Writing(t) /\ (use = "locked" => Taking(t))
  BY DEF Sound
<1>1. F!Do(t, "create", now, entry, contents) /\ at[t] = "copy"
  BY DEF F!EndCopy
<1>2. /\ call[t].copy \in Inodes /\ call[t].copy = entry["backup"] /\ call[t].source \in Inodes
      /\ \A n \in F!Entries \ {"backup"} : entry[n] # call[t].copy
  BY <1>0, <1>1 DEF Writing, Names
<1>3. /\ now \in Calls /\ now.value = call[t].value /\ now.previous = call[t].previous
      /\ now.backed = TRUE
  <2>1. TRUE \in BOOLEAN /\ None \in Inode /\ call[t] \in Calls
    BY <1>0 DEF FileTypes, Inode
  <2>2. now \in Calls
    BY <1>0, <2>1, CallsAreCalls
  <2> QED
    BY <2>1, <2>2 DEF Calls
<1>4. entry \in [F!Entries -> Inode]
  BY <1>0 DEF FileTypes
<1>5. /\ contents \in [Inodes -> Contents \cup {None, "torn"}]
      /\ \A i \in Inodes \ {call[t].copy} : contents[i] = data[i]
      /\ contents[call[t].copy] = data[call[t].source]
  BY <1>0, <1>2 DEF FileTypes
<1> HIDE DEF now, contents
<1>6. Did(t, "create", now, entry, contents)
  BY <1>0, <1>1, <1>3, <1>4, <1>5, Statement
<1>7. \A n \in F!Entries \ {"backup"} :
         entry[n] # None => contents[entry[n]] = data[entry[n]]
  BY <1>0, <1>2, <1>5 DEF FileTypes, Inode
<1>8. /\ entry'["path"] = entry["path"]
      /\ entry["path"] # None => data'[entry["path"]] = data[entry["path"]]
  BY <1>0, <1>4, <1>6, <1>7 DEF Did, FileTypes, Inode
<1>9. Names'
  BY <1>0, <1>4, <1>6, <1>8 DEF Did, Names
<1>10. Writing(t)'
  BY <1>0, <1>1, <1>3, <1>6 DEF Did, Writing
<1>11. Whole /\ F!Content' = F!Content
  BY <1>0, <1>6, <1>8, PathStays DEF Did
<1>12. use = "locked" => Taking(t)'
  <2>1. data'[entry["backup"]] = data[call[t].source]
    BY <1>2, <1>5, <1>6 DEF Did
  <2>2. use = "locked" => data[call[t].source] = call[t].previous /\ call[t].previous \in Contents
    BY <1>0, <1>1, <1>2 DEF Taking, F!Content, Names
  <2> QED
    BY <1>2, <1>3, <1>6, <2>1, <2>2 DEF Did, Taking
<1>13. \A p \in Processes \ {ProcessOf[t]} :
          entry[p] = entry[p] /\ (entry[p] # None => contents[entry[p]] = data[entry[p]])
  BY <1>7 DEF F!Entries
<1>14. Sound'
  BY <1>1, <1>2, <1>3, <1>4, <1>5, <1>9, <1>10, <1>12, <1>13, StatementKeeps
<1> QED
  BY <1>11, <1>14

LEMMA CreateTemporaryKeeps ==
    ASSUME Sound, NEW t \in Threads, F!CreateTemporary(t)
    PROVE  Sound' /\ Whole
<1> USE FileConstants
<1> DEFINE own == ProcessOf[t]
           made == IF entry[own] = None THEN F!Fresh ELSE entry[own]
           now == [call[t] EXCEPT !.file = made]
           names == [entry EXCEPT ![own] = made]
           contents == [data EXCEPT ![made] = "torn"]
<1>0. FileTypes /\ Names /\ Writing(t) /\ (use = "locked" => Taking(t))
  BY DEF Sound
<1>1. F!Do(t, "write", now, names, contents) /\ at[t] = "create" /\ own \in F!Entries
      /\ own # "path" /\ own # "backup"
  BY DEF F!CreateTemporary, F!Temporary
<1> HIDE DEF own
<1>2. made \in Inodes /\ \A n \in F!Entries \ {own} : entry[n] # made
  BY <1>0, <1>1, FreshIsFree DEF F!CreateTemporary, FileTypes, Inode, Names
<1>3. /\ now \in Calls /\ now.value = call[t].value /\ now.previous = call[t].previous
      /\ now.backed = call[t].backed /\ now.file = made
  <2>1. made \in Inode /\ TRUE \in BOOLEAN /\ None \in Inode /\ call[t] \in Calls
    BY <1>0, <1>2 DEF FileTypes, Inode
  <2> HIDE DEF made
  <2>2. now \in Calls
    BY <1>0, <2>1, CallsAreCalls
  <2> QED
    BY <2>1, <2>2 DEF Calls
<1>4. /\ names \in [F!Entries -> Inode] /\ names[own] = made
      /\ \A n \in F!Entries \ {own} : names[n] = entry[n]
  BY <1>0, <1>1, <1>2 DEF FileTypes, Inode
<1>5. /\ contents \in [Inodes -> Contents \cup {None, "torn"}]
      /\ \A i \in Inodes \ {made} : contents[i] = data[i]
  BY <1>0, <1>2 DEF FileTypes
<1> HIDE DEF now, names, contents, made
<1>6. Did(t, "write", now, names, contents)
  BY <1>0, <1>1, <1>3, <1>4, <1>5, Statement
<1>7. \A n \in F!Entries \ {own} :
         entry[n] # None => contents[entry[n]] = data[entry[n]]
  BY <1>0, <1>2, <1>5 DEF FileTypes, Inode
<1>8. \A n \in F!Entries \ {own} :
         /\ entry'[n] = entry[n]
         /\ entry[n] # None => data'[entry[n]] = data[entry[n]]
  BY <1>0, <1>1, <1>4, <1>6, <1>7 DEF Did, FileTypes, Inode
<1>9. Names'
  BY <1>0, <1>1, <1>2, <1>4, <1>6, <1>8 DEF Did, Names
<1>10. Writing(t)'
  BY <1>0, <1>1, <1>2, <1>3, <1>4, <1>6 DEF Did, Writing, own
<1>11. Whole /\ F!Content' = F!Content
  BY <1>0, <1>1, <1>6, <1>8, PathStays DEF Did
<1>12. use = "locked" => Taking(t)'
  BY <1>0, <1>1, <1>3, <1>6, <1>8 DEF Did, Taking
<1>13. \A p \in Processes \ {own} :
          names[p] = entry[p] /\ (entry[p] # None => contents[entry[p]] = data[entry[p]])
  BY <1>4, <1>7 DEF F!Entries
<1>14. names["backup"] = entry["backup"]
  BY <1>1, <1>4
<1>15. Sound'
  BY <1>1, <1>3, <1>4, <1>5, <1>9, <1>10, <1>12, <1>13, <1>14, StatementKeeps DEF own
<1> QED
  BY <1>11, <1>15

LEMMA WriteAndSyncKeeps ==
    ASSUME Sound, NEW t \in Threads, F!WriteAndSync(t)
    PROVE  Sound' /\ Whole
<1> USE FileConstants
<1> DEFINE own == ProcessOf[t]
           contents == [data EXCEPT ![call[t].file] = call[t].value]
<1>0. FileTypes /\ Names /\ Writing(t) /\ (use = "locked" => Taking(t))
  BY DEF Sound
<1>1. F!Do(t, "rename", call[t], entry, contents) /\ at[t] = "write" /\ own \in F!Entries
      /\ own # "path" /\ own # "backup"
  BY DEF F!WriteAndSync
<1>2. /\ call[t].file \in Inodes /\ call[t].file = entry[own] /\ call[t].value \in Contents
      /\ \A n \in F!Entries \ {own} : entry[n] # call[t].file
  BY <1>0, <1>1 DEF Writing, Names
<1> HIDE DEF own
<1>3. call[t] \in Calls /\ entry \in [F!Entries -> Inode]
  BY <1>0 DEF FileTypes
<1>5. /\ contents \in [Inodes -> Contents \cup {None, "torn"}]
      /\ \A i \in Inodes \ {call[t].file} : contents[i] = data[i]
      /\ contents[call[t].file] = call[t].value
  BY <1>0, <1>2 DEF FileTypes
<1> HIDE DEF contents
<1>6. Did(t, "rename", call[t], entry, contents)
  BY <1>0, <1>1, <1>3, <1>5, Statement
<1>7. \A n \in F!Entries \ {own} :
         entry[n] # None => contents[entry[n]] = data[entry[n]]
  BY <1>0, <1>2, <1>5 DEF FileTypes, Inode
<1>8. \A n \in F!Entries \ {own} :
         /\ entry'[n] = entry[n]
         /\ entry[n] # None => data'[entry[n]] = data[entry[n]]
  BY <1>0, <1>1, <1>3, <1>6, <1>7 DEF Did, FileTypes, Inode
<1>9. Names'
  BY <1>0, <1>1, <1>6, <1>8 DEF Did, Names
<1>10. Writing(t)'
  BY <1>0, <1>1, <1>2, <1>5, <1>6 DEF Did, Writing, own
<1>11. Whole /\ F!Content' = F!Content
  BY <1>0, <1>1, <1>6, <1>8, PathStays DEF Did
<1>12. use = "locked" => Taking(t)'
  BY <1>0, <1>1, <1>6, <1>8 DEF Did, Taking
<1>13. \A p \in Processes \ {own} :
          entry[p] = entry[p] /\ (entry[p] # None => contents[entry[p]] = data[entry[p]])
  BY <1>7 DEF F!Entries
<1>15. Sound'
  BY <1>1, <1>3, <1>5, <1>9, <1>10, <1>12, <1>13, StatementKeeps DEF own
<1> QED
  BY <1>11, <1>15

LEMMA RenameKeeps ==
    ASSUME Sound, NEW t \in Threads, F!Rename(t)
    PROVE  Sound' /\ Whole
<1> USE FileConstants
<1> DEFINE own == ProcessOf[t]
           moved == [entry EXCEPT !["path"] = entry[own], ![own] = None]
<1>0. FileTypes /\ Names /\ Writing(t) /\ (use = "locked" => Taking(t))
  BY DEF Sound
<1>1. at[t] = "rename" /\ own \in F!Entries /\ own # "path" /\ own # "backup"
  BY DEF F!Rename
<1>2. /\ entry[own] \in Inodes /\ call[t].value \in Contents
      /\ data[entry[own]] = call[t].value
  BY <1>0, <1>1 DEF Writing
<1>3. /\ moved \in [F!Entries -> Inode] /\ moved["path"] = entry[own] /\ moved[own] = None
      /\ \A n \in F!Entries \ {own, "path"} : moved[n] = entry[n]
      /\ data \in [Inodes -> Contents \cup {None, "torn"}]
  BY <1>0, <1>1 DEF FileTypes, Inode
<1>4. ASSUME NEW label \in {"idle", "clean"}, NEW now \in Calls, F!Do(t, label, now, moved, data),
             label = "clean" => now.backed = call[t].backed /\ now.previous = call[t].previous
      PROVE  Sound' /\ Whole
  <2> HIDE DEF own, moved
  <2>1. Did(t, label, now, moved, data)
    BY <1>0, <1>3, <1>4, Statement
  <2>2. entry'["path"] = entry[own] /\ data'[entry[own]] = call[t].value
    BY <1>2, <1>3, <2>1 DEF Did
  <2>3. \A n \in F!Entries \ {own, "path"} :
           /\ entry'[n] = entry[n]
           /\ entry[n] # None => data'[entry[n]] = data[entry[n]]
    BY <1>0, <1>3, <2>1 DEF Did, FileTypes, Inode
  <2>4. Names'
    BY <1>0, <1>1, <1>2, <1>3, <2>1, <2>2 DEF Did, Names
  <2>5. Writing(t)'
    BY <1>4, <2>1 DEF Did, Writing
  <2>6. use = "locked" => Taking(t)'
    BY <1>0, <1>1, <1>4, <2>1, <2>3 DEF Did, Taking
  <2>7. \A p \in Processes \ {own} :
           moved[p] = entry[p] /\ (entry[p] # None => data[entry[p]] = data[entry[p]])
    BY <1>3 DEF F!Entries
  <2>8. moved["backup"] = entry["backup"]
    BY <1>1, <1>3
  <2>9. Sound'
    BY <1>1, <1>3, <1>4, <2>4, <2>5, <2>6, <2>7, <2>8, StatementKeeps DEF own
  <2>10. Whole
    BY <1>1, <1>2, <2>2 DEF Whole, F!Content
  <2> QED
    BY <2>9, <2>10
<1>5. call[t] \in Calls /\ None \in Inode /\ TRUE \in BOOLEAN
  BY <1>0 DEF FileTypes, Inode
<1>6. CASE use = "store" /\ F!Return(t, moved)
  <2>1. F!NoCall \in Calls
    BY <1>0, <1>5, CallsAreCalls
  <2>2. F!Do(t, "idle", F!NoCall, moved, data)
    BY <1>6 DEF F!Return
  <2> QED
    BY <1>4, <2>1, <2>2
<1>7. ASSUME NEW owned \in BOOLEAN,
             F!Do(t, "clean", [call[t] EXCEPT !.file = None,
                                   !.value = IF owned THEN @ ELSE None], moved, data)
      PROVE  Sound' /\ Whole
  <2> DEFINE now == [call[t] EXCEPT !.file = None, !.value = IF owned THEN @ ELSE None]
  <2>1. now \in Calls /\ now.backed = call[t].backed /\ now.previous = call[t].previous
    BY <1>5 DEF Calls
  <2>2. F!Do(t, "clean", now, moved, data)
    BY <1>7
  <2> HIDE DEF now
  <2> QED
    BY <1>4, <2>1, <2>2
<1> QED
  BY <1>6, <1>7 DEF F!Rename, F!Temporary

LEMMA CleanUpKeeps ==
    ASSUME Sound, NEW t \in Threads, F!CleanUp(t)
    PROVE  Sound' /\ Whole
<1> USE FileConstants
<1> DEFINE own == ProcessOf[t]
           rest == [entry EXCEPT ![own] = None]
<1>0. FileTypes /\ Names /\ Writing(t) /\ (use = "locked" => Taking(t))
  BY DEF Sound
<1>1. at[t] = "clean" /\ own \in F!Entries /\ own # "path" /\ own # "backup"
  BY DEF F!CleanUp
<1>2. /\ call[t] \in Calls /\ F!NoCall \in Calls
      /\ data \in [Inodes -> Contents \cup {None, "torn"}]
  <2>1. None \in Inode /\ TRUE \in BOOLEAN
    BY DEF Inode
  <2> QED
    BY <1>0, <2>1, CallsAreCalls DEF FileTypes
<1>3. /\ rest \in [F!Entries -> Inode] /\ rest[own] = None
      /\ \A n \in F!Entries \ {own} : rest[n] = entry[n]
  BY <1>0, <1>1 DEF FileTypes, Inode
<1>4. ASSUME NEW label \in {"idle", "changed"}, NEW now \in Calls, F!Do(t, label, now, rest, data),
             label = "changed" => now = call[t] /\ use = "locked"
      PROVE  Sound' /\ Whole
  <2> HIDE DEF own, rest
  <2>1. Did(t, label, now, rest, data)
    BY <1>0, <1>2, <1>3, <1>4, Statement
  <2>2. \A n \in F!Entries \ {own} :
           /\ entry'[n] = entry[n]
           /\ entry[n] # None => data'[entry[n]] = data[entry[n]]
    BY <1>0, <1>3, <2>1 DEF Did, FileTypes, Inode
  <2>3. entry'[own] = None
    BY <1>3, <2>1 DEF Did
  <2>4. Names'
    BY <1>0, <1>1, <2>2, <2>3 DEF Names
  <2>5. Writing(t)'
    BY <1>4, <2>1 DEF Did, Writing
  <2>6. use = "locked" => Taking(t)'
    BY <1>0, <1>1, <1>4, <2>1, <2>2 DEF Did, Taking
  <2>7. \A p \in Processes \ {own} :
           rest[p] = entry[p] /\ (entry[p] # None => data[entry[p]] = data[entry[p]])
    BY <1>3 DEF F!Entries
  <2>8. rest["backup"] = entry["backup"]
    BY <1>1, <1>3
  <2>9. Sound'
    BY <1>1, <1>2, <1>3, <1>4, <2>4, <2>5, <2>6, <2>7, <2>8, StatementKeeps DEF own
  <2>10. Whole
    BY <1>0, <1>1, <2>1, <2>2, PathStays DEF Did
  <2> QED
    BY <2>9, <2>10
<1>5. CASE F!Do(t, "changed", call[t], rest, data) /\ use = "locked"
  <2> HIDE DEF own, rest
  <2> QED
    BY <1>2, <1>4, <1>5
<1>6. CASE F!Do(t, "idle", F!NoCall, rest, data)
  <2> HIDE DEF own, rest
  <2> QED
    BY <1>2, <1>4, <1>6
<1> QED
  BY <1>5, <1>6 DEF F!CleanUp, F!Temporary, F!Return

LEMMA RestoreBackupKeeps ==
    ASSUME Sound, NEW t \in Threads, F!RestoreBackup(t)
    PROVE  Sound' /\ Whole
<1> USE FileConstants
<1>0. FileTypes /\ Names /\ at[t] = "changed" /\ use = "locked" /\ Taking(t)
  BY DEF Sound, F!RestoreBackup, Writing
<1>1. F!NoCall \in Calls /\ data \in [Inodes -> Contents \cup {None, "torn"}]
  <2>1. None \in Inode /\ TRUE \in BOOLEAN
    BY DEF Inode
  <2> QED
    BY <1>0, <2>1, CallsAreCalls DEF FileTypes
<1>2. ASSUME NEW names \in [F!Entries -> Inode], F!Do(t, "idle", F!NoCall, names, data),
             \A n \in F!Entries \ {"path", "backup"} : names[n] = entry[n],
             \/ names["path"] = entry["backup"] /\ names["backup"] = None /\ call[t].backed
             \/ names["path"] = None /\ names["backup"] = entry["backup"] /\ ~call[t].backed
      PROVE  Sound' /\ Whole
  <2>1. Did(t, "idle", F!NoCall, names, data)
    BY <1>0, <1>1, <1>2, Statement
  <2>2. F!Content' = call[t].previous /\ call[t].previous \in Contents \cup {None}
    BY <1>0, <1>2, <2>1 DEF Did, Taking, F!Content, FileTypes, Inode
  <2>3. entry' = names /\ (entry'["path"] # None => data'[entry'["path"]] \in Contents)
    BY <1>0, <1>2, <2>1 DEF Did, Taking, FileTypes, Inode
  <2>4. \A m, n \in F!Entries : m # n /\ names[m] # None => names[m] # names[n]
    BY <1>0, <1>2 DEF Names
  <2>5. Names'
    BY <2>3, <2>4 DEF Names
  <2>6. Writing(t)' /\ Taking(t)'
    BY <2>1 DEF Did, Writing, Taking
  <2>7. \A p \in Processes \ {ProcessOf[t]} :
           names[p] = entry[p] /\ (entry[p] # None => data[entry[p]] = data[entry[p]])
    BY <1>2 DEF F!Entries
  <2>8. Sound'
    BY <1>0, <1>1, <1>2, <2>5, <2>6, <2>7, StatementKeeps
  <2>9. Whole
    BY <1>0, <2>2 DEF Whole
  <2> QED
    BY <2>8, <2>9
<1>3. CASE call[t].backed
  <2> DEFINE names == [entry EXCEPT !["path"] = entry["backup"], !["backup"] = None]
  <2>1. /\ names \in [F!Entries -> Inode] /\ names["path"] = entry["backup"]
        /\ names["backup"] = None
        /\ \A n \in F!Entries \ {"path", "backup"} : names[n] = entry[n]
    BY <1>0 DEF FileTypes, Inode
  <2>2. F!Do(t, "idle", F!NoCall, names, data)
    BY <1>3 DEF F!RestoreBackup, F!Return
  <2> HIDE DEF names
  <2> QED
    BY <1>2, <1>3, <2>1, <2>2
<1>4. CASE ~call[t].backed
  <2> DEFINE names == [entry EXCEPT !["path"] = None]
  <2>1. /\ names \in [F!Entries -> Inode] /\ names["path"] = None
        /\ \A n \in F!Entries \ {"path"} : names[n] = entry[n]
    BY <1>0 DEF FileTypes, Inode
  <2>2. F!Do(t, "idle", F!NoCall, names, data)
    BY <1>4 DEF F!RestoreBackup, F!Return
  <2> HIDE DEF names
  <2> QED
    BY <1>2, <1>4, <2>1, <2>2
<1> QED
  BY <1>3, <1>4

LEMMA BeginKeeps ==
    ASSUME Sound, NEW t \in Threads, NEW v \in Contents, F!Begin(t, v), ~shared'
    PROVE  Sound' /\ Whole
<1> USE FileConstants
<1> DEFINE now == [F!NoCall EXCEPT !.value = v, !.previous = F!Content]
           label == IF use = "store" THEN "create" ELSE "backup"
<1>0. FileTypes /\ Names /\ data \in [Inodes -> Contents \cup {None, "torn"}]
      /\ entry \in [F!Entries -> Inode]
  BY DEF Sound, FileTypes
<1>1. /\ F!Content \in Contents \cup {None} /\ now \in Calls /\ now.value = v
      /\ now.previous = F!Content /\ ~now.backed
  BY <1>0 DEF Names, F!Content, F!NoCall, Calls, Inode
<1>2. F!Do(t, label, now, entry, data) /\ at[t] = "idle"
      /\ \A s \in Threads \ {t} : at[s] # "idle" => ProcessOf[s] # ProcessOf[t] /\ use # "locked"
  BY DEF F!Begin
<1>3. label \in {"create", "backup"} /\ (use = "locked" => label = "backup")
  OBVIOUS
<1> HIDE DEF now, label
<1>4. Did(t, label, now, entry, data)
  BY <1>0, <1>1, <1>2, <1>3, Statement
<1>5. FileTypes' /\ \A n \in F!Entries : entry'[n] = entry[n]
         /\ (entry[n] # None => data'[entry[n]] = data[entry[n]])
  BY <1>0, <1>4 DEF Did, Inode
<1>6. Names' /\ Whole /\ F!Content' = F!Content
  <2>1. Whole /\ F!Content' = F!Content
    BY <1>0, <1>5, PathStays
  <2> QED
    BY <1>0, <1>5, <2>1 DEF Names
<1>7. OneByOne'
  BY <1>2, <1>4 DEF Did, Sound, OneByOne
<1>8. Writing(t)' /\ (use = "locked" => Taking(t)')
  BY <1>1, <1>3, <1>4, <1>6 DEF Did, Writing, Taking
<1>9. \A s \in Threads \ {t} : Writing(s)'
  BY <1>4, <1>5 DEF Did, Writing, Sound, FileTypes
<1>10. use = "locked" => \A s \in Threads \ {t} : Taking(s)'
  BY <1>2, <1>4 DEF Did, Taking
<1> QED
  BY <1>4, <1>5, <1>6, <1>7, <1>8, <1>9, <1>10 DEF Did, Sound

LEMMA KillKeeps ==
    ASSUME Sound, NEW p \in Processes, F!Kill(p)
    PROVE  Sound' /\ Whole
<1> USE FileConstants
<1> DEFINE calls == [t \in Threads |-> IF ProcessOf[t] = p THEN F!NoCall ELSE call[t]]
<1>0. FileTypes /\ Names
  BY DEF Sound
<1>1. /\ at' = [t \in Threads |-> IF ProcessOf[t] = p THEN "idle" ELSE at[t]]
      /\ call' = calls /\ data' = F!Kept(entry, calls, data) /\ entry' = entry /\ use' = use
  BY DEF F!Kill
<1>2. data' = [i \in Inodes |-> IF i \in F!Live(entry, calls) THEN data[i] ELSE None]
  BY <1>1 DEF F!Kept
<1>3. \A n \in F!Entries : entry[n] # None => data'[entry[n]] = data[entry[n]]
  BY <1>0, <1>2 DEF F!Live, FileTypes, Inode
<1>4. F!NoCall \in Calls
  BY DEF F!NoCall, Calls, Inode
<1>5. FileTypes'
  BY <1>0, <1>1, <1>2, <1>4 DEF FileTypes
<1>6. Whole /\ F!Content' = F!Content
  BY <1>0, <1>1, <1>3, <1>5, PathStays
<1>7. Names'
  BY <1>0, <1>1, <1>3 DEF Names
<1>8. \A t \in Threads : at'[t] = "idle" \/ (at'[t] = at[t] /\ call'[t] = call[t])
  BY <1>1
<1>9. OneByOne'
  BY <1>1, <1>8 DEF Sound, OneByOne
<1>10. \A t \in Threads : Writing(t)'
  BY <1>0, <1>1, <1>3, <1>8 DEF Sound, Writing
<1>11. use = "locked" => \A t \in Threads : Taking(t)'
  BY <1>0, <1>1, <1>3, <1>6, <1>8 DEF Sound, Taking
<1> QED
  BY <1>1, <1>5, <1>6, <1>7, <1>9, <1>10, <1>11 DEF Sound

LEMMA FileKeeps ==
    ASSUME FileInv, F!Next
    PROVE  FileInv' /\ (~shared' => Whole)
<1>1. shared' \in BOOLEAN /\ (~shared' => ~shared)
  BY DEF FileInv, F!Next, F!Step, F!Begin, F!StartCopy, F!NothingToCopy, F!EndCopy, F!CopyFails,
         F!CreateTemporary, F!TemporaryExists, F!WriteAndSync, F!WriteFails, F!Rename,
         F!RenameFails, F!CleanUp, F!KeepChange, F!RestoreBackup, F!Kill, F!Same, F!Return
<1> SUFFICES ASSUME ~shared', Sound
             PROVE  Sound' /\ Whole
  BY <1>1 DEF FileInv
<1>2. ASSUME NEW t \in Threads, F!Step(t)
      PROVE  Sound' /\ Whole
  BY <1>2, CallsStay, StartCopyKeeps, EndCopyKeeps, CreateTemporaryKeeps, WriteAndSyncKeeps,
     RenameKeeps, CleanUpKeeps, RestoreBackupKeeps DEF F!Step
<1>3. ASSUME NEW t \in Threads, NEW v \in Contents, F!Begin(t, v)
      PROVE  Sound' /\ Whole
  BY <1>3, BeginKeeps
<1>4. ASSUME NEW p \in Processes, F!Kill(p)
      PROVE  Sound' /\ Whole
  BY <1>4, KillKeeps
<1> QED
  BY <1>2, <1>3, <1>4 DEF F!Next

-----------------------------------------------------------------------------
(* The cache of artifacts: who has it locked is alone with it, and downloads  *)
(* only what is not there.                                                    *)
Caching ==
    /\ pc \in [Procs -> {"idle", "inspect", "download", "verify"}]
    /\ \A p \in Procs : pc[p] # "idle" => lock = {p}
    /\ \A p \in Procs : pc[p] \in {"download", "verify"} => cached = C!Uncached

CacheInv ==
    /\ cached # C!Uncached => cached.bytes = "pinned"
    /\ about = "cache" => Caching

CacheStays == cached # C!Uncached => cached' = cached

LEMMA CacheKeeps ==
    ASSUME Caching, cached # C!Uncached => cached.bytes = "pinned", C!Next
    PROVE  /\ Caching' /\ CacheStays
           /\ cached' # C!Uncached => cached'.bytes = "pinned"
<1> USE DEF Caching, CacheStays, C!Goto, C!Return
<1>1. ASSUME NEW p \in Procs, C!Ensure(p)
      PROVE  Caching' /\ cached' = cached
  BY <1>1 DEF C!Ensure, C!Free
<1>2. ASSUME NEW p \in Procs,
             C!InspectCached(p) \/ C!PartialExists(p) \/ C!Rejected(p) \/ C!Kill(p)
      PROVE  Caching' /\ cached' = cached
  BY <1>2 DEF C!InspectCached, C!PartialExists, C!Rejected, C!Kill
<1>3. ASSUME NEW p \in Procs, C!StartDownload(p) \/ C!Download(p)
      PROVE  Caching' /\ cached' = cached
  BY <1>3 DEF C!StartDownload, C!Download
<1>4. ASSUME NEW p \in Procs, C!Commit(p)
      PROVE  Caching' /\ cached = C!Uncached /\ cached'.bytes = "pinned"
  <2>1. \A q \in Procs \ {p} : pc[q] = "idle"
    BY <1>4 DEF C!Commit
  <2> QED
    BY <1>4, <2>1 DEF C!Commit
<1> QED
  BY <1>1, <1>2, <1>3, <1>4 DEF C!Next

-----------------------------------------------------------------------------
LEMMA OtherParts ==
    ASSUME NodeNext
    PROVE  /\ about # "file" => UNCHANGED replaced
           /\ about # "cache" => UNCHANGED cache
BY DEF NodeNext, OnlySecret, OnlyFile, OnlyJournal, OnlyUpdate, OnlyCache, OnlyIntegration

WholeInv == FileInv /\ CacheInv

\* Unchanged variables leave the invariants.
LEMMA WholeStays ==
    /\ FileInv /\ UNCHANGED replaced => FileInv'
    /\ CacheInv /\ UNCHANGED <<cache, pc, about>> => CacheInv'
<1>1. ASSUME FileInv, UNCHANGED replaced
      PROVE  FileInv'
  BY <1>1 DEF replaced, FileInv, Sound, FileTypes, Names, OneByOne, Writing, Taking, F!Content
<1>2. ASSUME CacheInv, UNCHANGED <<cache, pc, about>>
      PROVE  CacheInv'
  BY <1>2 DEF cache, CacheInv, Caching
<1> QED
  BY <1>1, <1>2

LEMMA WholeKeeps ==
    ASSUME WholeInv, [NodeNext]_nodeVars
    PROVE  WholeInv'
<1>1. CASE NodeNext
  <2>1. FileInv'
    BY <1>1, AboutFile, OtherParts, FileKeeps, WholeStays DEF WholeInv
  <2>2. CASE about = "cache"
    BY <1>1, <2>1, <2>2, AboutCache, CacheKeeps DEF WholeInv, CacheInv
  <2>3. CASE about # "cache"
    BY <1>1, <2>1, <2>3, AboutStays, OtherParts DEF WholeInv, CacheInv, cache
  <2> QED
    BY <2>2, <2>3
<1>2. CASE UNCHANGED nodeVars
  BY <1>2, WholeStays DEF nodeVars, vars, WholeInv
<1> QED
  BY <1>1, <1>2

FileStep == ~shared' => Whole
CacheStep == (cached' # C!Uncached => cached'.bytes = "pinned") /\ CacheStays

LEMMA WholeSteps ==
    ASSUME WholeInv, [NodeNext]_nodeVars
    PROVE  [FileStep]_F!vars /\ [CacheStep]_C!vars
<1>1. CASE NodeNext
  <2>1. about = "file" => FileStep
    BY <1>1, AboutFile, FileKeeps DEF WholeInv, FileStep
  <2>2. about # "file" => UNCHANGED F!vars
    BY <1>1, OtherParts DEF replaced, F!vars
  <2>3. about = "cache" => CacheStep
    BY <1>1, AboutCache, CacheKeeps DEF WholeInv, CacheInv, CacheStep
  <2>4. about # "cache" => CacheStep
    BY <1>1, OtherParts DEF WholeInv, CacheInv, cache, CacheStep, CacheStays
  <2> QED
    BY <2>1, <2>2, <2>3, <2>4
<1>2. CASE UNCHANGED nodeVars
  BY <1>2 DEF nodeVars, vars, replaced, cache, F!vars, C!vars
<1> QED
  BY <1>1, <1>2

\* While the threads of a process write one after the other, a file changes from
\* whole to whole, and only to what a call writes or to what the change it takes
\* back had found (atomic_file.rs: write_atomic, restore_backup); an artifact in
\* the cache has the pinned digest and stays (artifact.rs: ensure).
THEOREM FilesWhole == NodeSpec => FilesAreWhole
<1>1. NodeInit => WholeInv
  BY FileStarts DEF NodeInit, C!Init, WholeInv, CacheInv, Caching
<1>2. WholeInv /\ [NodeNext]_nodeVars => WholeInv'
  BY WholeKeeps
<1>3. WholeInv /\ [NodeNext]_nodeVars => [FileStep]_F!vars /\ [CacheStep]_C!vars
  BY WholeSteps
<1>4. NodeSpec => [][FileStep]_F!vars /\ [][CacheStep]_C!vars
  BY <1>1, <1>2, <1>3, PTL DEF NodeSpec, nodeVars
<1>5. [][FileStep]_F!vars => F!WritesAreAtomic
  BY PTL DEF FileStep, Whole, F!WritesAreAtomic
<1>6. [][CacheStep]_C!vars => C!ArtifactsAreImmutable
  BY PTL DEF CacheStep, CacheStays, C!ArtifactsAreImmutable
<1> QED
  BY <1>4, <1>5, <1>6 DEF FilesAreWhole

-----------------------------------------------------------------------------
(* Journals.                                                                 *)

Lines == Seq(Nat \X {"half", "rest", "newline"})

\* f says what is read after each byte of s: the definition of `reading`.
ReadsThrough(f, s) ==
    f = [n \in 0..Len(s) |-> IF n = 0 THEN J!Start ELSE J!ReadByte(f[n - 1], s[n])]

\* The last Limit records of o.
LastOf(o) == SubSeq(o, IF Len(o) > Limit THEN Len(o) - Limit + 1 ELSE 1, Len(o))

HalfLine(r) == <<<<r, "half">>>>
WholeLine(r) == <<<<r, "half">>, <<r, "rest">>>>

\* What a writer has already put behind the last line.
Written(w) ==
    IF w.parts = <<"rest", "newline">> THEN HalfLine(w.record)
    ELSE IF w.parts = <<"newline">> THEN WholeLine(w.record)
    ELSE <<>>

\* At the end x of file s nothing is refused, the last line is whole or a part
\* of one, and with it the last of the records o are read; whoever of `holders`
\* appends knows what he has written.
Resolved(x, s, o, holders, appends) ==
    /\ x = [line |-> x.line, values |-> x.values, refused |-> FALSE]
    /\ x.values \in Seq(Nat)
    /\ \/ x.line = <<>> /\ x.values = LastOf(o)
       \/ \E r \in Nat : x.line = HalfLine(r) /\ x.values = LastOf(o)
       \/ \E r \in Nat : x.line = WholeLine(r) /\ J!Push(x.values, r) = LastOf(o)
    /\ x.line = <<>> <=> s = <<>> \/ s[Len(s)][2] = "newline"
    /\ \A p \in holders : x.line = Written(appends[p])

\* One writer at a time holds the lock, and knows how far it is.
JournalTypes ==
    /\ bytes \in Lines /\ order \in Seq(Nat) /\ flock \subseteq Procs
    /\ writing \in [Procs -> [record : Nat,
           parts : {<<>>, <<"newline">>, <<"rest", "newline">>, J!Parts}]]
    /\ \A p \in Procs : p \in flock <=> writing[p] # J!NoRecord
    /\ \A p \in flock : writing[p].record # 0
    /\ \A p, q \in flock : p = q

JournalInv ==
    /\ JournalTypes
    /\ ~torn => /\ \E f : ReadsThrough(f, bytes)
                /\ \A f : ReadsThrough(f, bytes) =>
                     Resolved(f[Len(bytes)], bytes, order, flock, writing)

\* How many records are read of o, and which.
LEMMA LastIs ==
    ASSUME NEW o \in Seq(Nat), NEW n, n = (IF Len(o) > Limit THEN Limit ELSE Len(o))
    PROVE  /\ n \in 0..Len(o) /\ LastOf(o) \in Seq(Nat) /\ Len(LastOf(o)) = n
           /\ \A i \in 1..n : LastOf(o)[i] = o[Len(o) - n + i]
<1>1. Limit \in Nat \ {0} /\ Len(o) \in Nat
  BY NodeAssumption DEF J!JournalAssumption
<1> DEFINE k == IF Len(o) > Limit THEN Len(o) - Limit + 1 ELSE 1
<1>2. k \in 1..(Len(o) + 1) /\ k = Len(o) - n + 1 /\ n \in 0..Len(o)
  BY <1>1
<1>3. LastOf(o) = SubSeq(o, k, Len(o))
  BY DEF LastOf
<1> HIDE DEF k
<1>4. /\ SubSeq(o, k, Len(o)) \in Seq(Nat)
      /\ Len(SubSeq(o, k, Len(o))) = IF k <= Len(o) THEN Len(o) - k + 1 ELSE 0
      /\ \A i \in 1 .. Len(o) - k + 1 : SubSeq(o, k, Len(o))[i] = o[k + i - 1]
  <2>1. k \in Int /\ Len(o) \in Int
    BY <1>1, <1>2
  <2>2. \A i \in k .. Len(o) : o[i] \in Nat
    BY <1>1, <1>2
  <2> QED BY <2>1, <2>2, SubSeqProperties
<1>5. Len(o) - k + 1 = n /\ (k <= Len(o) <=> n # 0)
  BY <1>1, <1>2
<1>6. \A i \in 1..n : k + i - 1 = Len(o) - n + i
  BY <1>1, <1>2
<1>7. Len(LastOf(o)) = n /\ LastOf(o) \in Seq(Nat)
  BY <1>1, <1>2, <1>3, <1>4, <1>5
<1>8. \A i \in 1..n : LastOf(o)[i] = o[Len(o) - n + i]
  BY <1>3, <1>4, <1>5, <1>6
<1> QED
  BY <1>2, <1>7, <1>8

\* A record more: it is the last one read, and the first one goes at the limit.
LEMMA PushLast ==
    ASSUME NEW o \in Seq(Nat), NEW r \in Nat
    PROVE  J!Push(LastOf(o), r) = LastOf(Append(o, r)) /\ LastOf(o) \in Seq(Nat)
<1>1. Limit \in Nat \ {0} /\ Len(o) \in Nat
  BY NodeAssumption DEF J!JournalAssumption
<1> DEFINE t == Append(o, r)
           n == IF Len(o) > Limit THEN Limit ELSE Len(o)
           m == IF Len(t) > Limit THEN Limit ELSE Len(t)
           a == LastOf(o)
           b == LastOf(t)
           c == J!Push(a, r)
<1>2. t \in Seq(Nat) /\ Len(t) = Len(o) + 1 /\ t[Len(o) + 1] = r
      /\ \A i \in 1..Len(o) : t[i] = o[i]
  OBVIOUS
<1> HIDE DEF t
<1>3. /\ n \in 0..Len(o) /\ a \in Seq(Nat) /\ Len(a) = n
      /\ \A i \in 1..n : a[i] = o[Len(o) - n + i]
  BY LastIs
<1>4. /\ m \in 0..Len(t) /\ b \in Seq(Nat) /\ Len(b) = m
      /\ \A i \in 1..m : b[i] = t[Len(t) - m + i]
  BY <1>2, LastIs
<1>5. c = Append(IF n = Limit THEN Tail(a) ELSE a, r)
  BY <1>3 DEF J!Push
<1>6. /\ n = Limit => m = n
      /\ n # Limit => m = n + 1 /\ n = Len(o)
  BY <1>1, <1>2
<1> HIDE DEF a, b, c, n, m
<1>7. CASE n = Limit
  <2>1. Tail(a) \in Seq(Nat) /\ Len(Tail(a)) = n - 1 /\ \A i \in 1..(n - 1) : Tail(a)[i] = a[i + 1]
    BY <1>1, <1>3, <1>7
  <2>2. c \in Seq(Nat) /\ Len(c) = n /\ c[n] = r /\ \A i \in 1..(n - 1) : c[i] = a[i + 1]
    BY <1>1, <1>5, <1>7, <2>1
  <2>3. ASSUME NEW i \in 1..n PROVE c[i] = b[i]
    <3>1. CASE i = n
      BY <1>1, <1>2, <1>3, <1>4, <1>6, <1>7, <2>2, <3>1
    <3>2. CASE i \in 1..(n - 1)
      <4>1. c[i] = a[i + 1] /\ i + 1 \in 1..n
        BY <1>1, <1>3, <1>7, <2>2, <3>2
      <4>2. a[i + 1] = o[Len(o) - n + i + 1]
        <5>1. Len(o) - n + (i + 1) = Len(o) - n + i + 1
          BY <1>1, <1>3, <3>2
        <5> QED BY <1>3, <4>1, <5>1
      <4>3. b[i] = t[Len(o) - n + i + 1] /\ Len(o) - n + i + 1 \in 1..Len(o)
        <5>1. Len(t) - m + i = Len(o) - n + i + 1 /\ i \in 1..m
          BY <1>1, <1>2, <1>3, <1>6, <1>7, <3>2
        <5>2. Len(o) - n + i + 1 \in 1..Len(o)
          BY <1>1, <1>3, <3>2
        <5> QED BY <1>4, <5>1, <5>2
      <4> QED BY <1>2, <4>1, <4>2, <4>3
    <3> QED BY <1>1, <1>7, <3>1, <3>2
  <2> QED BY <1>3, <1>4, <1>6, <1>7, <2>2, <2>3 DEF a, b, c, t
<1>8. CASE n # Limit
  <2>1. c \in Seq(Nat) /\ Len(c) = n + 1 /\ c[n + 1] = r /\ \A i \in 1..n : c[i] = a[i]
    BY <1>1, <1>3, <1>5, <1>8
  <2>2. ASSUME NEW i \in 1..(n + 1) PROVE c[i] = b[i]
    <3>1. b[i] = t[i]
      <4>1. Len(t) - m + i = i /\ i \in 1..m
        BY <1>1, <1>2, <1>6, <1>8
      <4> QED BY <1>4, <4>1
    <3>2. CASE i = n + 1
      BY <1>1, <1>2, <1>6, <1>8, <2>1, <3>1, <3>2
    <3>3. CASE i \in 1..n
      <4>1. Len(o) - n + i = i /\ i \in 1..Len(o)
        BY <1>1, <1>6, <1>8, <3>3
      <4>2. a[i] = o[i] /\ t[i] = o[i]
        BY <1>2, <1>3, <3>3, <4>1
      <4> QED BY <2>1, <3>1, <3>3, <4>2
    <3> QED BY <1>3, <3>2, <3>3
  <2> QED BY <1>3, <1>4, <1>6, <1>8, <2>1, <2>2 DEF a, b, c, t
<1> QED BY <1>3, <1>7, <1>8 DEF a, b, c, t

\* A byte more: what was read before stays read, and the byte comes on top.
LEMMA OneByteMore ==
    ASSUME NEW s \in Lines, NEW b \in Nat \X {"half", "rest", "newline"},
           \E f : ReadsThrough(f, s)
    PROVE  /\ \E g : ReadsThrough(g, Append(s, b))
           /\ \A g : ReadsThrough(g, Append(s, b)) =>
                \E f : ReadsThrough(f, s) /\ g[Len(s) + 1] = J!ReadByte(f[Len(s)], b)
<1> DEFINE t == Append(s, b)
<1>1. Len(s) \in Nat /\ Len(t) = Len(s) + 1 /\ t[Len(s) + 1] = b
      /\ \A n \in 1..Len(s) : t[n] = s[n]
  BY DEF Lines
<1> HIDE DEF t
<1>2. \E g : ReadsThrough(g, t)
  <2>1. PICK f : ReadsThrough(f, s)
    OBVIOUS
  <2> DEFINE g == [n \in 0..Len(t) |-> IF n <= Len(s) THEN f[n] ELSE J!ReadByte(f[Len(s)], b)]
  <2>2. \A n \in 0..Len(s) : f[n] = IF n = 0 THEN J!Start ELSE J!ReadByte(f[n - 1], s[n])
    BY <2>1 DEF ReadsThrough
  <2>3. ASSUME NEW n \in 0..Len(t)
        PROVE  g[n] = IF n = 0 THEN J!Start ELSE J!ReadByte(g[n - 1], t[n])
    <3>1. CASE n = 0
      BY <1>1, <2>2, <3>1
    <3>2. CASE n \in 1..Len(s)
      <4>1. g[n] = f[n] /\ g[n - 1] = f[n - 1] /\ t[n] = s[n]
        BY <1>1, <3>2
      <4>2. n # 0 /\ n \in 0..Len(s)
        BY <1>1, <3>2
      <4> HIDE DEF g
      <4> QED BY <2>2, <4>1, <4>2
    <3>3. CASE n = Len(s) + 1
      <4>1. g[n] = J!ReadByte(f[Len(s)], b) /\ g[n - 1] = f[Len(s)] /\ t[n] = b
        BY <1>1, <3>3
      <4>2. n # 0
        BY <1>1, <3>3
      <4> HIDE DEF g
      <4> QED BY <4>1, <4>2
    <3> QED BY <1>1, <3>1, <3>2, <3>3
  <2>4. g = [n \in 0..Len(t) |-> g[n]]
    OBVIOUS
  <2> HIDE DEF g
  <2>5. ReadsThrough(g, t)
    BY <2>3, <2>4, Zenon DEF ReadsThrough
  <2> QED BY <2>5
<1>3. ASSUME NEW g, ReadsThrough(g, t)
      PROVE  \E f : ReadsThrough(f, s) /\ g[Len(s) + 1] = J!ReadByte(f[Len(s)], b)
  <2>1. \A n \in 0..Len(t) : g[n] = IF n = 0 THEN J!Start ELSE J!ReadByte(g[n - 1], t[n])
    BY <1>3 DEF ReadsThrough
  <2> DEFINE f == [n \in 0..Len(s) |-> g[n]]
  <2>2. ASSUME NEW n \in 0..Len(s)
        PROVE  f[n] = IF n = 0 THEN J!Start ELSE J!ReadByte(f[n - 1], s[n])
    <3>1. CASE n = 0
      BY <1>1, <2>1, <3>1
    <3>2. CASE n # 0
      <4>1. f[n] = g[n] /\ f[n - 1] = g[n - 1] /\ t[n] = s[n] /\ n \in 0..Len(t)
        BY <1>1, <3>2
      <4> HIDE DEF f
      <4> QED BY <2>1, <3>2, <4>1
    <3> QED BY <3>1, <3>2
  <2>3. f = [n \in 0..Len(s) |-> f[n]]
    OBVIOUS
  <2>4. f[Len(s)] = g[Len(s)]
    BY <1>1
  <2> HIDE DEF f
  <2>5. ReadsThrough(f, s)
    BY <2>2, <2>3, Zenon DEF ReadsThrough
  <2>6. g[Len(s) + 1] = J!ReadByte(g[Len(s)], b)
    <3>1. Len(s) + 1 \in 0..Len(t) /\ Len(s) + 1 # 0 /\ (Len(s) + 1) - 1 = Len(s)
      BY <1>1
    <3> QED BY <1>1, <2>1, <3>1
  <2> QED BY <2>4, <2>5, <2>6
<1> QED BY <1>2, <1>3 DEF t

\* The function of the model is one that reads through the file.
LEMMA ReadingReads ==
    ASSUME \E f : ReadsThrough(f, bytes)
    PROVE  ReadsThrough(J!reading, bytes)
BY DEF ReadsThrough, J!reading

-----------------------------------------------------------------------------
\* A step that leaves the file as it is, and whoever still holds the lock where
\* he was.
LEMMA LineStays ==
    ASSUME JournalInv, JournalTypes', UNCHANGED <<bytes, order>>, ~torn' => ~torn,
           ~torn' => \A p \in flock' :
                \/ p \in flock /\ writing'[p] = writing[p]
                \/ Written(writing'[p]) = <<>> /\ ~J!Unfinished
    PROVE  JournalInv'
<1>1. ASSUME ~torn', NEW x, Resolved(x, bytes, order, flock, writing)
      PROVE  Resolved(x, bytes', order', flock', writing')
  <2>1. ~J!Unfinished => x.line = <<>>
    BY <1>1 DEF J!Unfinished, J!Last, J!Part, Resolved, JournalInv, JournalTypes, Lines
  <2>2. \A p \in flock' : x.line = Written(writing'[p])
    BY <1>1, <2>1 DEF Resolved
  <2> QED BY <1>1, <2>2 DEF Resolved
<1> QED BY <1>1 DEF JournalInv

LEMMA TwoElements ==
    ASSUME NEW S, NEW e \in S, NEW f \in S
    PROVE  Append(<<e>>, f) = <<e, f>>
<1> DEFINE s == Append(<<e>>, f)
<1>1. <<e>> \in Seq(S) /\ Len(<<e>>) = 1 /\ <<e>>[1] = e
  OBVIOUS
<1>2. s \in Seq(S) /\ Len(s) = 2 /\ s[1] = e /\ s[2] = f
  BY <1>1
<1>3. <<e, f>> \in Seq(S) /\ Len(<<e, f>>) = 2 /\ <<e, f>>[1] = e /\ <<e, f>>[2] = f
  OBVIOUS
<1> HIDE DEF s
<1>4. s = <<e, f>>
  <2>1. \A i \in 1..2 : s[i] = <<e, f>>[i]
    BY <1>2, <1>3
  <2> QED BY <1>2, <1>3, <2>1, SeqEqual
<1> QED BY <1>4 DEF s

\* The bytes of one append, each of which reads as it should.
LEMMA ByteReads ==
    ASSUME JournalTypes, NEW p \in Procs, J!Write(p), NEW x,
           Resolved(x, bytes, order, flock, writing)
    PROVE  Resolved(J!ReadByte(x, <<writing[p].record, Head(writing[p].parts)>>),
                    bytes', order', flock', writing')
<1>1. PICK r \in Nat, part \in {"half", "rest", "newline"} :
        r = writing[p].record /\ part = Head(writing[p].parts)
  BY DEF JournalTypes, J!Write, J!Parts
<1> DEFINE b == <<r, part>>
           y == J!ReadByte(x, b)
<1>2. flock = {p} /\ flock' = {p}
  BY DEF JournalTypes, J!Write, J!NoRecord
<1>3. bytes' # <<>> /\ bytes'[Len(bytes')] = b
  BY <1>1 DEF JournalTypes, J!Write, Lines
<1>0. PICK l, v : x = [line |-> l, values |-> v, refused |-> FALSE]
  BY DEF Resolved
<1>4. l = Written(writing[p]) /\ v \in Seq(Nat) /\ x.line = l /\ x.values = v /\ ~x.refused
  BY <1>0, <1>2 DEF Resolved
<1>10. x \in [line : {l}, values : {v}, refused : {FALSE}] /\ x.refused = FALSE
  BY <1>0
<1>5. writing'[p].record = r /\ writing'[p].parts = Tail(writing[p].parts)
  BY <1>1 DEF J!Write, JournalTypes
<1>6. order \in Seq(Nat)
  BY DEF JournalTypes
<1>7. CASE writing[p].parts = J!Parts
  <2>1. part = "half" /\ x.line = <<>> /\ Tail(writing[p].parts) = <<"rest", "newline">>
    BY <1>1, <1>4, <1>7 DEF J!Parts, Written
  <2>2. y = [line |-> HalfLine(r), values |-> x.values, refused |-> FALSE]
    <3>1. Append(<<>>, b) = HalfLine(r)
      BY <2>1 DEF HalfLine
    <3>2. ~x.refused
      BY <1>4
    <3>3. J!Part(b) # "newline"
      BY <2>1 DEF J!Part
    <3>4. y = [x EXCEPT !.line = Append(x.line, b)]
      BY <3>2, <3>3 DEF J!ReadByte
    <3>5. [x EXCEPT !.line = Append(x.line, b)] = [line |-> Append(l, b), values |-> v, refused |-> FALSE]
      <4>1. PICK c : c = Append(x.line, b)
        OBVIOUS
      <4>2. [x EXCEPT !.line = c] = [line |-> c, values |-> x.values, refused |-> x.refused]
        BY <1>10, SMT
      <4> QED BY <1>4, <1>10, <4>1, <4>2
    <3> QED BY <1>4, <2>1, <3>1, <3>4, <3>5
  <2>3. order' = order /\ x.values = LastOf(order)
    BY <1>1, <2>1 DEF J!Write, Resolved, HalfLine, WholeLine
  <2>4. Written(writing'[p]) = HalfLine(r) /\ HalfLine(r) # <<>>
    BY <1>5, <2>1 DEF Written, HalfLine
  <2>5. bytes'[Len(bytes')][2] # "newline"
    BY <1>3, <2>1
  <2> HIDE DEF y, b
  <2>6. y.line = HalfLine(r) /\ y.values = x.values /\ y.refused = FALSE
    BY <2>2
  <2> QED BY <1>2, <1>3, <1>4, <1>5, <2>2, <2>3, <2>4, <2>5, <2>6, <1>1 DEF Resolved, y, b
<1>8. CASE writing[p].parts = <<"rest", "newline">>
  <2>1. part = "rest" /\ x.line = HalfLine(r) /\ Tail(writing[p].parts) = <<"newline">>
    BY <1>1, <1>4, <1>8 DEF Written
  <2>2. y = [line |-> WholeLine(r), values |-> x.values, refused |-> FALSE]
    <3>1. Append(HalfLine(r), b) = WholeLine(r)
      <4>1. <<r, "half">> \in Nat \X {"half", "rest"} /\ <<r, "rest">> \in Nat \X {"half", "rest"}
        OBVIOUS
      <4> QED BY <2>1, <4>1, TwoElements DEF HalfLine, WholeLine
    <3>2. ~x.refused
      BY <1>4
    <3>3. J!Part(b) # "newline"
      BY <2>1 DEF J!Part
    <3>4. y = [x EXCEPT !.line = Append(x.line, b)]
      BY <3>2, <3>3 DEF J!ReadByte
    <3>5. [x EXCEPT !.line = Append(x.line, b)] = [line |-> Append(l, b), values |-> v, refused |-> FALSE]
      <4>1. PICK c : c = Append(x.line, b)
        OBVIOUS
      <4>2. [x EXCEPT !.line = c] = [line |-> c, values |-> x.values, refused |-> x.refused]
        BY <1>10, SMT
      <4> QED BY <1>4, <1>10, <4>1, <4>2
    <3> QED BY <1>4, <2>1, <3>1, <3>4, <3>5
  <2>3. order' = Append(order, r) /\ x.values = LastOf(order)
    BY <1>1, <2>1 DEF J!Write, Resolved, HalfLine, WholeLine
  <2>4. Written(writing'[p]) = WholeLine(r) /\ WholeLine(r) # <<>>
    BY <1>5, <2>1 DEF Written, WholeLine
  <2>5. bytes'[Len(bytes')][2] # "newline"
    BY <1>3, <2>1
  <2>6. J!Push(x.values, r) = LastOf(order')
    BY <1>6, <2>3, PushLast
  <2> HIDE DEF y, b
  <2>7. y.line = WholeLine(r) /\ y.values = x.values /\ y.refused = FALSE
    BY <2>2
  <2> QED BY <1>2, <1>3, <1>4, <1>5, <2>2, <2>4, <2>5, <2>6, <2>7, <1>1 DEF Resolved, y, b
<1>9. CASE writing[p].parts = <<"newline">>
  <2>1. part = "newline" /\ x.line = WholeLine(r) /\ Tail(writing[p].parts) = <<>>
    BY <1>1, <1>4, <1>9 DEF Written
  <2>2. y = [line |-> <<>>, values |-> J!Push(x.values, r), refused |-> FALSE]
    <3>1. J!Parsed(x.line) /\ J!Record(x.line[1]) = r
      BY <2>1 DEF J!Parsed, J!Part, J!Record, WholeLine
    <3>2. ~x.refused
      BY <1>4
    <3>3. J!Part(b) = "newline"
      BY <2>1 DEF J!Part
    <3> QED BY <1>4, <3>1, <3>2, <3>3 DEF J!ReadByte
  <2>3. order' = order /\ J!Push(x.values, r) = LastOf(order)
    BY <1>1, <2>1 DEF J!Write, Resolved, HalfLine, WholeLine
  <2>4. Written(writing'[p]) = <<>>
    <3>1. writing'[p].parts = <<>> /\ Len(<<>>) = 0 /\ Len(<<"newline">>) = 1
          /\ Len(<<"rest", "newline">>) = 2
      BY <1>5, <2>1
    <3> QED BY <3>1 DEF Written
  <2>5. LastOf(order) \in Seq(Nat)
    BY <1>6, <1>1, PushLast
  <2>6. bytes'[Len(bytes')][2] = "newline"
    BY <1>3, <2>1
  <2> HIDE DEF y, b
  <2>7. y.line = <<>> /\ y.values = LastOf(order') /\ y.refused = FALSE
    BY <2>2, <2>3
  <2> QED BY <1>2, <1>3, <1>5, <2>2, <2>3, <2>4, <2>5, <2>6, <2>7, <1>1 DEF Resolved, y, b
<1> QED BY <1>7, <1>8, <1>9 DEF J!Write, JournalTypes

LEMMA JournalStarts ==
    ASSUME J!Init
    PROVE  JournalInv
<1>1. bytes = <<>> /\ bytes \in Lines /\ Len(bytes) = 0 /\ order = <<>> /\ order \in Seq(Nat)
  BY DEF J!Init, Lines
<1>2. JournalTypes
  BY <1>1 DEF J!Init, J!NoRecord, JournalTypes
<1>3. \E f : ReadsThrough(f, bytes)
  <2> DEFINE g == [n \in 0..Len(bytes) |-> J!Start]
  <2>1. g = [n \in 0..Len(bytes) |-> IF n = 0 THEN J!Start ELSE J!ReadByte(g[n - 1], bytes[n])]
    BY <1>1
  <2> HIDE DEF g
  <2> QED BY <2>1 DEF ReadsThrough
<1>4. LastOf(order) = <<>>
  <2>1. Limit \in Nat \ {0}
    BY NodeAssumption DEF J!JournalAssumption
  <2>2. Len(order) = 0 /\ Len(LastOf(order)) = 0 /\ LastOf(order) \in Seq(Nat)
    <3>1. 0 = (IF Len(order) > Limit THEN Limit ELSE Len(order))
      BY <1>1, <2>1
    <3> QED BY <1>1, <3>1, LastIs
  <2> QED BY <2>2
<1>5. Resolved(J!Start, bytes, order, flock, writing)
  BY <1>1, <1>4 DEF Resolved, J!Start, J!Init
<1>6. ASSUME NEW f, ReadsThrough(f, bytes) PROVE f[Len(bytes)] = J!Start
  BY <1>1, <1>6 DEF ReadsThrough
<1> QED BY <1>2, <1>3, <1>5, <1>6 DEF JournalInv

LEMMA JournalKeeps ==
    ASSUME JournalInv, J!Next
    PROVE  JournalInv'
<1> PICK p \in Procs : J!Open(p) \/ J!Write(p) \/ J!Close(p) \/ J!Cut(p)
  BY DEF J!Next
<1>1. CASE J!Open(p)
  <2>1. JournalTypes'
    BY <1>1 DEF J!Open, J!Exclusive, JournalInv, JournalTypes, J!NoRecord, J!Parts
  <2>2. flock' = {p} /\ writing'[p].parts = J!Parts /\ (~torn' => ~torn /\ ~J!Unfinished)
    <3>1. PICK r \in Nat : writing' = [writing EXCEPT ![p] = [record |-> r, parts |-> J!Parts]]
      <4>1. PICK r \in 1..MaxRecords : writing' = [writing EXCEPT ![p] = [record |-> r, parts |-> J!Parts]]
        BY <1>1 DEF J!Open
      <4>2. r \in Nat
        BY NodeAssumption DEF J!JournalAssumption
      <4> QED BY <4>1, <4>2
    <3>2. writing'[p] = [record |-> r, parts |-> J!Parts]
      BY <3>1 DEF JournalInv, JournalTypes
    <3>3. flock = {} /\ flock' = flock \cup {p} /\ torn' = (torn \/ (flock = {} /\ J!Unfinished))
      BY <1>1 DEF J!Open, J!Exclusive
    <3>4. flock' = {p}
      BY <3>3
    <3>5. ~torn' => ~torn /\ ~J!Unfinished
      BY <3>3, Zenon
    <3> QED BY <3>2, <3>4, <3>5
  <2>3. Written(writing'[p]) = <<>>
    BY <2>2 DEF Written, J!Parts
  <2> QED BY <1>1, <2>1, <2>2, <2>3, LineStays DEF J!Open
<1>2. CASE J!Write(p)
  <2>1. writing[p].record \in Nat /\ bytes \in Lines /\ order \in Seq(Nat)
        /\ Head(writing[p].parts) \in {"half", "rest", "newline"}
        /\ Tail(writing[p].parts) \in {<<>>, <<"newline">>, <<"rest", "newline">>}
    <3>1. writing[p].parts \in {<<"newline">>, <<"rest", "newline">>, <<"half", "rest", "newline">>}
          /\ writing[p].record \in Nat /\ bytes \in Lines /\ order \in Seq(Nat)
      BY <1>2 DEF J!Write, JournalInv, JournalTypes, J!Parts
    <3>2. Head(<<"newline">>) = "newline" /\ Tail(<<"newline">>) = <<>>
      OBVIOUS
    <3>3. Head(<<"rest", "newline">>) = "rest" /\ Tail(<<"rest", "newline">>) = <<"newline">>
      OBVIOUS
    <3>4. Head(<<"half", "rest", "newline">>) = "half"
          /\ Tail(<<"half", "rest", "newline">>) = <<"rest", "newline">>
      OBVIOUS
    <3> QED BY <3>1, <3>2, <3>3, <3>4
  <2>2. PICK b : b = <<writing[p].record, Head(writing[p].parts)>>
    OBVIOUS
  <2>3. bytes' = Append(bytes, b) /\ b \in Nat \X {"half", "rest", "newline"}
    BY <1>2, <2>1, <2>2 DEF J!Write
  <2>4. JournalTypes'
    <3>1. bytes' \in Lines
      BY <2>1, <2>3 DEF Lines
    <3>2. order' \in Seq(Nat)
      BY <1>2, <2>1 DEF J!Write
    <3>3. p \in flock /\ writing[p].record # 0 /\ flock' = flock
      BY <1>2 DEF J!Write, JournalInv, JournalTypes, J!NoRecord
    <3>4. writing' = [writing EXCEPT ![p] = [record |-> writing[p].record, parts |-> Tail(writing[p].parts)]]
      <4>1. writing[p] \in [record : Nat,
               parts : {<<>>, <<"newline">>, <<"rest", "newline">>, J!Parts}]
        BY DEF JournalInv, JournalTypes
      <4>2. writing' = [writing EXCEPT ![p].parts = Tail(writing[p].parts)]
        BY <1>2 DEF J!Write
      <4>3. PICK w, rest : w = writing[p] /\ rest = Tail(writing[p].parts)
        OBVIOUS
      <4>4. w \in [record : Nat, parts : {w.parts}]
        BY <4>1, <4>3
      <4>5. [w EXCEPT !.parts = rest] = [record |-> w.record, parts |-> rest]
        BY <4>4, SMT
      <4> QED BY <4>2, <4>3, <4>5
    <3>5. writing'[p] # J!NoRecord
      BY <2>1, <3>3, <3>4 DEF JournalInv, JournalTypes, J!NoRecord
    <3> QED
      BY <2>1, <3>1, <3>2, <3>3, <3>4, <3>5 DEF JournalInv, JournalTypes
  <2>5. torn' = torn
    BY <1>2 DEF J!Write
  <2>6. Len(bytes') = Len(bytes) + 1
    BY <2>1, <2>3 DEF Lines
  <2>7. ASSUME ~torn, NEW g, ReadsThrough(g, bytes')
        PROVE  Resolved(g[Len(bytes')], bytes', order', flock', writing')
    <3>1. PICK f : ReadsThrough(f, bytes) /\ g[Len(bytes) + 1] = J!ReadByte(f[Len(bytes)], b)
      BY <2>1, <2>3, <2>7, OneByteMore DEF JournalInv
    <3>2. Resolved(f[Len(bytes)], bytes, order, flock, writing)
      BY <2>7, <3>1 DEF JournalInv
    <3>3. PICK x : x = f[Len(bytes)]
      OBVIOUS
    <3>4. Resolved(J!ReadByte(x, b), bytes', order', flock', writing')
      BY <1>2, <2>2, <3>2, <3>3, ByteReads DEF JournalInv
    <3> QED BY <2>6, <3>1, <3>3, <3>4
  <2>8. ~torn => \E f : ReadsThrough(f, bytes')
    BY <2>1, <2>3, OneByteMore DEF JournalInv
  <2> QED BY <2>4, <2>5, <2>7, <2>8 DEF JournalInv
<1>3. CASE J!Close(p) \/ J!Cut(p)
  <2>1. p \in flock
    BY <1>3 DEF J!Close, J!Cut, JournalInv, JournalTypes, J!NoRecord
  <2>2. flock' = {} /\ UNCHANGED <<bytes, order, torn>> /\ writing' = [writing EXCEPT ![p] = J!NoRecord]
    BY <1>3, <2>1 DEF J!Close, J!Cut, JournalInv, JournalTypes
  <2>3. JournalTypes'
    BY <2>1, <2>2 DEF JournalInv, JournalTypes, J!NoRecord
  <2> QED BY <2>2, <2>3, LineStays
<1> QED BY <1>1, <1>2, <1>3

LEMMA JournalIsEnough ==
    ASSUME JournalInv
    PROVE  J!JournalIsRead
<1> SUFFICES ASSUME flock = {}, ~torn
             PROVE  ~J!latest.refused /\ J!latest.values = J!Reverse(LastOf(order))
  BY DEF J!JournalIsRead, LastOf
<1> DEFINE x == J!reading[Len(bytes)]
<1>1. Resolved(x, bytes, order, flock, writing)
  BY ReadingReads DEF JournalInv
<1>2. J!latest = [refused |-> x.refused,
                  values |-> J!Reverse(IF J!Parsed(x.line) THEN J!Push(x.values, J!Record(x.line[1]))
                                       ELSE x.values)]
  BY DEF J!latest
<1> HIDE DEF x
<1>3. (IF J!Parsed(x.line) THEN J!Push(x.values, J!Record(x.line[1])) ELSE x.values) = LastOf(order)
  BY <1>1 DEF Resolved, J!Parsed, J!Record, J!Part, HalfLine, WholeLine
<1>4. ~x.refused
  BY <1>1 DEF Resolved
<1> QED BY <1>2, <1>3, <1>4

LEMMA AboutJournal ==
    ASSUME NodeNext
    PROVE  J!Next \/ UNCHANGED <<bytes, flock, writing, cuts, order, torn>>
BY DEF NodeNext, J!Next, OnlySecret, OnlyFile, OnlyJournal, OnlyUpdate, OnlyCache,
       OnlyIntegration, journal

\* Every journal: while no line follows a torn one, a reader that gets the lock
\* reads the last records in reverse order, each once, and refuses nothing
\* (jsonl_store.rs: append, latest), for any number of writers, records and
\* appends cut short, and any limit.
THEOREM JournalsAreRead == NodeSpec => []JournalIsRead
<1>1. NodeInit => JournalInv
  BY JournalStarts DEF NodeInit
<1>2. JournalInv /\ [NodeNext]_nodeVars => JournalInv'
  <2> SUFFICES ASSUME JournalInv, [NodeNext]_nodeVars PROVE JournalInv'
    OBVIOUS
  <2>1. CASE UNCHANGED <<bytes, flock, writing, cuts, order, torn>>
    BY <2>1 DEF JournalInv, JournalTypes
  <2> QED BY <2>1, AboutJournal, JournalKeeps DEF nodeVars, journal
<1>3. JournalInv => JournalIsRead
  BY JournalIsEnough DEF JournalIsRead
<1> QED
  BY <1>1, <1>2, <1>3, PTL DEF NodeSpec, nodeVars
=============================================================================
