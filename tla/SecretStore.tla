---------------------------- MODULE SecretStore ----------------------------
(***************************************************************************)
(* The encrypted secrets of a node (secret_store.rs): one sealed file for    *)
(* each reference and one master key, made by whoever needs it first.        *)
(* Processes use the store without a lock; files of installations that did   *)
(* not encrypt are sealed when they are first read.  write_atomic is three   *)
(* steps here, the opening of the old file, its backup and the replacement;  *)
(* AtomicFile has the others.                                                *)
(***************************************************************************)
EXTENDS Naturals

CONSTANTS
    Procs, Refs,
    Legacy,         \* references that an older installation stored unsealed
    NoKey, Empty,   \* secrets.key is absent, or has been created and not filled
    MaxValues,      \* bound: number of secret values written
    MaxKilled       \* bound: number of processes killed, or keys half written

ASSUME SecretsAssumption ==
    /\ NoKey \notin Procs /\ Empty \notin Procs /\ NoKey # Empty
    /\ Legacy \subseteq Refs
    /\ MaxValues \in Nat /\ MaxKilled \in Nat

VARIABLES
    key,        \* secrets.key: a key is named by the process that drew it
    file,       \* secrets/<reference>
    backup,     \* secrets/.<reference>.lumic-backup
    pc, job,
    values,     \* number of values written
    killed,
    want,       \* history: the value the last writer gave each reference
    raced,      \* history: references written while a reader sealed an older value
    cut         \* history: references whose deletion was killed half way, or ended
                \* while a writer was about to copy the file that it had open

vars == <<key, file, backup, pc, job, values, killed, want, raced, cut>>

Plain(v) == [kind |-> "plain", value |-> v, key |-> NoKey]
Sealed(v, k) == [kind |-> "sealed", value |-> v, key |-> k]
Absent == Plain(0)

NoJob == [op |-> "none"]
Job(op, r, v, k) == [op |-> op, ref |-> r, value |-> v, key |-> k, source |-> Absent]

Init ==
    /\ key = NoKey
    /\ file = [r \in Refs |-> IF r \in Legacy THEN Plain(1) ELSE Absent]
    /\ backup = [r \in Refs |-> Absent]
    /\ pc = [p \in Procs |-> "idle"] /\ job = [p \in Procs |-> NoJob]
    /\ values = 1 /\ killed = 0
    /\ want = [r \in Refs |-> file[r].value] /\ raced = {} /\ cut = {}

Exists(r) == file[r] # Absent

Goto(p, label) == pc' = [pc EXCEPT ![p] = label]
Return(p) == Goto(p, "idle") /\ job' = [job EXCEPT ![p] = NoJob]

Data == <<key, file, backup, killed, want, raced, cut>>

-----------------------------------------------------------------------------
(* The operations.                                                         *)

\* create, put and rotate draw or take a new value.
Write(p, r, op) ==
    /\ pc[p] = "idle" /\ values < MaxValues
    /\ values' = values + 1
    /\ job' = [job EXCEPT ![p] = Job(op, r, values + 1, NoKey)]
    /\ Goto(p, "key")
    /\ UNCHANGED Data

Create(p, r) == ~Exists(r) /\ Write(p, r, "create")
Rotate(p, r) == Exists(r) /\ Write(p, r, "rotate")
Put(p, r) == Write(p, r, "put")

\* A file without the magic is returned as it is, once it has been sealed.
Read(p, r) ==
    /\ pc[p] = "idle" /\ Exists(r)
    /\ job' = [job EXCEPT ![p] = Job(IF file[r].kind = "plain" THEN "migrate" ELSE "read",
                                     r, file[r].value, NoKey)]
    /\ Goto(p, "key")
    /\ UNCHANGED <<Data, values>>

Delete(p, r) ==
    /\ pc[p] = "idle"
    /\ job' = [job EXCEPT ![p] = Job("delete", r, 0, NoKey)]
    /\ Goto(p, "remove")
    /\ UNCHANGED <<Data, values>>

-----------------------------------------------------------------------------
(* master_key.                                                             *)

\* A whole key is used, a shorter one is refused.
Use(p) ==
    IF key = Empty THEN Return(p)
    ELSE /\ job' = [job EXCEPT ![p] = Job(job[p].op, job[p].ref, job[p].value, key)]
         /\ Goto(p, IF job[p].op = "read" THEN "open" ELSE "backup")

FindKey(p) ==
    /\ pc[p] = "key"
    /\ IF key = NoKey THEN Goto(p, "mint") /\ UNCHANGED job ELSE Use(p)
    /\ UNCHANGED <<Data, values>>

\* Mutant: the key file is truncated where it exists (File::create).
MintAnyway(p) ==
    /\ pc[p] = "mint"
    /\ key' = Empty /\ Goto(p, "fill") /\ UNCHANGED job
    /\ UNCHANGED <<file, backup, killed, want, raced, cut, values>>

\* create_new: of two processes, the second reads what the first one made.
Mint(p) ==
    /\ pc[p] = "mint"
    /\ IF key = NoKey
       THEN key' = Empty /\ Goto(p, "fill") /\ UNCHANGED job
       ELSE UNCHANGED key /\ Use(p)
    /\ UNCHANGED <<file, backup, killed, want, raced, cut, values>>

Fill(p) ==
    /\ pc[p] = "fill"
    /\ key' = p
    /\ job' = [job EXCEPT ![p] = Job(job[p].op, job[p].ref, job[p].value, p)]
    /\ Goto(p, IF job[p].op = "read" THEN "open" ELSE "backup")
    /\ UNCHANGED <<file, backup, killed, want, raced, cut, values>>

-----------------------------------------------------------------------------
(* The file of the reference.                                              *)

\* Authentication fails under another key.
Open(p) ==
    /\ pc[p] = "open"
    /\ Return(p)
    /\ UNCHANGED <<Data, values>>

\* fs::copy opens what is there; what is not there needs no backup.
OpenSource(p) ==
    LET r == job[p].ref IN
    /\ pc[p] = "backup"
    /\ IF Exists(r)
       THEN Goto(p, "copy") /\ job' = [job EXCEPT ![p].source = file[r]]
       ELSE Goto(p, "replace") /\ UNCHANGED job
    /\ UNCHANGED <<Data, values>>

\* The open file is copied, whatever became of its name.
BackUp(p) ==
    /\ pc[p] = "copy"
    /\ backup' = [backup EXCEPT ![job[p].ref] = job[p].source]
    /\ Goto(p, "replace")
    /\ UNCHANGED <<key, file, job, killed, want, raced, cut, values>>

\* Another process seals the value it read of this reference before.
Migrated(p, r) == \E q \in Procs \ {p} : pc[q] # "idle" /\ job[q].op = "migrate" /\ job[q].ref = r

Overtaken(p, r) == IF Migrated(p, r) THEN raced \cup {r} ELSE raced

Replace(p) ==
    LET r == job[p].ref IN
    /\ pc[p] = "replace"
    /\ file' = [file EXCEPT ![r] = Sealed(job[p].value, job[p].key)]
    /\ IF job[p].op = "migrate" THEN UNCHANGED <<want, raced>>
       ELSE want' = [want EXCEPT ![r] = job[p].value] /\ raced' = Overtaken(p, r)
    /\ Return(p)
    /\ UNCHANGED <<key, backup, killed, cut, values>>

\* write_atomic fails before, in or behind the backup.
ReplaceFails(p) ==
    /\ pc[p] \in {"backup", "copy", "replace"}
    /\ Return(p)
    /\ UNCHANGED <<Data, values>>

RemoveFile(p) ==
    LET r == job[p].ref IN
    /\ pc[p] = "remove"
    /\ file' = [file EXCEPT ![r] = Absent]
    /\ want' = [want EXCEPT ![r] = 0] /\ raced' = Overtaken(p, r)
    /\ Goto(p, "remove_backup")
    /\ UNCHANGED <<key, backup, job, killed, cut, values>>

Copied(r) == \E q \in Procs : pc[q] = "copy" /\ job[q].ref = r

RemoveBackup(p) ==
    LET r == job[p].ref IN
    /\ pc[p] = "remove_backup"
    /\ backup' = [backup EXCEPT ![r] = Absent]
    /\ cut' = IF Copied(r) THEN cut \cup {r} ELSE cut \ {r}
    /\ Return(p)
    /\ UNCHANGED <<key, file, killed, want, raced, values>>

\* The process dies, or cannot write.
Kill(p) ==
    /\ pc[p] # "idle" /\ killed < MaxKilled
    /\ killed' = killed + 1
    /\ cut' = IF pc[p] = "remove_backup" THEN cut \cup {job[p].ref} ELSE cut
    /\ Return(p)
    /\ UNCHANGED <<key, file, backup, want, raced, values>>

Next ==
    \E p \in Procs :
        \/ \E r \in Refs :
             Create(p, r) \/ Rotate(p, r) \/ Put(p, r) \/ Read(p, r) \/ Delete(p, r)
        \/ FindKey(p) \/ Mint(p) \/ Fill(p) \/ Open(p)
        \/ OpenSource(p) \/ BackUp(p) \/ Replace(p) \/ ReplaceFails(p) \/ RemoveFile(p) \/ RemoveBackup(p)
        \/ Kill(p)

Spec == Init /\ [][Next]_vars

-----------------------------------------------------------------------------
\* Whoever made it, there is one master key: every sealed file and every backup
\* of one opens with secrets.key, whatever the processes that raced for the key
\* and wherever one of them died.
SecretsOpen ==
    \A r \in Refs :
        /\ file[r].kind = "sealed" => file[r].key = key
        /\ backup[r].kind = "sealed" => backup[r].key = key

\* Sealing an old file does not change the value of the reference, unless it was
\* written or deleted between the read and the sealing.
MigrationKeepsValues == \A r \in Refs \ raced : file[r].value = want[r]

\* A deleted reference has no backup either, once the deletion has returned,
\* unless it died half way or a writer had the file open meanwhile: the backup
\* that this writer makes stays if it goes no further.
DeletionIsComplete ==
    \A r \in Refs :
        backup[r] # Absent =>
            \/ Exists(r) \/ r \in cut
            \/ \E p \in Procs : pc[p] = "remove_backup" /\ job[p].ref = r

SecretsKept == SecretsOpen /\ MigrationKeepsValues /\ DeletionIsComplete
=============================================================================
