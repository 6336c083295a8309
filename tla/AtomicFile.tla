----------------------------- MODULE AtomicFile -----------------------------
(***************************************************************************)
(* How a state or configuration file is replaced: write_atomic and          *)
(* restore_backup (atomic_file.rs) and ApplicationStore::save                *)
(* (application.rs), down to the directory entries and the inodes they name. *)
(* Threads of several processes replace one file; a process may die at any   *)
(* statement, leaving its temporary and a half-copied backup behind.         *)
(***************************************************************************)
EXTENDS Naturals

CONSTANTS
    Threads,
    Processes,
    ProcessOf,      \* the process of each thread; its id names the temporary
    Contents,       \* what is written
    Inodes,
    None,           \* no entry, no inode, no content
    MaxKilled       \* bound: number of processes killed

FileAssumption ==
    /\ ProcessOf \in [Threads -> Processes] /\ Processes \cap {"path", "backup"} = {}
    /\ None \notin Contents \cup Inodes /\ "torn" \notin Contents
    /\ MaxKilled \in Nat

VARIABLES
    entry,      \* the inode of each directory entry
    data,       \* the content of each inode: "torn" while it is being written
    at,         \* the statement each thread is at
    call,       \* the call it executes
    use,        \* how the file is written: "locked", "free" or "store"
    killed,
    shared      \* history: two threads of one process wrote at once

vars == <<entry, data, at, call, use, killed, shared>>

\* Mutant: the process id is left out.
OneTemporary(t) == CHOOSE p \in Processes : TRUE

\* The temporary is named after the file and the process id.
Temporary(t) == ProcessOf[t]

Entries == {"path", "backup"} \cup Processes

NoCall == [value |-> None, previous |-> None, source |-> None, copy |-> None,
           file |-> None, backed |-> FALSE]

Content == IF entry["path"] = None THEN None ELSE data[entry["path"]]

\* An inode lives while an entry or an open file refers to it.
Live(names, calls) ==
    {names[n] : n \in Entries}
        \cup UNION { {calls[t].source, calls[t].copy, calls[t].file} : t \in Threads }
Kept(names, calls, contents) ==
    [i \in Inodes |-> IF i \in Live(names, calls) THEN contents[i] ELSE None]
\* (Inodes bounds what is in use at a time.)
Free == \E i \in Inodes : i \notin Live(entry, call)
Fresh == CHOOSE i \in Inodes : i \notin Live(entry, call)

Init ==
    /\ entry = [n \in Entries |-> None]
    /\ data = [i \in Inodes |-> None]
    /\ at = [t \in Threads |-> "idle"] /\ call = [t \in Threads |-> NoCall]
    /\ use \in {"locked", "free", "store"}
    /\ killed = 0 /\ shared = FALSE

\* One statement of thread t: what becomes of the entries, the inodes and t.
Do(t, label, now, names, contents) ==
    LET calls == [call EXCEPT ![t] = now] IN
    /\ at' = [at EXCEPT ![t] = label]
    /\ call' = calls
    /\ entry' = names
    /\ data' = Kept(names, calls, contents)
    /\ UNCHANGED <<use, killed>>

Return(t, names) ==
    /\ Do(t, "idle", NoCall, names, data)
    /\ UNCHANGED shared

Same == UNCHANGED shared

-----------------------------------------------------------------------------
\* An unchanged file is not written again, except by the store.  web hosts, certificates and managed
\* services write under the lock of the resource ("locked"), others without one.
Begin(t, v) ==
    /\ at[t] = "idle" /\ (use = "store" \/ Content # v)
    /\ use = "locked" => \A s \in Threads : at[s] = "idle"
    /\ Do(t, IF use = "store" THEN "create" ELSE "backup",
          [NoCall EXCEPT !.value = v, !.previous = Content], entry, data)
    /\ shared' = (shared \/ \E s \in Threads \ {t} :
                                ProcessOf[s] = ProcessOf[t] /\ at[s] # "idle")

\* fs::copy empties the backup before it fills it.
StartCopy(t) ==
    LET copy == IF entry["backup"] = None THEN Fresh ELSE entry["backup"] IN
    /\ at[t] = "backup" /\ entry["path"] # None /\ Free
    /\ Do(t, "copy", [call[t] EXCEPT !.source = entry["path"], !.copy = copy],
          [entry EXCEPT !["backup"] = copy], [data EXCEPT ![copy] = "torn"])
    /\ Same

NothingToCopy(t) ==
    /\ at[t] = "backup" /\ entry["path"] = None
    /\ Do(t, "create", call[t], entry, data) /\ Same

EndCopy(t) ==
    /\ at[t] = "copy"
    /\ Do(t, "create", [call[t] EXCEPT !.source = None, !.copy = None, !.backed = TRUE],
          entry, [data EXCEPT ![call[t].copy] = data[call[t].source]])
    /\ Same

CopyFails(t) == at[t] = "copy" /\ Return(t, entry)

\* write_atomic creates the temporary, the store truncates one that is there.
CreateTemporary(t) ==
    LET left == entry[Temporary(t)]
        file == IF left = None THEN Fresh ELSE left IN
    /\ at[t] = "create" /\ (left = None \/ use = "store") /\ Free
    /\ Do(t, "write", [call[t] EXCEPT !.file = file],
          [entry EXCEPT ![Temporary(t)] = file], [data EXCEPT ![file] = "torn"])
    /\ Same

\* create_new refuses one that is there, and the clean-up removes it.
TemporaryExists(t) ==
    /\ at[t] = "create" /\ entry[Temporary(t)] # None /\ use # "store"
    /\ Do(t, "clean", [call[t] EXCEPT !.value = None], entry, data) /\ Same

WriteAndSync(t) ==
    /\ at[t] = "write"
    /\ Do(t, "rename", call[t], entry, [data EXCEPT ![call[t].file] = call[t].value])
    /\ Same

WriteFails(t) ==
    /\ at[t] = "write"
    /\ IF use = "store" THEN Return(t, entry)
       ELSE Do(t, "clean", [call[t] EXCEPT !.value = None, !.file = None], entry, data)
            /\ Same

\* The rename takes whatever now has the name of the temporary; preserve_owner
\* may fail behind it.
Rename(t) ==
    LET moved == [entry EXCEPT !["path"] = entry[Temporary(t)], ![Temporary(t)] = None] IN
    /\ at[t] = "rename" /\ entry[Temporary(t)] # None
    /\ \/ use = "store" /\ Return(t, moved)
       \/ /\ use # "store" /\ Same
          /\ \E owned \in BOOLEAN :
               Do(t, "clean", [call[t] EXCEPT !.file = None,
                                   !.value = IF owned THEN @ ELSE None], moved, data)

RenameFails(t) ==
    /\ at[t] = "rename" /\ entry[Temporary(t)] = None
    /\ Do(t, "clean", [call[t] EXCEPT !.file = None, !.value = None], entry, data) /\ Same

\* A temporary of this name goes, whoever made it; a call that failed has no value.
CleanUp(t) ==
    LET rest == [entry EXCEPT ![Temporary(t)] = None] IN
    /\ at[t] = "clean"
    /\ IF use = "locked" /\ call[t].value # None
       THEN Do(t, "changed", call[t], rest, data) /\ Same
       ELSE Return(t, rest)

\* Under its lock the caller keeps the change or takes it back (restore_write).
KeepChange(t) == at[t] = "changed" /\ Return(t, entry)
RestoreBackup(t) ==
    /\ at[t] = "changed"
    /\ IF call[t].backed
       THEN /\ entry["backup"] # None
            /\ Return(t, [entry EXCEPT !["path"] = entry["backup"], !["backup"] = None])
       ELSE Return(t, [entry EXCEPT !["path"] = None])

Kill(p) ==
    LET calls == [t \in Threads |-> IF ProcessOf[t] = p THEN NoCall ELSE call[t]] IN
    /\ killed < MaxKilled /\ \E t \in Threads : ProcessOf[t] = p /\ at[t] # "idle"
    /\ killed' = killed + 1
    /\ at' = [t \in Threads |-> IF ProcessOf[t] = p THEN "idle" ELSE at[t]]
    /\ call' = calls /\ data' = Kept(entry, calls, data)
    /\ UNCHANGED <<entry, use, shared>>

Step(t) ==
    \/ StartCopy(t) \/ NothingToCopy(t) \/ EndCopy(t) \/ CopyFails(t)
    \/ CreateTemporary(t) \/ TemporaryExists(t) \/ WriteAndSync(t) \/ WriteFails(t)
    \/ Rename(t) \/ RenameFails(t) \/ CleanUp(t) \/ KeepChange(t) \/ RestoreBackup(t)

Next ==
    \/ \E t \in Threads : Step(t) \/ \E v \in Contents : Begin(t, v)
    \/ \E p \in Processes : Kill(p)

Spec == Init /\ [][Next]_vars

-----------------------------------------------------------------------------
\* While the threads of a process write one after the other, every content of
\* the file is whole, and it changes only to what a call was asked to write, or
\* back to what was there before the change its caller takes back; whatever the
\* other processes do, wherever one dies, and whatever it leaves behind.
WritesAreAtomic ==
    [][~shared' =>
        /\ Content' \in Contents \cup {None}
        /\ Content' # Content => \E t \in Threads :
             \/ at[t] = "rename" /\ Content' = call[t].value
             \/ at[t] = "changed" /\ Content' = call[t].previous]_vars
=============================================================================
