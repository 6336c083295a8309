-------------------------------- MODULE Node --------------------------------
(* What every component of a node stands on, in one instance: its secrets,    *)
(* the replacement of a file, the journals, the binary itself, the cache of   *)
(* artifacts, and the configuration of an application.  They share no state   *)
(* in the model but the processes that act, so a behaviour is about one of    *)
(* them.                                                                      *)
EXTENDS SecretStore

CONSTANTS
    Threads, Processes, ProcessOf,
    Contents, Inodes, None,
    Limit, MaxRecords, MaxCuts,
    Releases, Broken, Nothing, Torn, MaxFaults,
    NoProc,
    Workers, MaxEdits
VARIABLES
    entry, data, at, call, use, stopped, shared,
    bytes, flock, writing, cuts, order, torn,
    published, binary, recovery, download, update, faults, overlapped,
    cached, partial, lock,
    env, current, runs, installed, attached, snapshots, edits, disturbed,
    about       \* the part of this behaviour

F == INSTANCE AtomicFile WITH killed <- stopped
J == INSTANCE Journal WITH Writers <- Procs
U == INSTANCE SelfUpdate WITH Updaters <- Procs, job <- update
C == INSTANCE ArtifactCache
I == INSTANCE Integration

ASSUME NodeAssumption ==
    /\ F!FileAssumption /\ J!JournalAssumption /\ U!UpdateAssumption
    /\ C!CacheAssumption /\ I!IntegrationAssumption

replaced == <<entry, data, at, call, use, stopped, shared>>
journal == <<bytes, flock, writing, cuts, order, torn>>
updated == <<published, binary, recovery, download, update, overlapped>>
cache == <<cached, partial, lock>>
application == <<env, current, runs, installed, attached, snapshots, edits, disturbed>>
secret == <<key, file, backup, values, want, raced, cut>>

OnlySecret == about = "secret"
    /\ UNCHANGED <<about, replaced, journal, updated, cache, application, faults>>
OnlyFile == about = "file"
    /\ UNCHANGED <<about, vars, journal, updated, cache, application, faults>>
OnlyJournal == about = "journal"
    /\ UNCHANGED <<about, vars, replaced, updated, cache, application, faults>>
OnlyUpdate == about = "update"
    /\ UNCHANGED <<about, secret, job, replaced, journal, cache, application>>
OnlyCache == about = "cache"
    /\ UNCHANGED <<about, secret, job, replaced, journal, updated, application, faults>>
OnlyIntegration == about = "integration"
    /\ UNCHANGED <<about, secret, replaced, journal, updated, cache>>

NodeInit ==
    /\ Init /\ F!Init /\ J!Init /\ U!Init /\ C!Init /\ I!Init
    /\ about \in {"secret", "file", "journal", "update", "cache", "integration"}
    /\ use = "locked" \/ about = "file"
    /\ (current = 1 /\ installed) \/ about = "integration"

NodeNext ==
    \/ \E p \in Procs :
         \/ \E r \in Refs :
              \/ OnlySecret /\ Create(p, r)
              \/ OnlySecret /\ Rotate(p, r)
              \/ OnlySecret /\ Put(p, r)
              \/ OnlySecret /\ Read(p, r)
              \/ OnlySecret /\ Delete(p, r)
         \/ OnlySecret /\ FindKey(p)
         \/ OnlySecret /\ Mint(p)
         \/ OnlySecret /\ Fill(p)
         \/ OnlySecret /\ Open(p)
         \/ OnlySecret /\ OpenSource(p)
         \/ OnlySecret /\ BackUp(p)
         \/ OnlySecret /\ Replace(p)
         \/ OnlySecret /\ ReplaceFails(p)
         \/ OnlySecret /\ RemoveFile(p)
         \/ OnlySecret /\ RemoveBackup(p)
         \/ OnlySecret /\ Kill(p)
    \/ \E t \in Threads :
         \/ \E v \in Contents : OnlyFile /\ F!Begin(t, v)
         \/ OnlyFile /\ F!StartCopy(t)
         \/ OnlyFile /\ F!NothingToCopy(t)
         \/ OnlyFile /\ F!EndCopy(t)
         \/ OnlyFile /\ F!CopyFails(t)
         \/ OnlyFile /\ F!CreateTemporary(t)
         \/ OnlyFile /\ F!TemporaryExists(t)
         \/ OnlyFile /\ F!WriteAndSync(t)
         \/ OnlyFile /\ F!WriteFails(t)
         \/ OnlyFile /\ F!Rename(t)
         \/ OnlyFile /\ F!RenameFails(t)
         \/ OnlyFile /\ F!CleanUp(t)
         \/ OnlyFile /\ F!KeepChange(t)
         \/ OnlyFile /\ F!RestoreBackup(t)
    \/ \E p \in Processes : OnlyFile /\ F!Kill(p)
    \/ \E p \in Procs :
         \/ OnlyJournal /\ J!Open(p)
         \/ OnlyJournal /\ J!Write(p)
         \/ OnlyJournal /\ J!Close(p)
         \/ OnlyJournal /\ J!Cut(p)
    \/ \E r \in Releases : OnlyUpdate /\ U!Publish(r)
    \/ \E p \in Procs :
         \/ OnlyUpdate /\ U!Begin(p)
         \/ OnlyUpdate /\ U!Download(p)
         \/ OnlyUpdate /\ U!DownloadFails(p)
         \/ OnlyUpdate /\ U!DownloadChecksum(p)
         \/ OnlyUpdate /\ U!Verify(p)
         \/ OnlyUpdate /\ U!StartRecovery(p)
         \/ OnlyUpdate /\ U!EndRecovery(p)
         \/ OnlyUpdate /\ U!RecoveryFails(p)
         \/ OnlyUpdate /\ U!Refused(p)
         \/ OnlyUpdate /\ U!Rename(p)
         \/ OnlyUpdate /\ U!InstalledRuns(p)
         \/ OnlyUpdate /\ U!InstalledFails(p)
         \/ OnlyUpdate /\ U!RestoreFails(p)
         \/ OnlyUpdate /\ U!Return(p)
         \/ OnlyUpdate /\ U!Kill(p)
    \/ \E p \in Procs :
         \/ OnlyCache /\ C!Ensure(p)
         \/ OnlyCache /\ C!InspectCached(p)
         \/ OnlyCache /\ C!PartialExists(p)
         \/ OnlyCache /\ C!StartDownload(p)
         \/ OnlyCache /\ C!Download(p)
         \/ OnlyCache /\ C!Rejected(p)
         \/ OnlyCache /\ C!Commit(p)
         \/ OnlyCache /\ C!Kill(p)
    \/ \E p \in Procs :
         \/ OnlyIntegration /\ I!Apply(p)
         \/ OnlyIntegration /\ I!Install(p)
         \/ OnlyIntegration /\ I!ReadAndSnapshot(p)
         \/ OnlyIntegration /\ I!Refused(p)
         \/ OnlyIntegration /\ I!WriteConfiguration(p)
         \/ OnlyIntegration /\ I!WriteFails(p)
         \/ \E w \in Workers : OnlyIntegration /\ I!RestartWorker(p, w)
         \/ \E w \in Workers : OnlyIntegration /\ I!RestartFails(p, w)
         \/ OnlyIntegration /\ I!VerifyAndAttach(p)
         \/ OnlyIntegration /\ I!VerificationFails(p)
         \/ OnlyIntegration /\ I!AttachFails(p)
         \/ OnlyIntegration /\ I!RestoreAfterFailure(p)
         \/ OnlyIntegration /\ I!RestoreFails(p)
         \/ \E w \in Workers : OnlyIntegration /\ I!RestartAgain(p, w)
         \/ \E w \in Workers : OnlyIntegration /\ I!RestartAgainFails(p, w)
         \/ OnlyIntegration /\ I!Fail(p)
         \/ \E s \in snapshots : OnlyIntegration /\ I!RollBack(p, s)
         \/ OnlyIntegration /\ I!Kill(p)
    \/ OnlyIntegration /\ I!Edit
    \/ \E r \in Releases : OnlyIntegration /\ I!Deploy(r)

NodeSpec ==
    NodeInit
    /\ [][NodeNext]_<<vars, replaced, journal, updated, cache, application, faults, about>>

\* Files: whatever other processes do, a file changes from whole to whole, and
\* what is in the cache is what was pinned, and stays.
FilesAreWhole == F!WritesAreAtomic /\ C!ArtifactsAreImmutable

\* Journals: the last whole records are read, in order, behind a torn end too.
JournalIsRead == J!JournalIsRead

\* A self update or an integration that fails leaves what it found, the verified
\* executable, or the application's configuration, workers and references, in every
\* part that did not itself fail half done.
FailuresAreUndone ==
    /\ about = "update" => U!BinaryWorks
    /\ about = "integration" => I!FailedIntegrationIsUndone
=============================================================================
