----------------------------- MODULE SelfUpdate -----------------------------
(***************************************************************************)
(* lumic self-update apply (self_update.rs): the running binary is replaced  *)
(* by a published one, with the previous one kept beside it until the new    *)
(* one has run.  Nothing keeps the nightly timer and an operator from        *)
(* updating at once.                                                        *)
(***************************************************************************)
EXTENDS Naturals

CONSTANTS
    Updaters,       \* process ids, which name the downloads
    Releases,       \* what is published; the first one is installed
    Broken,         \* those that do not even print a version
    Nothing,        \* no such file
    Torn,           \* a file that is only partly there
    MaxKilled, MaxFaults

UpdateAssumption ==
    /\ Releases \subseteq Nat /\ Broken \subseteq Releases \ {1} /\ 1 \in Releases
    /\ Nothing \notin Releases /\ Torn \notin Releases /\ Nothing # Torn
    /\ MaxKilled \in Nat /\ MaxFaults \in Nat

VARIABLES
    published,  \* the release behind the two download addresses
    binary,     \* the executable, by release
    recovery,   \* lumic-previous beside it, Torn while it is copied
    download,   \* the temporary of each process
    pc, job, killed, faults,
    overlapped  \* history: two updates ran at once

vars == <<published, binary, recovery, download, pc, job, killed, faults, overlapped>>

NoJob == [before |-> Nothing, sum |-> Nothing, copied |-> Nothing]

Init ==
    /\ published = 1 /\ binary = 1
    /\ recovery = Nothing /\ download = [p \in Updaters |-> Nothing]
    /\ pc = [p \in Updaters |-> "idle"] /\ job = [p \in Updaters |-> NoJob]
    /\ killed = 0 /\ faults = 0 /\ overlapped = FALSE

Goto(p, label) == pc' = [pc EXCEPT ![p] = label]
Host == <<published, binary, recovery, killed, overlapped>>
Fault == faults < MaxFaults /\ faults' = faults + 1

\* The asset and its checksum are replaced together, between two downloads maybe.
Publish(r) ==
    /\ r > published /\ published' = r
    /\ UNCHANGED <<binary, recovery, download, pc, job, killed, faults, overlapped>>

\* The updater is the executable itself.
Begin(p) ==
    /\ pc[p] = "idle" /\ binary # Torn /\ Goto(p, "download")
    /\ job' = [job EXCEPT ![p] = [NoJob EXCEPT !.before = binary]]
    /\ overlapped' = (overlapped \/ \E q \in Updaters \ {p} : pc[q] # "idle")
    /\ UNCHANGED <<published, binary, recovery, download, killed, faults>>

Download(p) ==
    /\ pc[p] = "download" /\ Goto(p, "checksum")
    /\ download' = [download EXCEPT ![p] = published]
    /\ UNCHANGED <<Host, job, faults>>

DownloadFails(p) ==
    /\ pc[p] = "download" /\ Goto(p, "failed") /\ Fault
    /\ download' = [download EXCEPT ![p] = Torn]
    /\ UNCHANGED <<Host, job>>

DownloadChecksum(p) ==
    /\ pc[p] = "checksum" /\ Goto(p, "verify")
    /\ job' = [job EXCEPT ![p].sum = published]
    /\ UNCHANGED <<Host, download, faults>>

\* The checksum matches, the candidate prints a version and is another binary.
Verified(p) == download[p] = job[p].sum /\ download[p] \notin Broken

Verify(p) ==
    /\ pc[p] = "verify"
    /\ \/ ~Verified(p) /\ Goto(p, "failed")
       \/ Verified(p) /\ download[p] = binary /\ Goto(p, "done")
       \/ Verified(p) /\ download[p] # binary /\ Goto(p, "copy")
    /\ UNCHANGED <<Host, download, job, faults>>

\* Mutant: a recovery binary that is there is kept.
KeepOlderRecovery(p) ==
    /\ pc[p] = "copy"
    /\ IF recovery = Nothing
       THEN /\ recovery' = Torn /\ Goto(p, "copying")
            /\ job' = [job EXCEPT ![p].copied = binary]
       ELSE Goto(p, "rename") /\ UNCHANGED <<recovery, job>>
    /\ UNCHANGED <<published, binary, killed, overlapped, download, faults>>

StartRecovery(p) ==
    /\ pc[p] = "copy" /\ Goto(p, "copying")
    /\ recovery' = Torn
    /\ job' = [job EXCEPT ![p].copied = binary]
    /\ UNCHANGED <<published, binary, killed, overlapped, download, faults>>

\* The copy goes on into the same file whatever became of its name.
EndRecovery(p) ==
    /\ pc[p] = "copying" /\ Goto(p, "rename")
    /\ recovery' = IF recovery = Nothing THEN Nothing ELSE job[p].copied
    /\ UNCHANGED <<published, binary, killed, overlapped, download, job, faults>>

RecoveryFails(p) ==
    /\ pc[p] = "copying" /\ Goto(p, "failed") /\ Fault
    /\ UNCHANGED <<Host, download, job>>

\* The checksum, the candidate or the replacement cannot be had.
Refused(p) ==
    /\ pc[p] \in {"checksum", "verify", "rename"} /\ Goto(p, "failed") /\ Fault
    /\ UNCHANGED <<Host, download, job>>

Rename(p) ==
    /\ pc[p] = "rename" /\ Goto(p, "check")
    /\ binary' = download[p] /\ download' = [download EXCEPT ![p] = Nothing]
    /\ UNCHANGED <<published, recovery, killed, overlapped, job, faults>>

InstalledRuns(p) ==
    /\ pc[p] = "check" /\ Goto(p, "done")
    /\ UNCHANGED <<Host, download, job, faults>>

\* The installed one does not run: the previous one takes its place.
InstalledFails(p) ==
    /\ pc[p] = "check" /\ Goto(p, "failed") /\ Fault
    /\ binary' = IF recovery = Nothing THEN binary ELSE recovery
    /\ recovery' = Nothing
    /\ UNCHANGED <<published, killed, overlapped, download, job>>

\* It does not run, and the previous one cannot take its place.
RestoreFails(p) ==
    /\ pc[p] = "check" /\ recovery # Nothing /\ Goto(p, "unrestored") /\ Fault
    /\ UNCHANGED <<Host, download, job>>

\* apply removes the downloads and records the outcome; a failure to record it is
\* returned, and all stands.
Return(p) ==
    /\ pc[p] \in {"done", "failed", "unrestored"} /\ Goto(p, "idle")
    /\ download' = [download EXCEPT ![p] = Nothing]
    /\ job' = [job EXCEPT ![p] = NoJob]
    /\ UNCHANGED <<Host, faults>>

\* Downloads and a torn copy stay.
Kill(p) ==
    /\ pc[p] # "idle" /\ killed < MaxKilled /\ killed' = killed + 1
    /\ Goto(p, "idle") /\ job' = [job EXCEPT ![p] = NoJob]
    /\ UNCHANGED <<published, binary, recovery, download, faults, overlapped>>

Next ==
    \/ \E r \in Releases : Publish(r)
    \/ \E p \in Updaters :
         \/ Begin(p) \/ Download(p) \/ DownloadFails(p) \/ DownloadChecksum(p) \/ Verify(p)
         \/ StartRecovery(p) \/ EndRecovery(p) \/ RecoveryFails(p)
         \/ Refused(p) \/ Rename(p) \/ InstalledRuns(p) \/ InstalledFails(p) \/ RestoreFails(p)
         \/ Return(p) \/ Kill(p)

Spec == Init /\ [][Next]_vars

-----------------------------------------------------------------------------
\* While updates do not overlap, the executable is always a whole, verified
\* release, wherever an update died; and an update that fails leaves the one it
\* found, not some older one, or has it beside the executable where it could not
\* be put back.
BinaryWorks ==
    ~overlapped =>
        /\ binary \in Releases \ Broken
        /\ \A p \in Updaters :
             /\ pc[p] = "failed" => binary = job[p].before
             /\ pc[p] = "unrestored" => recovery = job[p].before
=============================================================================
