---------------------------- MODULE ArtifactCache ----------------------------
(***************************************************************************)
(* The cache of verified artifacts (artifact.rs): ArtifactManager::ensure    *)
(* for one pinned artifact, called by several processes whose ids name the   *)
(* downloads and come back after a crash.                                   *)
(***************************************************************************)
EXTENDS Naturals

CONSTANTS Procs, NoProc, MaxKilled

CacheAssumption == NoProc \notin Procs /\ MaxKilled \in Nat

VARIABLES
    cached,     \* who put the artifact into the cache, and what
    partial,    \* the download each process id names
    lock,       \* the processes that hold the try-lock of the artifact
    pc, killed

vars == <<cached, partial, lock, pc, killed>>

Uncached == [by |-> NoProc, bytes |-> "none"]

Init ==
    /\ cached = Uncached /\ partial = [p \in Procs |-> "none"]
    /\ lock = {} /\ pc = [p \in Procs |-> "idle"] /\ killed = 0

Goto(p, label) == pc' = [pc EXCEPT ![p] = label]
Return(p) == Goto(p, "idle") /\ lock' = lock \ {p}

\* Mutant: the artifact is not locked.
NoLock == TRUE

\* try_acquire_artifact refuses while another process has it.
Free == lock = {}

Ensure(p) ==
    /\ pc[p] = "idle" /\ Free
    /\ lock' = lock \cup {p} /\ Goto(p, "inspect")
    /\ UNCHANGED <<cached, partial, killed>>

\* What is cached is hashed again: it is returned, or refused if it differs.
InspectCached(p) ==
    /\ pc[p] = "inspect" /\ cached # Uncached
    /\ Return(p)
    /\ UNCHANGED <<cached, partial, killed>>

\* A download left under this process id is refused, and stays.
PartialExists(p) ==
    /\ pc[p] = "inspect" /\ cached = Uncached /\ partial[p] # "none"
    /\ Return(p)
    /\ UNCHANGED <<cached, partial, killed>>

StartDownload(p) ==
    /\ pc[p] = "inspect" /\ cached = Uncached /\ partial[p] = "none"
    /\ partial' = [partial EXCEPT ![p] = "torn"] /\ Goto(p, "download")
    /\ UNCHANGED <<cached, lock, killed>>

Download(p) ==
    /\ pc[p] = "download" /\ Goto(p, "verify")
    /\ \E bytes \in {"pinned", "other"} : partial' = [partial EXCEPT ![p] = bytes]
    /\ UNCHANGED <<cached, lock, killed>>

Rejected(p) ==
    /\ \/ pc[p] = "download"
       \/ pc[p] = "verify" /\ partial[p] # "pinned"
    /\ partial' = [partial EXCEPT ![p] = "none"]
    /\ Return(p)
    /\ UNCHANGED <<cached, killed>>

\* Only bytes with the pinned digest are synced and renamed into the cache.
Commit(p) ==
    /\ pc[p] = "verify" /\ partial[p] = "pinned"
    /\ cached' = [by |-> p, bytes |-> partial[p]]
    /\ partial' = [partial EXCEPT ![p] = "none"]
    /\ Goto(p, "inspect")
    /\ UNCHANGED <<lock, killed>>

Kill(p) ==
    /\ pc[p] # "idle" /\ killed < MaxKilled /\ killed' = killed + 1
    /\ Return(p)
    /\ UNCHANGED <<cached, partial>>

Next ==
    \E p \in Procs :
        \/ Ensure(p) \/ InspectCached(p) \/ PartialExists(p) \/ StartDownload(p)
        \/ Download(p) \/ Rejected(p) \/ Commit(p) \/ Kill(p)

Spec == Init /\ [][Next]_vars

-----------------------------------------------------------------------------
\* What is in the cache has the pinned digest and is never replaced: a consumer
\* that was given the path reads the same bytes while others ask for it, fail,
\* or die with half a download.
ArtifactsAreImmutable ==
    [][/\ cached' # Uncached => cached'.bytes = "pinned"
       /\ cached # Uncached => cached' = cached]_vars
=============================================================================
