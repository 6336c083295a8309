----------------------------- MODULE HostProofs -----------------------------
(* What a node keeps for its applications, for any number of processes.  The   *)
(* registry of hosted repositories keeps every update and their directories    *)
(* stay, until mutations of one repository overlap; a nginx site, its          *)
(* certificate and their record agree between operations, and a change of      *)
(* them that fails is undone.                                                  *)
EXTENDS Host, TLAPS


Mutations == {"create", "import", "register", "adopt", "configure", "add", "remove"}

Locked == {"create", "import", "adopt", "transfer", "delete"}

Busy(p) == pc[p] # "idle"

Saving(p) == pc[p] \in {"save", "delete"}

Shapes ==
    /\ recs \in [Repos -> Records] /\ want \in [Repos -> Records]
    /\ DOMAIN pc = Procs /\ DOMAIN job = Procs
    /\ \A p \in Procs : Busy(p) =>
          /\ {"op", "repo", "rec"} \subseteq DOMAIN job[p]
          /\ job[p].repo \in Repos /\ job[p].rec \in Records
    /\ \A p \in Procs : Saving(p) => job[p].copy \in [Repos -> Records]

\* Which operation may be at which stage; the one that saves holds the registry.
Fits(op, label) ==
    /\ label = "lock" => op \in Locked
    /\ label \in {"init", "clone", "settings", "persist", "save"} => op \in Mutations
    /\ label \in {"trash", "unregister", "delete"} => op = "delete"

Stages == \A p \in Procs :
    /\ Busy(p) => Fits(job[p].op, pc[p])
    /\ pc[p] = "save" => registry = p

\* Two mutations under way are of different repositories, and a delete is alone.
Alone == \A p, q \in Procs :
    p # q /\ Busy(p) /\ Busy(q) => job[p].repo # job[q].repo /\ job[p].op # "delete"

\* The record a mutation will save is the change it asked for.
Asked == \A p \in Procs :
    Busy(p) /\ job[p].op \in Mutations =>
        Wanted(job[p].op, job[p].rec, recs[job[p].repo]) = job[p].rec

\* The registry a process is about to save is the one in the file.
Current == \A p \in Procs : Saving(p) => job[p].copy = recs

RegistryInv ==
    /\ Shapes /\ Stages
    /\ ~raced => recs = want /\ Alone /\ Asked /\ Current

-----------------------------------------------------------------------------
(* The steps by what they do to the argument's state.                      *)

Fresh(r, op, rec, label) ==
    /\ r \in Repos /\ rec \in Records
    /\ label \in {"lock", "persist"} /\ Fits(op, label)
    /\ op \in Mutations => Wanted(op, rec, recs[r]) = rec

\* Process p gives up or is done, and the file stays.
Returning(p) == Return(p) /\ UNCHANGED <<recs, want, raced>>

\* Process p goes on to a stage that saves nothing.
Moving(p, label) ==
    /\ Busy(p) /\ label \notin {"idle", "save", "delete"} /\ Fits(job[p].op, label)
    /\ pc' = [pc EXCEPT ![p] = label]
    /\ UNCHANGED <<recs, want, raced, job, registry>>

LEMMA BeginKeeps ==
    ASSUME RegistryInv, NEW p \in Procs, NEW r, NEW op, NEW rec, NEW label,
           Begin(p, r, op, rec, label), Fresh(r, op, rec, label)
    PROVE  RegistryInv'
<1> USE DEF RegistryInv, Begin, Fresh, Goto
<1>1. /\ pc'[p] = label /\ label \in {"lock", "persist"}
      /\ DOMAIN job'[p] = {"op", "repo", "rec", "found"}
      /\ job'[p].op = op /\ job'[p].repo = r /\ job'[p].rec = rec
  BY DEF Shapes
<1>2. \A q \in Procs \ {p} : pc'[q] = pc[q] /\ job'[q] = job[q]
  BY DEF Shapes
<1>3. Shapes'
  BY <1>1, <1>2 DEF Shapes, Busy, Saving
<1>4. Stages'
  BY <1>1, <1>2 DEF Stages, Busy
<1>5. ASSUME ~raced' PROVE (recs = want /\ Alone /\ Asked /\ Current)'
  <2>1. ~raced
    BY <1>5
  <2>2. \A q \in Procs \ {p} : Busy(q) => job[q].repo # r /\ job[q].op # "delete" /\ op # "delete"
    BY <1>5 DEF Busy
  <2>3. Alone'
    BY <1>1, <1>2, <2>1, <2>2 DEF Alone, Busy
  <2>4. Asked'
    BY <1>1, <1>2, <2>1 DEF Asked, Busy
  <2>5. Current'
    BY <1>1, <1>2, <2>1 DEF Current, Saving
  <2> QED
    BY <2>1, <2>3, <2>4, <2>5
<1> QED
  BY <1>3, <1>4, <1>5

LEMMA ReturningKeeps ==
    ASSUME RegistryInv, NEW p \in Procs, Returning(p)
    PROVE  RegistryInv'
<1> USE DEF RegistryInv, Returning, Return, Goto
<1>1. pc'[p] = "idle"
  BY DEF Shapes
<1>2. \A q \in Procs \ {p} : pc'[q] = pc[q] /\ job'[q] = job[q]
  BY DEF Shapes
<1>3. Shapes'
  BY <1>1, <1>2 DEF Shapes, Busy, Saving
<1>4. Stages'
  BY <1>1, <1>2 DEF Stages, Busy
<1>5. ASSUME ~raced PROVE (Alone /\ Asked /\ Current)'
  BY <1>1, <1>2, <1>5 DEF Alone, Asked, Current, Busy, Saving
<1> QED
  BY <1>3, <1>4, <1>5

LEMMA MovingKeeps ==
    ASSUME RegistryInv, NEW p \in Procs, NEW label, Moving(p, label)
    PROVE  RegistryInv'
<1> USE DEF RegistryInv, Moving
<1>1. pc'[p] = label /\ \A q \in Procs \ {p} : pc'[q] = pc[q]
  BY DEF Shapes
<1>2. Shapes'
  BY <1>1 DEF Shapes, Busy, Saving
<1>3. Stages'
  BY <1>1 DEF Stages, Busy
<1>4. ASSUME ~raced PROVE (Alone /\ Asked /\ Current)'
  BY <1>1, <1>4 DEF Alone, Asked, Current, Busy, Saving
<1> QED
  BY <1>2, <1>3, <1>4

LEMMA TrashKeeps ==
    ASSUME RegistryInv, NEW p \in Procs, TrashStorage(p)
    PROVE  RegistryInv'
<1> USE DEF RegistryInv, TrashStorage, Goto
<1>1. /\ pc'[p] = "unregister" /\ pc[p] = "trash"
      /\ DOMAIN job'[p] = DOMAIN job[p]
  BY DEF Shapes
<1>2. /\ job'[p].op = job[p].op /\ job'[p].repo = job[p].repo
      /\ job'[p].rec = job[p].rec
  BY <1>1 DEF Shapes, Busy
<1>3. \A q \in Procs \ {p} : pc'[q] = pc[q] /\ job'[q] = job[q]
  BY DEF Shapes
<1>4. Shapes'
  BY <1>1, <1>2, <1>3 DEF Shapes, Busy, Saving
<1>5. Stages'
  BY <1>1, <1>2, <1>3 DEF Stages, Busy, Fits
<1>6. ASSUME ~raced PROVE (Alone /\ Asked /\ Current)'
  BY <1>1, <1>2, <1>3, <1>6 DEF Alone, Asked, Current, Busy, Saving
<1> QED
  BY <1>4, <1>5, <1>6

\* The file is loaded to be saved: under the registry lock, or alone by delete.
LEMMA LoadKeeps ==
    ASSUME RegistryInv, NEW p \in Procs,
           PersistLoad(p) \/ DeleteLoad(p)
    PROVE  RegistryInv'
<1> USE DEF RegistryInv, Goto
<1> PICK label : /\ label \in {"save", "delete"} /\ Busy(p) /\ Fits(job[p].op, label)
                 /\ pc' = [pc EXCEPT ![p] = label]
                 /\ job' = [job EXCEPT ![p] = Copied(@)]
                 /\ label = "save" => registry = NoProc /\ registry' = p
                 /\ label = "delete" => registry' = registry
  BY DEF PersistLoad, DeleteLoad, Busy, Stages, Fits
<1>0. UNCHANGED <<recs, want, raced>>
  BY DEF PersistLoad, DeleteLoad
<1>1. /\ pc'[p] = label
      /\ DOMAIN job'[p] = {"op", "repo", "rec", "found", "copy"}
      /\ job'[p].op = job[p].op /\ job'[p].repo = job[p].repo
      /\ job'[p].rec = job[p].rec /\ job'[p].copy = recs
  BY DEF Shapes, Copied
<1>2. \A q \in Procs \ {p} : pc'[q] = pc[q] /\ job'[q] = job[q]
  BY DEF Shapes
<1>3. Shapes'
  BY <1>0, <1>1, <1>2 DEF Shapes, Busy, Saving
<1>4. Stages'
  BY <1>1, <1>2, RepositoriesAssumption DEF Stages, Busy
<1>5. ASSUME ~raced PROVE (Alone /\ Asked /\ Current)'
  BY <1>0, <1>1, <1>2, <1>5 DEF Alone, Asked, Current, Busy, Saving
<1> QED
  BY <1>0, <1>3, <1>4, <1>5

\* A record of the registry asked for is a record.
LEMMA WantedIsRecord ==
    ASSUME NEW op \in Mutations, NEW rec \in Records, NEW w \in Records
    PROVE  Wanted(op, rec, w) \in Records
BY DEF Mutations, Records, Wanted

LEMMA PersistSaveKeeps ==
    ASSUME RegistryInv, NEW p \in Procs, PersistSave(p)
    PROVE  RegistryInv'
<1> USE DEF RegistryInv, PersistSave, Return, Goto
<1> PICK r : r = job[p].repo
  OBVIOUS
<1>0. /\ pc[p] = "save" /\ Saving(p) /\ Busy(p) /\ job[p].op \in Mutations
      /\ r \in Repos /\ job[p].rec \in Records /\ registry = p
  BY DEF Saving, Busy, Stages, Fits, Shapes
<1>1. pc'[p] = "idle" /\ \A q \in Procs \ {p} : pc'[q] = pc[q] /\ job'[q] = job[q]
  BY DEF Shapes
<1>2. want' = [want EXCEPT ![r] = Wanted(job[p].op, job[p].rec, want[r])]
  OBVIOUS
<1>3. recs' = [job[p].copy EXCEPT ![r] = job[p].rec]
  OBVIOUS
<1>4. Wanted(job[p].op, job[p].rec, want[r]) \in Records
  BY <1>0, WantedIsRecord DEF Shapes
<1>5. recs' \in [Repos -> Records] /\ want' \in [Repos -> Records]
  BY <1>0, <1>2, <1>3, <1>4 DEF Shapes
<1>6. Shapes'
  BY <1>1, <1>5 DEF Shapes, Busy, Saving
<1>7. Stages'
  BY <1>0, <1>1 DEF Stages, Busy
<1>8. ASSUME ~raced PROVE (recs = want /\ Alone /\ Asked /\ Current)'
  <2>1. job[p].copy = recs /\ recs = want
    BY <1>0, <1>8 DEF Current
  <2>2. Wanted(job[p].op, job[p].rec, want[r]) = job[p].rec
    BY <1>0, <1>8, <2>1 DEF Asked
  <2>3. recs' = want'
    BY <1>2, <1>3, <2>1, <2>2
  <2>4. Alone'
    BY <1>1, <1>8 DEF Alone, Busy
  <2>5. ASSUME NEW q \in Procs, Busy(q)', job'[q].op \in Mutations
        PROVE  Wanted(job'[q].op, job'[q].rec, recs'[job'[q].repo]) = job'[q].rec
    <3>1. q # p /\ Busy(q) /\ job'[q] = job[q]
      BY <1>1, <2>5 DEF Busy
    <3>2. job[q].repo # r /\ job[q].repo \in Repos
      BY <1>0, <1>8, <3>1 DEF Alone, Shapes
    <3>3. recs'[job[q].repo] = recs[job[q].repo]
      BY <1>3, <2>1, <3>2 DEF Shapes
    <3> QED
      BY <1>8, <2>5, <3>1, <3>3 DEF Asked
  <2>6. \A q \in Procs : ~Saving(q)'
    BY <1>0, <1>1, <1>8 DEF Alone, Stages, Fits, Saving, Busy
  <2> QED
    BY <2>3, <2>4, <2>5, <2>6 DEF Asked, Current
<1> QED
  BY <1>6, <1>7, <1>8

LEMMA DeleteSaveKeeps ==
    ASSUME RegistryInv, NEW p \in Procs, DeleteSave(p)
    PROVE  RegistryInv'
<1> USE DEF RegistryInv, DeleteSave, Return, Goto
<1> PICK r : r = job[p].repo
  OBVIOUS
<1>0. /\ pc[p] = "delete" /\ Saving(p) /\ Busy(p) /\ job[p].op = "delete"
      /\ r \in Repos /\ NoRecord \in Records
  BY DEF Saving, Busy, Stages, Fits, Shapes, NoRecord, Records
<1>1. pc'[p] = "idle" /\ \A q \in Procs \ {p} : pc'[q] = pc[q] /\ job'[q] = job[q]
  BY DEF Shapes
<1>2. /\ recs' = [job[p].copy EXCEPT ![r] = NoRecord]
      /\ want' = [want EXCEPT ![r] = NoRecord]
  OBVIOUS
<1>3. recs' \in [Repos -> Records] /\ want' \in [Repos -> Records]
  BY <1>0, <1>2 DEF Shapes
<1>4. Shapes'
  BY <1>1, <1>3 DEF Shapes, Busy, Saving
<1>5. Stages'
  BY <1>1 DEF Stages, Busy
<1>6. ASSUME ~raced PROVE (recs = want /\ Alone /\ Asked /\ Current)'
  <2>1. recs' = want'
    BY <1>0, <1>2, <1>6 DEF Current
  <2>2. \A q \in Procs : ~Busy(q)'
    BY <1>0, <1>1, <1>6 DEF Alone, Busy
  <2> QED
    BY <2>1, <2>2 DEF Alone, Asked, Current, Busy, Saving
<1> QED
  BY <1>4, <1>5, <1>6

LEMMA QuietKeeps ==
    ASSUME RegistryInv, UNCHANGED <<recs, want, registry, pc, job, raced>>
    PROVE  RegistryInv'
BY DEF RegistryInv, Shapes, Stages, Alone, Asked, Current, Busy, Saving

-----------------------------------------------------------------------------
LEMMA InitEstablishes == Init => RegistryInv
<1> SUFFICES ASSUME Init PROVE RegistryInv
  OBVIOUS
<1>1. NoRecord \in Records
  BY DEF NoRecord, Records
<1>2. Shapes
  BY <1>1 DEF Init, Shapes, Busy, Saving
<1>3. Stages /\ Alone /\ Asked /\ Current
  BY DEF Init, Stages, Alone, Asked, Current, Busy, Saving
<1> QED
  BY <1>2, <1>3 DEF Init, RegistryInv

LEMMA NewRecords ==
    /\ \A kind \in {"managed", "external"}, remotes \in SUBSET Remotes :
          Record(kind, remotes) \in Records
    /\ \A w \in Records : [w EXCEPT !.configured = TRUE] \in Records
<1>1. \A kind \in {"managed", "external"}, remotes \in SUBSET Remotes :
          Record(kind, remotes) \in Records
  BY DEF Record, Records
<1>2. \A w \in Records : [w EXCEPT !.configured = TRUE] \in Records
  BY Zenon DEF Records
<1> QED
  BY <1>1, <1>2

\* Every mutation starts with the record it should save.
LEMMA StartKeeps ==
    ASSUME RegistryInv, NEW p \in Procs, NEW r \in Repos,
           \/ Create(p, r) \/ Import(p, r) \/ RegisterExternal(p, r)
           \/ Adopt(p, r) \/ Delete(p, r) \/ ConfigureDeployment(p, r)
           \/ RemoteOperation(p, r)
           \/ \E m \in Remotes : AddRemote(p, r, m) \/ RemoveRemote(p, r, m)
    PROVE  RegistryInv'
<1> USE DEF Fits, Mutations, Locked
<1>0. recs[r] \in Records
  BY DEF RegistryInv, Shapes
<1>1. ASSUME Create(p, r) PROVE RegistryInv'
  <2>1. Fresh(r, "create", Record("managed", {}), "lock")
    BY NewRecords DEF Fresh, Wanted
  <2> QED
    BY <1>1, <2>1, BeginKeeps DEF Create
<1>2. ASSUME Import(p, r) PROVE RegistryInv'
  <2> PICK m \in Remotes :
        Begin(p, r, "import", Record("managed", {m}), "lock")
    BY <1>2 DEF Import
  <2>1. Fresh(r, "import", Record("managed", {m}), "lock")
    BY NewRecords DEF Fresh, Wanted
  <2> QED
    BY <2>1, BeginKeeps
<1>3. ASSUME RegisterExternal(p, r) PROVE RegistryInv'
  <2>1. Fresh(r, "register", Record("external", {}), "persist")
    BY NewRecords DEF Fresh, Wanted
  <2> QED
    BY <1>3, <2>1, BeginKeeps DEF RegisterExternal
<1>4. ASSUME Adopt(p, r) PROVE RegistryInv'
  <2>1. Fresh(r, "adopt", [recs[r] EXCEPT !.kind = "managed"], "lock")
    BY <1>0, <1>4 DEF Adopt, Fresh, Records, Wanted, NoRecord
  <2> QED
    BY <1>4, <2>1, BeginKeeps DEF Adopt
<1>5. ASSUME Delete(p, r) PROVE RegistryInv'
  <2>1. Fresh(r, "delete", recs[r], "lock")
    BY <1>0 DEF Fresh
  <2> QED
    BY <1>5, <2>1, BeginKeeps DEF Delete
<1>6. ASSUME ConfigureDeployment(p, r) PROVE RegistryInv'
  <2>1. Fresh(r, "configure", [recs[r] EXCEPT !.configured = TRUE], "persist")
    BY <1>0, <1>6, NewRecords DEF ConfigureDeployment, Registered, Fresh, Wanted, NoRecord
  <2> QED
    BY <1>6, <2>1, BeginKeeps DEF ConfigureDeployment
<1>7. ASSUME RemoteOperation(p, r) PROVE RegistryInv'
  <2>1. Fresh(r, "transfer", recs[r], "lock")
    BY <1>0 DEF Fresh
  <2> QED
    BY <1>7, <2>1, BeginKeeps DEF RemoteOperation
<1>8. ASSUME NEW m \in Remotes, AddRemote(p, r, m) PROVE RegistryInv'
  <2>1. Fresh(r, "add", [recs[r] EXCEPT !.remotes = @ \cup {m}], "persist")
    BY <1>0, <1>8 DEF AddRemote, Registered, Fresh, Records, Wanted, NoRecord
  <2> QED
    BY <1>8, <2>1, BeginKeeps DEF AddRemote
<1>9. ASSUME NEW m \in Remotes, RemoveRemote(p, r, m) PROVE RegistryInv'
  <2>1. recs[r] # NoRecord /\ [recs[r] EXCEPT !.remotes = @ \ {m}] \in Records
    BY <1>0, <1>9 DEF RemoveRemote, Registered, Records, NoRecord
  <2>2. recs[r].remotes \cap [recs[r] EXCEPT !.remotes = @ \ {m}].remotes
          = recs[r].remotes \ {m}
    BY <1>0 DEF Records
  <2>3. Wanted("remove", [recs[r] EXCEPT !.remotes = @ \ {m}], recs[r])
          = [recs[r] EXCEPT !.remotes = @ \ {m}]
    BY <2>1, <2>2 DEF Wanted
  <2>4. Fresh(r, "remove", [recs[r] EXCEPT !.remotes = @ \ {m}], "persist")
    BY <2>1, <2>3 DEF Fresh
  <2> QED
    BY <1>9, <2>4, BeginKeeps DEF RemoveRemote
<1> QED
  BY <1>1, <1>2, <1>3, <1>4, <1>5, <1>6, <1>7, <1>8, <1>9

LEMMA NextKeeps ==
    ASSUME RegistryInv, [Next]_vars
    PROVE  RegistryInv'
<1>1. ASSUME UNCHANGED vars PROVE RegistryInv'
  BY <1>1, QuietKeeps DEF vars
<1>2. ASSUME NEW p \in Procs, NEW r \in Repos,
             \/ Create(p, r) \/ Import(p, r) \/ RegisterExternal(p, r)
             \/ Adopt(p, r) \/ Delete(p, r) \/ ConfigureDeployment(p, r)
             \/ RemoteOperation(p, r)
             \/ \E m \in Remotes : AddRemote(p, r, m) \/ RemoveRemote(p, r, m)
      PROVE  RegistryInv'
  BY <1>2, StartKeeps
<1>3. ASSUME NEW p \in Procs, TakeLock(p) PROVE RegistryInv'
  <2>1. Busy(p) /\ job[p].op \in Locked
    BY <1>3 DEF TakeLock, Busy, RegistryInv, Stages, Fits
  <2>2. PICK label \in {"init", "clone", "transfer", "trash"} :
          Moving(p, label)
    BY <1>3, <2>1 DEF TakeLock, Moving, Goto, Fits, Locked, Mutations
  <2> QED
    BY <2>2, MovingKeeps
<1>4. ASSUME NEW p \in Procs,
             \/ Refused(p) \/ GitInitFails(p) \/ GitCloneFails(p) \/ GitSettingsFail(p)
             \/ Transfer(p) \/ PersistFails(p) \/ TrashFails(p) \/ DeleteFails(p) \/ Crash(p)
      PROVE  RegistryInv'
  <2>1. Returning(p)
    BY <1>4 DEF Returning, Refused, GitInitFails, GitCloneFails, GitSettingsFail,
        Transfer, PersistFails, TrashFails, DeleteFails, Crash, GiveUp
  <2> QED
    BY <2>1, ReturningKeeps
<1>5. ASSUME NEW p \in Procs, GitInit(p) \/ GitClone(p) \/ GitSettings(p)
      PROVE  RegistryInv'
  <2>1. PICK label \in {"settings", "persist"} : Moving(p, label)
    BY <1>5 DEF GitInit, GitClone, GitSettings, RunGit, Moving, Goto, Busy, Fits,
        RegistryInv, Stages
  <2> QED
    BY <2>1, MovingKeeps
<1>6. ASSUME NEW p \in Procs, PersistLoad(p) \/ DeleteLoad(p) PROVE RegistryInv'
  BY <1>6, LoadKeeps
<1>7. ASSUME NEW p \in Procs, PersistSave(p) \/ DeleteSave(p) \/ TrashStorage(p)
      PROVE  RegistryInv'
  BY <1>7, PersistSaveKeeps, DeleteSaveKeeps, TrashKeeps
<1> QED
  BY <1>1, <1>2, <1>3, <1>4, <1>5, <1>6, <1>7 DEF Next

(* The registry is what the mutations asked for one by one: persist loads,   *)
(* replaces one record and saves under the registry lock, so a mutation of    *)
(* another repository is never overwritten, whatever fails or crashes.        *)
THEOREM RegistryIsKept == Spec => []RegistryKeepsUpdates
<1>1. RegistryInv => RegistryKeepsUpdates
  BY DEF RegistryInv, RegistryKeepsUpdates
<1>2. RegistryInv /\ [Next]_vars => RegistryInv'
  BY NextKeeps
<1> QED
  BY <1>1, <1>2, InitEstablishes, PTL DEF Spec

-----------------------------------------------------------------------------
(* Storage.  A mutation under way holds its repository alone, so what it    *)
(* found when it began still stands, and what it undoes is its own.         *)

Makers == {"create", "import", "adopt"}
Changers == {"configure", "add", "remove"}

\* A managed repository has its bare directory.
Stored(r) == recs[r].kind = "managed" => dir[r] = "bare"

\* What the mutation of process p relies on, by its operation and stage.
Holding(p) == LET r == job[p].repo IN
    /\ job[p].op \in Makers \cup {"register"} => recs[r].kind # "managed"
    /\ job[p].op \in Makers /\ pc[p] \in {"persist", "save"} => dir[r] = "bare"
    /\ job[p].op = "register" => job[p].rec.kind # "managed"
    /\ job[p].op \in Changers => job[p].rec.kind = recs[r].kind
    /\ job[p].op \in Changers \cup {"transfer"} => Stored(r)
    /\ job[p].op = "delete" => job[p].rec.kind = recs[r].kind
    /\ job[p].op = "delete" /\ pc[p] \in {"lock", "trash"} => Stored(r)
    /\ job[p].op = "delete" /\ pc[p] \in {"unregister", "delete"}
          /\ recs[r].kind = "managed" => job[p].found = "bare"

\* What a mutation knows of its stage, and that one that makes storage found none.
Finding(p) ==
    /\ "found" \in DOMAIN job[p] /\ job[p].found \in {"none", "partial", "bare"}
    /\ job[p].op \in Mutations \cup Locked
    /\ pc[p] \in {"init", "clone", "settings"} => job[p].op \in Makers
    /\ pc[p] = "transfer" => job[p].op = "transfer"
    /\ job[p].op \in Makers => job[p].found = "none"

StorageInv ==
    /\ dir \in [Repos -> {"none", "partial", "bare"}] /\ crashes \in Nat
    /\ \A p \in Procs : Busy(p) => Finding(p)
    /\ ~raced /\ crashes = 0 =>
          /\ \A p \in Procs : Busy(p) => Holding(p)
          /\ \A r \in Repos : (\A p \in Procs : Busy(p) => job[p].repo # r) => Stored(r)

StepsAlone(p) == \A q \in Procs \ {p} : pc'[q] = pc[q] /\ job'[q] = job[q]

\* A step of a mutation touches its own repository only, and leaves its record and
\* directory in order when it returns.
LEMMA StorageStep ==
    ASSUME RegistryInv, StorageInv, NEW p \in Procs, Busy(p), StepsAlone(p),
           raced' = raced, crashes' \in Nat, crashes' = 0 => crashes = 0,
           dir' \in [Repos -> {"none", "partial", "bare"}],
           \A s \in Repos \ {job[p].repo} : dir'[s] = dir[s],
           ~ raced => \A s \in Repos \ {job[p].repo} : recs'[s] = recs[s],
           Busy(p)' => Finding(p)' /\ job'[p].repo = job[p].repo,
           ~ raced /\ crashes = 0 /\ crashes' = 0 =>
               IF Busy(p)' THEN Holding(p)'
               ELSE \A s \in Repos : s = job[p].repo => Stored(s)'
    PROVE  StorageInv'
<1>1. PICK r \in Repos : r = job[p].repo
  BY DEF RegistryInv, Shapes
<1>2. ASSUME NEW q \in Procs, Busy(q)' PROVE Finding(q)'
  BY <1>2 DEF StorageInv, StepsAlone, Busy, Finding
<1>3. ASSUME ~ raced', crashes' = 0
      PROVE  /\ \A q \in Procs : Busy(q)' => Holding(q)'
             /\ \A s \in Repos : (\A q \in Procs : Busy(q)' => job'[q].repo # s) => Stored(s)'
  <2>1. ~ raced /\ crashes = 0
    BY <1>3
  <2>2. ASSUME NEW q \in Procs \ {p}, Busy(q)'
        PROVE  Holding(q)'
    <3>1. pc'[q] = pc[q] /\ job'[q] = job[q] /\ Busy(q) /\ job[q].repo \in Repos \ {r}
      BY <1>1, <2>1, <2>2 DEF StepsAlone, Busy, RegistryInv, Shapes, Alone
    <3>2. dir'[job[q].repo] = dir[job[q].repo] /\ recs'[job[q].repo] = recs[job[q].repo]
      BY <1>1, <2>1, <3>1
    <3>3. Holding(q)
      BY <2>1, <3>1 DEF StorageInv
    <3> QED
      BY <3>1, <3>2, <3>3 DEF Holding, Stored
  <2>3. ASSUME NEW s \in Repos, \A q \in Procs : Busy(q)' => job'[q].repo # s
        PROVE  Stored(s)'
    <3>1. CASE s = r
      <4>1. ~ Busy(p)'
        BY <1>1, <2>3, <3>1
      <4> QED
        BY <1>1, <1>3, <2>1, <3>1, <4>1
    <3>2. CASE s # r
      <4>1. \A q \in Procs : Busy(q) => job[q].repo # s
        BY <1>1, <2>3, <3>2 DEF StepsAlone, Busy
      <4>2. dir'[s] = dir[s] /\ recs'[s] = recs[s] /\ Stored(s)
        BY <1>1, <2>1, <3>2, <4>1 DEF StorageInv
      <4> QED
        BY <4>2 DEF Stored
    <3> QED
      BY <3>1, <3>2
  <2> QED
    BY <1>3, <2>1, <2>2, <2>3
<1> QED
  BY <1>2, <1>3 DEF StorageInv

\* A mutation begins alone, on a repository that is in order.
LEMMA StorageBegins ==
    ASSUME RegistryInv, StorageInv, NEW p \in Procs, NEW r \in Repos,
           NEW op, NEW rec, NEW label, Begin(p, r, op, rec, label),
           label \in {"lock", "persist"}, op \in Mutations \cup Locked,
           op \in Makers => dir[r] = "none" /\ label = "lock",
           op \in Makers \cup {"register"} => recs[r].kind # "managed",
           op = "register" => rec.kind # "managed",
           op \in Changers \cup {"delete"} => rec.kind = recs[r].kind
    PROVE  StorageInv'
<1>1. /\ pc'[p] = label /\ StepsAlone(p)
      /\ DOMAIN job'[p] = {"op", "repo", "rec", "found"}
      /\ job'[p].op = op /\ job'[p].repo = r /\ job'[p].rec = rec /\ job'[p].found = dir[r]
  BY DEF Begin, Goto, RegistryInv, Shapes, StepsAlone
<1>2. UNCHANGED <<recs, dir, crashes>>
  BY DEF Begin
<1>3. Finding(p)'
  BY <1>1 DEF Finding, StorageInv
<1>4. ASSUME ~ raced', crashes = 0
      PROVE  Holding(p)'
  <2>1. ~ raced /\ \A q \in Procs : Busy(q) => job[q].repo # r
    BY <1>4 DEF Begin, Busy
  <2>2. Stored(r)
    BY <1>4, <2>1 DEF StorageInv
  <2> QED
    BY <1>1, <1>2, <2>2 DEF Holding, Stored, Makers, Changers
<1>5. ASSUME NEW q \in Procs \ {p}, Busy(q)' PROVE Busy(q) /\ pc'[q] = pc[q] /\ job'[q] = job[q]
  BY <1>1, <1>5 DEF StepsAlone, Busy
<1>6. ~ raced' => ~ raced
  BY DEF Begin
<1>7. ASSUME ~ raced', crashes' = 0
      PROVE  /\ \A q \in Procs : Busy(q)' => Holding(q)'
             /\ \A s \in Repos : (\A q \in Procs : Busy(q)' => job'[q].repo # s) => Stored(s)'
  <2>1. \A q \in Procs \ {p} : Busy(q)' => Holding(q)'
    BY <1>2, <1>5, <1>6, <1>7 DEF StorageInv, Holding, Stored
  <2>2. ASSUME NEW s \in Repos, \A q \in Procs : Busy(q)' => job'[q].repo # s
        PROVE  Stored(s)'
    <3>1. \A q \in Procs : Busy(q) => job[q].repo # s
      BY <1>1, <2>2 DEF StepsAlone, Busy, Begin
    <3> QED
      BY <1>2, <1>6, <1>7, <3>1 DEF StorageInv, Stored
  <2> QED
    BY <1>2, <1>4, <1>7, <2>1, <2>2
<1>8. \A q \in Procs : Busy(q)' => Finding(q)'
  BY <1>3, <1>5 DEF StorageInv, Finding
<1> QED
  BY <1>2, <1>7, <1>8 DEF StorageInv

LEMMA StorageStarts ==
    ASSUME RegistryInv, StorageInv, NEW p \in Procs, NEW r \in Repos,
           \/ Create(p, r) \/ Import(p, r) \/ RegisterExternal(p, r)
           \/ Adopt(p, r) \/ Delete(p, r) \/ ConfigureDeployment(p, r)
           \/ RemoteOperation(p, r)
           \/ \E m \in Remotes : AddRemote(p, r, m) \/ RemoveRemote(p, r, m)
    PROVE  StorageInv'
<1> USE DEF Mutations, Locked, Makers, Changers
<1>0. recs[r] \in Records
  BY DEF RegistryInv, Shapes
<1>1. ASSUME Create(p, r) PROVE StorageInv'
  BY <1>1, StorageBegins DEF Create, Registered
<1>2. ASSUME NEW m \in Remotes, ~ Registered(r), dir[r] = "none",
             Begin(p, r, "import", Record("managed", {m}), "lock")
      PROVE  StorageInv'
  BY <1>2, StorageBegins DEF Registered
<1>3. ASSUME RegisterExternal(p, r) PROVE StorageInv'
  <2>1. Record("external", {}).kind = "external"
    BY DEF Record
  <2> QED
    BY <1>3, <2>1, StorageBegins DEF RegisterExternal, Registered
<1>4. ASSUME Adopt(p, r) PROVE StorageInv'
  BY <1>4, StorageBegins DEF Adopt
<1>5. ASSUME Delete(p, r) PROVE StorageInv'
  BY <1>5, StorageBegins DEF Delete
<1>6. ASSUME ConfigureDeployment(p, r) PROVE StorageInv'
  <2>1. [recs[r] EXCEPT !.configured = TRUE].kind = recs[r].kind
    BY <1>0 DEF Records
  <2> QED
    BY <1>6, <2>1, StorageBegins DEF ConfigureDeployment
<1>7. ASSUME RemoteOperation(p, r) PROVE StorageInv'
  BY <1>7, StorageBegins DEF RemoteOperation
<1>8. ASSUME NEW m \in Remotes, AddRemote(p, r, m) PROVE StorageInv'
  <2>1. [recs[r] EXCEPT !.remotes = @ \cup {m}].kind = recs[r].kind
    BY <1>0 DEF Records
  <2> QED
    BY <1>8, <2>1, StorageBegins DEF AddRemote
<1>9. ASSUME NEW m \in Remotes, RemoveRemote(p, r, m) PROVE StorageInv'
  <2>1. [recs[r] EXCEPT !.remotes = @ \ {m}].kind = recs[r].kind
    BY <1>0 DEF Records
  <2> QED
    BY <1>9, <2>1, StorageBegins DEF RemoveRemote
<1> QED
  BY <1>1, <1>2, <1>3, <1>4, <1>5, <1>6, <1>7, <1>8, <1>9 DEF Import

\* Steps that go on: the lock, git, and the loads before a save.
LEMMA StorageMoves ==
    ASSUME RegistryInv, StorageInv, NEW p \in Procs,
           \/ TakeLock(p) \/ GitInit(p) \/ GitClone(p) \/ GitSettings(p)
           \/ PersistLoad(p) \/ DeleteLoad(p) \/ TrashStorage(p)
    PROVE  StorageInv'
<1> USE DEF Mutations, Locked, Makers, Changers, Fits, Goto
<1>1. /\ DOMAIN pc = Procs /\ DOMAIN job = Procs
      /\ pc[p] # "idle" => /\ Finding(p) /\ Fits(job[p].op, pc[p])
                           /\ {"op", "repo", "rec", "found"} \subseteq DOMAIN job[p]
                           /\ job[p].repo \in Repos
      /\ dir \in [Repos -> {"none", "partial", "bare"}] /\ crashes \in Nat
  BY DEF RegistryInv, Shapes, Stages, StorageInv, Finding, Busy
<1>2. ~ raced /\ crashes = 0 /\ pc[p] # "idle" => Holding(p)
  BY DEF StorageInv, Busy
<1>3. CASE TakeLock(p)
  <2>1. /\ pc[p] = "lock" /\ UNCHANGED <<recs, dir, job, crashes, raced>>
        /\ job[p].op \in Locked
        /\ pc'[p] = CASE job[p].op = "create" -> "init"
                      [] job[p].op \in {"import", "adopt"} -> "clone"
                      [] job[p].op = "transfer" -> "transfer"
                      [] OTHER -> "trash"
        /\ \A q \in Procs \ {p} : pc'[q] = pc[q]
    BY <1>1, <1>3 DEF TakeLock
  <2>2. \/ job[p].op \in Makers /\ pc'[p] \in {"init", "clone"}
        \/ job[p].op = "transfer" /\ pc'[p] = "transfer"
        \/ job[p].op = "delete" /\ pc'[p] = "trash"
    BY <2>1
  <2>3. Finding(p)' /\ StepsAlone(p) /\ Busy(p) /\ Busy(p)'
    BY <1>1, <2>1, <2>2 DEF Finding, StepsAlone, Busy
  <2>4. ~ raced /\ crashes = 0 => Holding(p)'
    BY <1>2, <2>1, <2>2 DEF Holding, Stored
  <2> QED
    BY <1>1, <2>1, <2>3, <2>4, StorageStep
<1>4. CASE GitInit(p) \/ GitClone(p) \/ GitSettings(p)
  <2>1. /\ pc[p] \in {"init", "clone", "settings"}
        /\ UNCHANGED <<recs, job, crashes, raced>>
        /\ \E now \in {"partial", "bare"} : dir' = [dir EXCEPT ![job[p].repo] = now]
        /\ pc'[p] \in {"settings", "persist"}
        /\ pc'[p] = "persist" => dir'[job[p].repo] = "bare"
        /\ \A q \in Procs \ {p} : pc'[q] = pc[q]
    BY <1>1, <1>4 DEF GitInit, GitClone, GitSettings, RunGit
  <2>2. job[p].op \in Makers
    BY <1>1, <2>1 DEF Finding
  <2>3. Finding(p)' /\ StepsAlone(p) /\ Busy(p) /\ Busy(p)'
    BY <1>1, <2>1, <2>2 DEF Finding, StepsAlone, Busy
  <2>4. ~ raced /\ crashes = 0 => Holding(p)'
    BY <1>2, <2>1, <2>2 DEF Holding
  <2>5. /\ dir' \in [Repos -> {"none", "partial", "bare"}]
        /\ \A s \in Repos \ {job[p].repo} : dir'[s] = dir[s]
    BY <1>1, <2>1
  <2> QED
    BY <1>1, <2>1, <2>3, <2>4, <2>5, StorageStep
<1>5. CASE PersistLoad(p) \/ DeleteLoad(p)
  <2>1. /\ \/ pc[p] = "persist" /\ pc'[p] = "save"
           \/ pc[p] = "unregister" /\ pc'[p] = "delete"
        /\ UNCHANGED <<recs, dir, crashes, raced>>
        /\ job' = [job EXCEPT ![p] = Copied(@)]
        /\ \A q \in Procs \ {p} : pc'[q] = pc[q] /\ job'[q] = job[q]
    BY <1>1, <1>5 DEF PersistLoad, DeleteLoad
  <2>2. /\ "found" \in DOMAIN job'[p]
        /\ job'[p].op = job[p].op /\ job'[p].repo = job[p].repo
        /\ job'[p].rec = job[p].rec /\ job'[p].found = job[p].found
    BY <1>1, <2>1 DEF Copied
  <2>3. Finding(p)' /\ StepsAlone(p) /\ Busy(p) /\ Busy(p)'
    BY <1>1, <2>1, <2>2 DEF Finding, StepsAlone, Busy
  <2>4. ~ raced /\ crashes = 0 => Holding(p)'
    BY <1>1, <1>2, <2>1, <2>2 DEF Holding, Stored
  <2> QED
    BY <1>1, <2>1, <2>2, <2>3, <2>4, StorageStep
<1>6. CASE TrashStorage(p)
  <2> DEFINE r == job[p].repo
             moved == job[p].rec.kind = "managed" /\ dir[r] # "none"
  <2>1. /\ pc[p] = "trash" /\ pc'[p] = "unregister" /\ UNCHANGED <<recs, crashes, raced>>
        /\ dir' = IF moved THEN [dir EXCEPT ![r] = "none"] ELSE dir
        /\ job' = [job EXCEPT ![p].found = IF moved THEN dir[r] ELSE "none"]
        /\ \A q \in Procs \ {p} : pc'[q] = pc[q] /\ job'[q] = job[q]
    BY <1>1, <1>6 DEF TrashStorage
  <2>2. /\ "found" \in DOMAIN job'[p]
        /\ job'[p].op = job[p].op /\ job'[p].repo = job[p].repo
        /\ job'[p].rec = job[p].rec /\ job'[p].found = IF moved THEN dir[r] ELSE "none"
    BY <1>1, <2>1
  <2>3. job[p].op = "delete"
    BY <1>1, <2>1
  <2>4. Finding(p)' /\ StepsAlone(p) /\ Busy(p) /\ Busy(p)'
    BY <1>1, <2>1, <2>2, <2>3 DEF Finding, StepsAlone, Busy
  <2>5. ~ raced /\ crashes = 0 => Holding(p)'
    BY <1>1, <1>2, <2>1, <2>2, <2>3 DEF Holding, Stored
  <2>6. /\ dir' \in [Repos -> {"none", "partial", "bare"}]
        /\ \A s \in Repos \ {job[p].repo} : dir'[s] = dir[s]
    BY <1>1, <2>1
  <2> QED
    BY <1>1, <2>1, <2>2, <2>4, <2>5, <2>6, StorageStep
<1> QED
  BY <1>3, <1>4, <1>5, <1>6

\* Steps that return.
LEMMA StorageReturns ==
    ASSUME RegistryInv, StorageInv, NEW p \in Procs,
           \/ Refused(p) \/ GitInitFails(p) \/ GitCloneFails(p) \/ GitSettingsFail(p)
           \/ Transfer(p) \/ PersistSave(p) \/ PersistFails(p)
           \/ TrashFails(p) \/ DeleteSave(p) \/ DeleteFails(p) \/ Crash(p)
    PROVE  StorageInv'
<1> USE DEF Mutations, Locked, Makers, Changers, Fits, Goto
<1> PICK r : r = job[p].repo
  OBVIOUS
<1>1. pc[p] # "idle" /\ Return(p) /\ raced' = raced
  BY DEF Refused, GitInitFails, GitCloneFails, GitSettingsFail, Transfer, PersistSave,
         PersistFails, TrashFails, DeleteSave, DeleteFails, Crash, GiveUp
<1>2. /\ DOMAIN pc = Procs /\ DOMAIN job = Procs
      /\ Finding(p) /\ Fits(job[p].op, pc[p])
      /\ r \in Repos /\ recs \in [Repos -> Records]
      /\ dir \in [Repos -> {"none", "partial", "bare"}] /\ crashes \in Nat
      /\ pc[p] \in {"save", "delete"} => job[p].copy \in [Repos -> Records]
      /\ pc[p] \in {"save", "delete"} /\ ~ raced => job[p].copy = recs
  BY <1>1 DEF RegistryInv, Shapes, Stages, StorageInv, Busy, Current, Saving
<1>3. pc'[p] = "idle" /\ \A q \in Procs \ {p} : pc'[q] = pc[q] /\ job'[q] = job[q]
  BY <1>1, <1>2 DEF Return
<1>4. ~ raced /\ crashes = 0 => Holding(p)
  BY <1>1 DEF StorageInv, Busy
<1>5. StepsAlone(p) /\ Busy(p) /\ ~ Busy(p)'
  BY <1>1, <1>3 DEF StepsAlone, Busy
<1>6. CASE \/ Refused(p) \/ GitInitFails(p) \/ GitCloneFails(p) \/ GitSettingsFail(p)
           \/ Transfer(p) \/ PersistFails(p) \/ TrashFails(p) \/ DeleteFails(p)
  <2>1. /\ UNCHANGED <<recs, crashes>>
        /\ \E now : dir' = [dir EXCEPT ![r] = now]
        /\ \/ /\ dir'[r] = dir[r] /\ pc[p] \in {"lock", "init", "transfer", "trash"}
           \/ /\ dir'[r] = dir[r] /\ pc[p] = "delete" /\ job[p].found = "none"
           \/ /\ dir'[r] = dir[r] /\ pc[p] = "save" /\ job[p].op \notin Makers
           \/ /\ dir'[r] = job[p].found /\ pc[p] = "delete"
           \/ /\ dir'[r] \in {"none", "partial"}
              /\ \/ pc[p] \in {"init", "clone", "settings"}
                 \/ pc[p] = "save" /\ job[p].op \in Makers
    <3>1. dir = [dir EXCEPT ![r] = dir[r]]
      BY <1>2
    <3>2. CASE Refused(p) \/ TrashFails(p)
      BY <1>2, <3>1, <3>2 DEF Refused, TrashFails
    <3>3. CASE GitInitFails(p) \/ GitCloneFails(p) \/ GitSettingsFail(p) \/ Transfer(p)
      BY <1>2, <3>3 DEF GitInitFails, GitCloneFails, GitSettingsFail, Transfer, GiveUp
    <3>4. CASE PersistFails(p)
      BY <1>2, <3>4 DEF PersistFails, GiveUp
    <3>5. CASE DeleteFails(p)
      BY <1>2, <3>1, <3>5 DEF DeleteFails
    <3> QED
      BY <1>6, <3>2, <3>3, <3>4, <3>5
  <2>2. ~ raced /\ crashes = 0 => Stored(r)'
    BY <1>2, <1>4, <2>1 DEF Holding, Stored, Finding
  <2>3. /\ dir'[r] \in {"none", "partial", "bare"}
        /\ \A s \in Repos \ {r} : dir'[s] = dir[s]
    BY <1>2, <2>1 DEF Finding
  <2>4. dir' \in [Repos -> {"none", "partial", "bare"}]
    BY <1>2, <2>1, <2>3
  <2> QED
    BY <1>1, <1>2, <1>5, <2>1, <2>2, <2>3, <2>4, StorageStep
<1>7. CASE PersistSave(p) \/ DeleteSave(p)
  <2>1. /\ UNCHANGED <<dir, crashes>>
        /\ \/ /\ pc[p] = "save" /\ recs' = [job[p].copy EXCEPT ![r] = job[p].rec]
           \/ /\ pc[p] = "delete" /\ recs' = [job[p].copy EXCEPT ![r] = NoRecord]
    BY <1>7 DEF PersistSave, DeleteSave
  <2>2. ~ raced => \A s \in Repos \ {r} : recs'[s] = recs[s]
    BY <1>2, <2>1
  <2>3. ~ raced /\ crashes = 0 => Stored(r)'
    BY <1>2, <1>4, <2>1 DEF Holding, Stored, NoRecord
  <2> QED
    BY <1>1, <1>2, <1>5, <2>1, <2>2, <2>3, StorageStep
<1>8. CASE Crash(p)
  <2>1. UNCHANGED <<recs, dir>> /\ crashes' = crashes + 1
    BY <1>8 DEF Crash
  <2> QED
    BY <1>1, <1>2, <1>5, <2>1, StorageStep
<1> QED
  BY <1>6, <1>7, <1>8

LEMMA StorageInit == Init => StorageInv
<1> SUFFICES ASSUME Init PROVE StorageInv
  OBVIOUS
<1>1. \A p \in Procs : ~ Busy(p)
  BY DEF Init, Busy
<1>2. \A r \in Repos : Stored(r)
  BY DEF Init, Stored, NoRecord
<1> QED
  BY <1>1, <1>2 DEF Init, StorageInv

LEMMA StorageNext ==
    ASSUME RegistryInv, StorageInv, [Next]_vars
    PROVE  StorageInv'
<1>1. CASE UNCHANGED vars
  BY <1>1 DEF vars, StorageInv, Finding, Holding, Stored, Busy
<1> QED
  BY <1>1, StorageStarts, StorageMoves, StorageReturns DEF Next

\* A step takes storage away only where its own mutation made it or deletes it.
LEMMA OwnStorage ==
    ASSUME RegistryInv, StorageInv, [Next]_vars, ~ raced', NEW q \in Procs,
           pc[q] \notin {"idle", "trash"}, job[q].op # "delete", job[q].found # "none",
           dir[job[q].repo] # "none"
    PROVE  dir'[job[q].repo] # "none"
<1>1. CASE UNCHANGED vars
  BY <1>1 DEF vars
<1>2. ASSUME NEW p \in Procs, NEW r \in Repos,
             \/ Create(p, r) \/ Import(p, r) \/ RegisterExternal(p, r)
             \/ Adopt(p, r) \/ Delete(p, r) \/ ConfigureDeployment(p, r)
             \/ RemoteOperation(p, r)
             \/ \E m \in Remotes : AddRemote(p, r, m) \/ RemoveRemote(p, r, m)
      PROVE  dir' = dir
  BY <1>2 DEF Create, Import, RegisterExternal, Adopt, Delete, ConfigureDeployment,
     RemoteOperation, AddRemote, RemoveRemote, Begin
<1>3. ASSUME NEW p \in Procs,
             \/ TakeLock(p) \/ PersistLoad(p) \/ DeleteLoad(p) \/ Refused(p)
             \/ PersistSave(p) \/ TrashFails(p) \/ DeleteSave(p) \/ Crash(p)
      PROVE  dir' = dir
  BY <1>3 DEF TakeLock, PersistLoad, DeleteLoad, Refused, PersistSave, TrashFails,
     DeleteSave, Crash
<1>4. ASSUME NEW p \in Procs,
             \/ GitInit(p) \/ GitClone(p) \/ GitSettings(p)
             \/ GitInitFails(p) \/ GitCloneFails(p) \/ GitSettingsFail(p)
             \/ Transfer(p) \/ PersistFails(p) \/ TrashStorage(p) \/ DeleteFails(p)
      PROVE  dir'[job[q].repo] # "none"
  <2>1. /\ pc[p] # "idle" /\ ~ raced
        /\ \E now : dir' = dir \/ dir' = [dir EXCEPT ![job[p].repo] = now]
        /\ \/ pc[p] \in {"init", "clone", "settings", "trash", "delete"}
           \/ pc[p] = "save" /\ job[p].op \in {"create", "import", "adopt"}
           \/ dir' = dir \/ dir' = [dir EXCEPT ![job[p].repo] = dir[job[p].repo]]
    BY <1>4 DEF GitInit, GitClone, GitSettings, RunGit, GitInitFails, GitCloneFails,
       GitSettingsFail, Transfer, PersistFails, TrashStorage, DeleteFails, GiveUp
  <2>2. Busy(p) /\ Busy(q) /\ job[q].repo \in Repos /\ Finding(p) /\ Finding(q)
    BY <2>1 DEF Busy, RegistryInv, Shapes, StorageInv
  <2>3. p # q => job[p].repo # job[q].repo
    BY <2>1, <2>2 DEF RegistryInv, Alone
  <2>4. CASE p # q
    BY <2>1, <2>2, <2>3, <2>4 DEF StorageInv
  <2>5. CASE p = q
    <3>1. job[p].op \notin Makers \cup {"delete"}
      BY <2>2, <2>5 DEF Finding
    <3>2. pc[p] \notin {"init", "clone", "settings", "trash", "delete"}
      BY <2>2, <3>1 DEF Finding, RegistryInv, Stages, Fits
    <3> QED
      BY <2>1, <2>2, <2>5, <3>1, <3>2 DEF StorageInv, Makers
  <2> QED
    BY <2>4, <2>5
<1> QED
  BY <1>1, <1>2, <1>3, <1>4 DEF Next

\* Until mutations of one repository overlap, what is registered as managed has
\* its bare directory, and no undo removes a directory its mutation did not make.
THEOREM StorageStays == Spec => StorageIsKept
<1>1. Init => RegistryInv /\ StorageInv
  BY InitEstablishes, StorageInit
<1>2. RegistryInv /\ StorageInv /\ [Next]_vars => RegistryInv' /\ StorageInv'
  BY NextKeeps, StorageNext
<1>3. StorageInv /\ ~ raced => RegisteredHasStorage
  BY DEF StorageInv, RegisteredHasStorage, Stored, Busy
<1>4. (StorageInv /\ ~ raced => RegisteredHasStorage)'
  BY <1>3, PTL
<1>5. RegistryInv /\ StorageInv /\ [Next]_vars =>
        [~raced' =>
            /\ RegisteredHasStorage'
            /\ \A p \in Procs :
                  /\ pc[p] \notin {"idle", "trash"} /\ job[p].op # "delete"
                  /\ job[p].found # "none" /\ dir[job[p].repo] # "none"
                  => dir'[job[p].repo] # "none"]_vars
  BY <1>2, <1>4, OwnStorage
<1> QED
  BY <1>1, <1>2, <1>5, PTL DEF Spec, StorageIsKept

-----------------------------------------------------------------------------
(* The web host: the site of an application, its certificate, their record.    *)

Configuring == {"link", "check", "activate", "persist"}
Issuing == {"issue", "attach", "record"}
Going == {"renew", "detach"}
Gone == {"reattach", "rerecord", "delete", "forget"}
Locking == Configuring \cup {"unlink"} \cup Issuing \cup Gone

Framework == [nginx : BOOLEAN, host : BOOLEAN, attached : W!Content \cup {W!Unset}]
Starts == [file : W!Content, link : BOOLEAN, served : W!Content]

WebTypes ==
    /\ file \in W!Content /\ loaded \in W!Content /\ link \in BOOLEAN
    /\ unit \in [active : BOOLEAN, enabled : BOOLEAN] /\ cert \in BOOLEAN
    /\ fw \in Framework /\ clobbered \in BOOLEAN
    /\ webLock \in Procs \cup {NoProc}
    /\ webPc \in [Procs -> {"idle", "ensure"} \cup Going \cup Locking]
    /\ DOMAIN webJob = Procs

Counted == webFaults \in 0..MaxFaults /\ webCrashes \in 0..MaxCrashes

\* What a process carries.
Carries(p) ==
    /\ webPc[p] \in Configuring =>
         webJob[p] \in [op : {"configure"}, linked : BOOLEAN, turnedOn : BOOLEAN,
                        reload : BOOLEAN, start : Starts]
    /\ webPc[p] = "unlink" => webJob[p] \in [op : {"remove"}]
    /\ webPc[p] = "ensure" => webJob[p] \in [op : {"ensure"}, seen : Framework]
    /\ webPc[p] \in Issuing =>
         webJob[p] \in [op : {"issue"}, prev : W!Content \cup {W!Unset}, reload : {TRUE},
                        start : Starts]
    /\ webPc[p] \in Going \cup Gone => webJob[p] \in [op : Going, prev : W!Content]

\* Who changes the site has the lock, and knows how to go back.
Undoes(p) ==
    /\ webPc[p] \in Locking => webLock = p
    /\ webPc[p] = "link" => link = webJob[p].start.link /\ ~webJob[p].linked
    /\ webPc[p] \in {"check", "activate", "persist"} =>
         link /\ webJob[p].linked = ~webJob[p].start.link
    /\ webPc[p] \in {"link", "check", "activate", "issue", "attach"} =>
         W!Served = webJob[p].start.served
    /\ webPc[p] \in {"issue", "attach"} => file = webJob[p].start.file
    /\ webPc[p] \in Issuing => link = webJob[p].start.link
    /\ webPc[p] = "activate" => webJob[p].reload = unit.active
    /\ webPc[p] \in {"persist", "record"} => unit.active

WebInv == WebTypes /\ \A p \in Procs : Carries(p) /\ Undoes(p)

LEMMA WebConstants ==
    /\ NoProc \notin Procs /\ Ports \subseteq Nat \ {0} /\ MaxFaults \in Nat /\ MaxCrashes \in Nat
    /\ W!NoFile \in W!Content /\ W!Unset \notin W!Content
    /\ \A c \in W!Content : c # W!NoFile => W!Tls(c) \in W!Content /\ W!Tls(c).tls
    /\ \A port \in Ports : W!Http(port) \in W!Content /\ ~W!Http(port).tls
                             /\ W!Http(port) # W!NoFile
    /\ \A c \in W!Content, linked \in BOOLEAN : W!Enabled(c, linked) \in W!Content
<1> USE DEF W!Content, W!NoFile, W!Unset, W!Tls, W!Http, W!Enabled
<1>1. NoProc \notin Procs /\ Ports \subseteq Nat \ {0} /\ MaxFaults \in Nat /\ MaxCrashes \in Nat
  BY HostConstants DEF HostConstants, W!HostAssumption
<1>2. W!NoFile \in W!Content
  OBVIOUS
<1>3. W!Unset \notin W!Content
  BY <1>1
<1>4. \A c \in W!Content : c # W!NoFile => W!Tls(c) \in W!Content /\ W!Tls(c).tls
  OBVIOUS
<1>7. \A c \in W!Content, linked \in BOOLEAN : W!Enabled(c, linked) \in W!Content
  OBVIOUS
<1>5. \A port \in Ports : W!Http(port) \in W!Content /\ ~W!Http(port).tls
                            /\ W!Http(port) # W!NoFile
  <2>1. ASSUME NEW port \in Ports
        PROVE  W!Http(port).port = port /\ port # 0 /\ W!NoFile.port = 0
    BY <1>1
  <2> QED
    BY <2>1
<1> QED
  BY <1>1, <1>2, <1>3, <1>4, <1>5, <1>7

LEMMA WebStarts == W!Init => WebInv
<1> SUFFICES ASSUME W!Init
             PROVE  WebInv
  OBVIOUS
<1>1. fw \in Framework
  BY DEF W!Init, Framework
<1>2. WebTypes
  <2>1. /\ file \in W!Content /\ loaded \in W!Content /\ link \in BOOLEAN /\ cert \in BOOLEAN
        /\ clobbered \in BOOLEAN /\ webLock \in Procs \cup {NoProc} /\ DOMAIN webJob = Procs
    BY WebConstants DEF W!Init
  <2>2. unit \in [active : BOOLEAN, enabled : BOOLEAN]
    BY DEF W!Init
  <2>3. webPc \in [Procs -> {"idle", "ensure"} \cup Going \cup Locking]
    BY DEF W!Init
  <2> QED
    BY <1>1, <2>1, <2>2, <2>3 DEF WebTypes
<1>3. webPc = [p \in Procs |-> "idle"]
  BY DEF W!Init
<1>4. \A p \in Procs : Carries(p) /\ Undoes(p)
  BY <1>3 DEF Carries, Undoes, Configuring, Issuing, Going, Gone, Locking
<1> QED
  BY <1>2, <1>4 DEF WebInv

\* A step of process p leaves the others where they are.
Turn(p) == \A q \in Procs \ {p} : webPc'[q] = webPc[q] /\ webJob'[q] = webJob[q]

\* A step under the lock.
LEMMA InsideKeeps ==
    ASSUME WebInv, NEW p \in Procs, Turn(p), webLock \in {p, NoProc},
           WebTypes', Carries(p)', Undoes(p)'
    PROVE  WebInv'
<1>1. ASSUME NEW q \in Procs \ {p}
      PROVE  Carries(q)' /\ Undoes(q)'
  <2>1. webPc'[q] = webPc[q] /\ webJob'[q] = webJob[q] /\ Carries(q) /\ Undoes(q)
    BY DEF Turn, WebInv
  <2>2. webPc[q] \notin Locking
    BY <2>1, WebConstants DEF Undoes
  <2>3. Carries(q)'
    BY <2>1 DEF Carries
  <2> QED
    BY <2>1, <2>2, <2>3 DEF Undoes, Locking, Configuring, Issuing
<1> QED
  BY <1>1 DEF WebInv

\* A step that leaves the site.
LEMMA AsideKeeps ==
    ASSUME WebInv, NEW p \in Procs, Turn(p), UNCHANGED <<file, link, loaded, unit>>,
           webLock' = webLock \/ (webLock = p /\ webLock' = NoProc),
           WebTypes', Carries(p)', webPc'[p] \notin Locking
    PROVE  WebInv'
<1>1. ASSUME NEW q \in Procs \ {p}
      PROVE  Carries(q)' /\ Undoes(q)'
  <2>1. webPc'[q] = webPc[q] /\ webJob'[q] = webJob[q] /\ Carries(q) /\ Undoes(q)
    BY DEF Turn, WebInv
  <2>2. Carries(q)'
    BY <2>1 DEF Carries
  <2> QED
    BY <2>1, <2>2 DEF Undoes, W!Served
<1>2. Undoes(p)'
  BY DEF Undoes, Locking, Configuring, Issuing
<1> QED
  BY <1>1, <1>2 DEF WebInv


LEMMA Found == WebInv => W!Found \in Starts
BY WebConstants DEF WebInv, WebTypes, W!Found, Starts, W!Served

LEMMA ConfigureKeeps ==
    ASSUME WebInv, NEW p \in Procs,
           \/ \E port \in Ports : W!ConfigureWrite(p, port)
           \/ W!ConfigureLink(p) \/ W!ConfigureCheck(p) \/ W!ConfigureActivate(p)
           \/ W!ConfigurePersist(p)
    PROVE  WebInv'
<1> USE WebConstants DEF W!Goto, W!Same, Configuring, Issuing, Going, Gone, Locking
<1>0. WebTypes /\ Carries(p) /\ Undoes(p)
  BY DEF WebInv
<1>1. ASSUME Turn(p), webLock \in {p, NoProc}, WebTypes', Carries(p)', Undoes(p)'
      PROVE  WebInv'
  BY <1>1, InsideKeeps
<1>2. ASSUME NEW port \in Ports, W!ConfigureWrite(p, port)
      PROVE  WebInv'
  <2> DEFINE j == [op |-> "configure", linked |-> FALSE, turnedOn |-> FALSE, reload |-> TRUE,
                   start |-> W!Found]
  <2>1. webJob' = [webJob EXCEPT ![p] = j] /\ webPc' = [webPc EXCEPT ![p] = "link"]
        /\ webLock = NoProc /\ webLock' = p /\ file' = W!Http(port)
        /\ UNCHANGED <<link, loaded, unit, cert, fw, clobbered>>
    BY <1>2 DEF W!ConfigureWrite
  <2>2. j \in [op : {"configure"}, linked : BOOLEAN, turnedOn : BOOLEAN, reload : BOOLEAN,
               start : Starts] /\ j.start = W!Found /\ j.linked = FALSE
    BY Found
  <2> HIDE DEF j
  <2>3. webJob'[p] = j /\ webPc'[p] = "link" /\ Turn(p) /\ WebTypes'
    BY <1>0, <2>1 DEF WebTypes, Turn
  <2>4. Carries(p)'
    BY <2>2, <2>3 DEF Carries
  <2>5. Undoes(p)'
    BY <2>1, <2>2, <2>3 DEF Undoes, W!Found, W!Served
  <2> QED
    BY <1>1, <2>1, <2>3, <2>4, <2>5
<1>3. CASE W!ConfigureLink(p)
  <2>1. webPc[p] = "link" /\ webJob' = [webJob EXCEPT ![p].linked = ~link]
        /\ webPc' = [webPc EXCEPT ![p] = "check"] /\ link' = TRUE
        /\ UNCHANGED <<file, loaded, unit, cert, fw, webLock, clobbered>>
    BY <1>3 DEF W!ConfigureLink
  <2>2. Turn(p) /\ WebTypes' /\ webPc'[p] = "check"
    BY <1>0, <2>1 DEF WebTypes, Turn
  <2>3. Carries(p)' /\ webJob'[p].linked = ~link /\ webJob'[p].start = webJob[p].start
    BY <1>0, <2>1, <2>2 DEF Carries, WebTypes
  <2>4. Undoes(p)' /\ webLock = p
    BY <1>0, <2>1, <2>2, <2>3 DEF Undoes, W!Served, WebTypes
  <2> QED
    BY <1>1, <2>2, <2>3, <2>4
<1>4. CASE W!ConfigureCheck(p)
  <2>1. webPc[p] = "check"
        /\ webJob' = [webJob EXCEPT ![p].turnedOn = ~unit.enabled, ![p].reload = unit.active]
        /\ webPc' = [webPc EXCEPT ![p] = "activate"] /\ unit' = [unit EXCEPT !.enabled = TRUE]
        /\ UNCHANGED <<file, link, loaded, cert, fw, webLock, clobbered>>
    BY <1>4 DEF W!ConfigureCheck
  <2>2. Turn(p) /\ WebTypes' /\ webPc'[p] = "activate" /\ unit'.active = unit.active
    BY <1>0, <2>1 DEF WebTypes, Turn
  <2>3. Carries(p)' /\ webJob'[p].linked = webJob[p].linked /\ webJob'[p].reload = unit.active
        /\ webJob'[p].start = webJob[p].start
    BY <1>0, <2>1, <2>2 DEF Carries, WebTypes
  <2>4. Undoes(p)' /\ webLock = p
    BY <1>0, <2>1, <2>2, <2>3 DEF Undoes, W!Served, WebTypes
  <2> QED
    BY <1>1, <2>2, <2>3, <2>4
<1>5. CASE W!ConfigureActivate(p)
  <2>1. webPc[p] = "activate" /\ webJob' = webJob /\ loaded' = W!Enabled(file, link)
        /\ webPc' = [webPc EXCEPT ![p] = "persist"] /\ unit' = [unit EXCEPT !.active = TRUE]
        /\ UNCHANGED <<file, link, cert, fw, webLock, clobbered>>
    BY <1>5 DEF W!ConfigureActivate
  <2>2. Turn(p) /\ WebTypes' /\ webPc'[p] = "persist" /\ unit'.active
    BY <1>0, <2>1 DEF WebTypes, Turn
  <2>3. Carries(p)'
    BY <1>0, <2>1, <2>2 DEF Carries
  <2>4. Undoes(p)' /\ webLock = p
    BY <1>0, <2>1, <2>2 DEF Undoes
  <2> QED
    BY <1>1, <2>2, <2>3, <2>4
<1>6. CASE W!ConfigurePersist(p)
  <2>1. webPc[p] = "persist" /\ fw' = [fw EXCEPT !.host = TRUE]
        /\ webPc' = [webPc EXCEPT ![p] = "idle"]
        /\ webJob' = [webJob EXCEPT ![p] = W!NoJob]
        /\ webLock' = (IF webLock = p THEN NoProc ELSE webLock)
        /\ UNCHANGED <<file, link, loaded, unit, cert, clobbered>>
    BY <1>6 DEF W!ConfigurePersist, W!Return, W!site
  <2>2. Turn(p) /\ WebTypes' /\ webPc'[p] = "idle"
    BY <1>0, <2>1 DEF WebTypes, Turn, Framework
  <2>3. Carries(p)' /\ Undoes(p)'
    BY <2>2 DEF Carries, Undoes
  <2> QED
    BY <1>0, <1>1, <2>1, <2>2, <2>3 DEF Undoes
<1> QED
  BY <1>2, <1>3, <1>4, <1>5, <1>6

SiteTypes ==
    /\ file \in W!Content /\ loaded \in W!Content /\ link \in BOOLEAN
    /\ unit \in [active : BOOLEAN, enabled : BOOLEAN] /\ cert \in BOOLEAN
    /\ fw \in Framework /\ clobbered \in BOOLEAN

\* A call returns, from under the lock or with the site as it is.
LEMMA WebReturns ==
    ASSUME WebInv, NEW p \in Procs, NEW failed \in BOOLEAN, W!Return(p, failed), SiteTypes',
           webPc[p] \in Locking \/ UNCHANGED <<file, link, loaded, unit>>
    PROVE  WebInv'
<1>1. /\ webPc' = [webPc EXCEPT ![p] = "idle"]
      /\ webLock' = (IF webLock = p THEN NoProc ELSE webLock)
      /\ webJob' = [webJob EXCEPT ![p] = IF failed THEN W!Failed ELSE W!NoJob]
  BY DEF W!Return, W!Goto
<1>2. WebTypes' /\ Turn(p) /\ webPc'[p] = "idle"
  BY <1>1 DEF WebInv, WebTypes, SiteTypes, Turn
<1>3. Carries(p)' /\ Undoes(p)'
  BY <1>2 DEF Carries, Undoes, Configuring, Issuing, Going, Gone, Locking
<1>4. CASE webPc[p] \in Locking
  <2>1. webLock = p
    BY <1>4 DEF WebInv, Undoes
  <2> QED
    BY <1>2, <1>3, <2>1, InsideKeeps
<1>5. CASE UNCHANGED <<file, link, loaded, unit>>
  <2>1. webPc'[p] \notin Locking
    BY <1>2 DEF Configuring, Issuing, Gone, Locking
  <2> QED
    BY <1>1, <1>2, <1>3, <1>5, <2>1, AsideKeeps
<1> QED
  BY <1>4, <1>5

LEMMA ConfigureReturns ==
    ASSUME WebInv, NEW p \in Procs,
           \/ W!ConfigureLinkFails(p) \/ W!ConfigureCheckFails(p)
           \/ W!ConfigureActivateFails(p) \/ W!ConfigurePersistFails(p) \/ W!RemoveFile(p)
    PROVE  WebInv'
<1> USE WebConstants
<1>0. SiteTypes /\ Carries(p)
  BY DEF WebInv, WebTypes, SiteTypes
<1>1. webPc[p] \in Locking /\ UNCHANGED <<cert, fw, clobbered>>
  BY DEF W!ConfigureLinkFails, W!ConfigureCheckFails, W!ConfigureActivateFails,
         W!ConfigurePersistFails, W!RemoveFile, Locking, Configuring
<1>2. ASSUME webPc[p] \in Configuring, W!Restore(p)
      PROVE  file' \in W!Content /\ link' \in BOOLEAN
  BY <1>0, <1>2 DEF W!Restore, Carries, Starts, SiteTypes
<1>3. CASE W!ConfigureLinkFails(p) \/ W!ConfigureCheckFails(p)
  <2>1. SiteTypes' /\ W!Return(p, TRUE)
    BY <1>0, <1>1, <1>2, <1>3
       DEF W!ConfigureLinkFails, W!ConfigureCheckFails, SiteTypes, Configuring
  <2> QED
    BY <1>1, <2>1, WebReturns
<1>4. CASE W!ConfigureActivateFails(p)
  <2>1. W!Return(p, TRUE) /\ file' \in W!Content /\ link' \in BOOLEAN
    BY <1>2, <1>4 DEF W!ConfigureActivateFails, Configuring
  <2>2. unit' \in [active : BOOLEAN, enabled : BOOLEAN]
    BY <1>0, <1>4 DEF W!ConfigureActivateFails, SiteTypes
  <2>3. loaded' \in W!Content
    BY <1>0, <1>4, <2>1 DEF W!ConfigureActivateFails, SiteTypes, W!Enabled
  <2> QED
    BY <1>0, <1>1, <2>1, <2>2, <2>3, WebReturns DEF SiteTypes
<1>5. CASE W!ConfigurePersistFails(p)
  <2>1. W!Return(p, TRUE) /\ file' \in W!Content /\ link' \in BOOLEAN
    BY <1>2, <1>5 DEF W!ConfigurePersistFails, Configuring
  <2>2. unit' \in [active : BOOLEAN, enabled : BOOLEAN]
    BY <1>0, <1>5 DEF W!ConfigurePersistFails, SiteTypes
  <2>3. loaded' \in W!Content
    BY <1>0, <1>5, <2>1 DEF W!ConfigurePersistFails, SiteTypes, W!Enabled
  <2> QED
    BY <1>0, <1>1, <2>1, <2>2, <2>3, WebReturns DEF SiteTypes
<1>6. CASE W!RemoveFile(p)
  <2>1. SiteTypes' /\ W!Return(p, FALSE)
    BY <1>0, <1>1, <1>6 DEF W!RemoveFile, SiteTypes
  <2> QED
    BY <1>1, <2>1, WebReturns
<1> QED
  BY <1>3, <1>4, <1>5, <1>6

\* What attaching a certificate leaves of the site.
LEMMA AttachTypes ==
    ASSUME SiteTypes
    PROVE  /\ W!AttachOk => file' \in W!Content /\ loaded' \in W!Content
           /\ W!AttachUndone => file' \in W!Content /\ loaded' \in W!Content
           /\ W!AttachUndone => file' = file /\ loaded' \in {loaded, W!Enabled(file, link)}
BY WebConstants DEF SiteTypes, W!AttachOk, W!AttachUndone, W!CanAttach, W!Attached

LEMMA CertificateReturns ==
    ASSUME WebInv, NEW p \in Procs,
           \/ W!IssueCertificateFails(p) \/ W!IssueAttachFails(p) \/ W!IssuePersist(p)
           \/ W!IssuePersistFails(p) \/ W!RenewAttachFails(p) \/ W!RenewPersist(p)
           \/ W!DetachCertificateFails(p) \/ W!DetachForget(p)
    PROVE  WebInv'
<1> USE WebConstants
<1>0. SiteTypes /\ Carries(p)
  BY DEF WebInv, WebTypes, SiteTypes
<1>1. webPc[p] \in Locking /\ UNCHANGED <<link, unit, clobbered>>
  BY DEF W!IssueCertificateFails, W!IssueAttachFails, W!IssuePersist, W!IssuePersistFails,
         W!RenewAttachFails, W!RenewPersist, W!DetachCertificateFails, W!DetachForget,
         W!site, Locking, Issuing, Gone
<1>2. ASSUME NEW failed \in BOOLEAN, W!Return(p, failed), SiteTypes'
      PROVE  WebInv'
  BY <1>1, <1>2, WebReturns
<1>3. CASE W!IssueCertificateFails(p)
  BY <1>0, <1>1, <1>2, <1>3 DEF W!IssueCertificateFails, SiteTypes
<1>4. CASE W!IssueAttachFails(p) \/ W!RenewAttachFails(p)
  <2>1. SiteTypes'
    BY <1>0, <1>1, <1>4, AttachTypes DEF W!IssueAttachFails, W!RenewAttachFails, SiteTypes
  <2> QED
    BY <1>2, <1>4, <2>1 DEF W!IssueAttachFails, W!RenewAttachFails
<1>5. CASE W!IssuePersist(p)
  <2>1. fw' \in Framework
    BY <1>0, <1>5 DEF W!IssuePersist, SiteTypes, Framework, Carries, Issuing, Starts
  <2> QED
    BY <1>0, <1>1, <1>2, <1>5, <2>1 DEF W!IssuePersist, SiteTypes, W!site
<1>6. CASE W!IssuePersistFails(p)
  <2>1. webJob[p].start.file \in W!Content
    BY <1>0, <1>6 DEF W!IssuePersistFails, Carries, Issuing, Starts
  <2> QED
    BY <1>0, <1>1, <1>2, <1>6, <2>1 DEF W!IssuePersistFails, SiteTypes
<1>7. CASE W!RenewPersist(p)
  <2>1. webJob[p].prev \in W!Content
    BY <1>0, <1>7 DEF W!RenewPersist, Carries, Gone
  <2>2. fw' \in Framework
    BY <1>0, <1>7, <2>1 DEF W!RenewPersist, SiteTypes, Framework
  <2> QED
    BY <1>0, <1>1, <1>2, <1>7, <2>2 DEF W!RenewPersist, SiteTypes, W!site
<1>8. CASE W!DetachCertificateFails(p)
  <2>1. SiteTypes'
    BY <1>0, <1>1, <1>8, AttachTypes DEF W!DetachCertificateFails, SiteTypes
  <2> QED
    BY <1>2, <1>8, <2>1 DEF W!DetachCertificateFails
<1>9. CASE W!DetachForget(p)
  <2>2. fw' \in Framework
    BY <1>0, <1>9 DEF W!DetachForget, SiteTypes, Framework
  <2> QED
    BY <1>0, <1>1, <1>2, <1>9, <2>2 DEF W!DetachForget, SiteTypes, W!site
<1> QED
  BY <1>3, <1>4, <1>5, <1>6, <1>7, <1>8, <1>9

\* Calls that read before they lock, and what ends them without it.
LEMMA OutsideKeeps ==
    ASSUME WebInv, NEW p \in Procs,
           \/ W!EnsureLoad(p) \/ W!EnsureSave(p)
           \/ \E op \in {"renew", "detach"} : W!ReadPrevious(p, op)
           \/ W!Refused(p) \/ W!RenewCertificateFails(p) \/ W!Crash(p)
    PROVE  WebInv'
<1> USE WebConstants
<1>0. SiteTypes /\ WebTypes /\ Carries(p)
  BY DEF WebInv, WebTypes, SiteTypes
<1>1. CASE W!EnsureLoad(p)
  <2>1. /\ webJob' = [webJob EXCEPT ![p] = [op |-> "ensure", seen |-> fw]]
        /\ webPc' = [webPc EXCEPT ![p] = "ensure"]
        /\ UNCHANGED <<file, link, loaded, unit, cert, fw, webLock, clobbered>>
    BY <1>1 DEF W!EnsureLoad, W!Goto, W!Same, W!site
  <2>2. WebTypes' /\ Turn(p) /\ webPc'[p] = "ensure"
    BY <1>0, <2>1 DEF WebTypes, Turn
  <2>3. Carries(p)'
    BY <1>0, <2>1, <2>2 DEF Carries, WebTypes, Configuring, Issuing, Going, Gone
  <2> QED
    BY <2>1, <2>2, <2>3, AsideKeeps DEF Locking, Configuring, Issuing, Gone
<1>2. CASE W!EnsureSave(p)
  <2>1. fw' \in Framework /\ clobbered' \in BOOLEAN
    BY <1>0, <1>2 DEF W!EnsureSave, Carries, Framework, SiteTypes
  <2>2. SiteTypes' /\ W!Return(p, FALSE) /\ UNCHANGED <<file, link, loaded, unit>>
    BY <1>0, <1>2, <2>1 DEF W!EnsureSave, SiteTypes, W!site
  <2> QED
    BY <2>2, WebReturns
<1>3. ASSUME NEW op \in {"renew", "detach"}, W!ReadPrevious(p, op)
      PROVE  WebInv'
  <2>1. /\ webJob' = [webJob EXCEPT ![p] = [op |-> op, prev |-> fw.attached]]
        /\ webPc' = [webPc EXCEPT ![p] = op]
        /\ UNCHANGED <<file, link, loaded, unit, cert, fw, webLock, clobbered>>
        /\ fw.attached # W!Unset
    BY <1>3 DEF W!ReadPrevious, W!Goto, W!Same, W!site
  <2>2. WebTypes' /\ Turn(p) /\ webPc'[p] = op
    BY <1>0, <2>1 DEF WebTypes, Turn, Going
  <2>3. fw.attached \in W!Content
    BY <1>0, <2>1 DEF WebTypes, Framework
  <2>4. Carries(p)'
    BY <1>0, <2>1, <2>2, <2>3 DEF Carries, WebTypes, Configuring, Issuing, Going, Gone
  <2> QED
    BY <2>1, <2>2, <2>4, AsideKeeps DEF Locking, Configuring, Issuing, Gone
<1>4. CASE W!Refused(p) \/ W!RenewCertificateFails(p)
  <2>1. SiteTypes' /\ W!Return(p, TRUE) /\ UNCHANGED <<file, link, loaded, unit>>
    BY <1>0, <1>4 DEF W!Refused, W!RenewCertificateFails, SiteTypes, W!site
  <2> QED
    BY <2>1, WebReturns
<1>5. CASE W!Crash(p)
  <2>1. SiteTypes' /\ W!Return(p, FALSE) /\ UNCHANGED <<file, link, loaded, unit>>
    BY <1>0, <1>5 DEF W!Crash, W!Return, SiteTypes, W!site
  <2> QED
    BY <2>1, WebReturns
<1> QED
  BY <1>1, <1>2, <1>3, <1>4, <1>5

LEMMA CertificateKeeps ==
    ASSUME WebInv, NEW p \in Procs,
           \/ W!RemoveLink(p) \/ W!IssueBegin(p) \/ W!IssueCertificate(p) \/ W!IssueAttach(p)
           \/ W!RenewCertificate(p) \/ W!RenewAttach(p) \/ W!DetachWrite(p)
           \/ W!DetachCertificate(p)
    PROVE  WebInv'
<1> USE WebConstants DEF W!Goto, W!Same, W!site
<1>0. SiteTypes /\ WebTypes /\ Carries(p) /\ Undoes(p)
  BY DEF WebInv, WebTypes, SiteTypes
<1>1. ASSUME Turn(p), webLock \in {p, NoProc}, WebTypes', Carries(p)', Undoes(p)'
      PROVE  WebInv'
  BY <1>1, InsideKeeps
<1>2. CASE W!RemoveLink(p)
  <2>1. WebTypes' /\ Turn(p) /\ webPc'[p] = "unlink" /\ webLock = NoProc /\ webLock' = p
        /\ webJob'[p] = [op |-> "remove"]
    BY <1>0, <1>2 DEF W!RemoveLink, WebTypes, Turn, Locking
  <2>2. Carries(p)' /\ Undoes(p)'
    BY <2>1 DEF Carries, Undoes, Configuring, Issuing, Going, Gone
  <2> QED
    BY <1>1, <2>1, <2>2
<1>3. CASE W!IssueBegin(p)
  <2> DEFINE j == [op |-> "issue", prev |-> fw.attached, reload |-> TRUE, start |-> W!Found]
  <2>1. WebTypes' /\ Turn(p) /\ webPc'[p] = "issue" /\ webLock = NoProc /\ webLock' = p
        /\ webJob'[p] = j /\ UNCHANGED <<file, link, loaded, unit>>
    BY <1>0, <1>3 DEF W!IssueBegin, WebTypes, Turn, Locking, Issuing
  <2>2. /\ j \in [op : {"issue"}, prev : W!Content \cup {W!Unset}, reload : {TRUE},
                  start : Starts]
        /\ j.start = W!Found
    BY <1>0, Found DEF WebTypes, Framework
  <2> HIDE DEF j
  <2>3. Carries(p)'
    BY <2>1, <2>2 DEF Carries, Configuring, Issuing, Going, Gone
  <2>4. Undoes(p)'
    BY <2>1, <2>2 DEF Undoes, W!Found, W!Served
  <2> QED
    BY <1>1, <2>1, <2>3, <2>4
<1>4. CASE W!IssueCertificate(p)
  <2>1. WebTypes' /\ Turn(p) /\ webPc[p] = "issue" /\ webPc'[p] = "attach" /\ webJob' = webJob
        /\ UNCHANGED <<file, link, loaded, unit, webLock>>
    BY <1>0, <1>4 DEF W!IssueCertificate, WebTypes, Turn, Locking, Issuing
  <2>2. Carries(p)' /\ Undoes(p)' /\ webLock = p
    BY <1>0, <2>1
       DEF Carries, Undoes, W!Served, Locking, Configuring, Issuing, Going, Gone
  <2> QED
    BY <1>1, <2>1, <2>2
<1>5. CASE W!IssueAttach(p)
  <2>1. WebTypes' /\ Turn(p) /\ webPc[p] = "attach" /\ webPc'[p] = "record" /\ webJob' = webJob
        /\ UNCHANGED <<link, unit, webLock>> /\ unit.active
    BY <1>0, <1>5, AttachTypes
       DEF W!IssueAttach, WebTypes, Turn, Locking, Issuing, W!AttachOk, W!CanAttach
  <2>2. Carries(p)' /\ Undoes(p)' /\ webLock = p
    BY <1>0, <2>1
       DEF Carries, Undoes, W!Served, Locking, Configuring, Issuing, Going, Gone
  <2> QED
    BY <1>1, <2>1, <2>2
<1>6. CASE W!RenewCertificate(p)
  <2>1. WebTypes' /\ Turn(p) /\ webPc[p] = "renew" /\ webPc'[p] = "reattach" /\ webJob' = webJob
        /\ webLock = NoProc /\ webLock' = p
    BY <1>0, <1>6 DEF W!RenewCertificate, WebTypes, Turn, Locking, Gone
  <2>2. Carries(p)' /\ Undoes(p)'
    BY <1>0, <2>1
       DEF Carries, Undoes, Locking, Configuring, Issuing, Going, Gone
  <2> QED
    BY <1>1, <2>1, <2>2
<1>7. CASE W!RenewAttach(p)
  <2>1. WebTypes' /\ Turn(p) /\ webPc[p] = "reattach" /\ webPc'[p] = "rerecord"
        /\ webJob' = webJob /\ UNCHANGED webLock
    BY <1>0, <1>7, AttachTypes DEF W!RenewAttach, WebTypes, Turn, Locking, Gone
  <2>2. Carries(p)' /\ Undoes(p)' /\ webLock = p
    BY <1>0, <2>1
       DEF Carries, Undoes, Locking, Configuring, Issuing, Going, Gone
  <2> QED
    BY <1>1, <2>1, <2>2
<1>8. CASE W!DetachWrite(p)
  <2>0. webJob[p].prev \in W!Content
    BY <1>0, <1>8 DEF W!DetachWrite, Carries, Going
  <2>1. WebTypes' /\ Turn(p) /\ webPc[p] = "detach" /\ webPc'[p] = "delete"
        /\ webJob' = webJob /\ webLock = NoProc /\ webLock' = p
    BY <1>0, <1>8, <2>0 DEF W!DetachWrite, WebTypes, Turn, Locking, Gone
  <2>2. Carries(p)' /\ Undoes(p)'
    BY <1>0, <2>1
       DEF Carries, Undoes, Locking, Configuring, Issuing, Going, Gone
  <2> QED
    BY <1>1, <2>1, <2>2
<1>9. CASE W!DetachCertificate(p)
  <2>1. WebTypes' /\ Turn(p) /\ webPc[p] = "delete" /\ webPc'[p] = "forget"
        /\ webJob' = webJob /\ UNCHANGED webLock
    BY <1>0, <1>9 DEF W!DetachCertificate, WebTypes, Turn, Locking, Gone
  <2>2. Carries(p)' /\ Undoes(p)' /\ webLock = p
    BY <1>0, <2>1
       DEF Carries, Undoes, Locking, Configuring, Issuing, Going, Gone
  <2> QED
    BY <1>1, <2>1, <2>2
<1> QED
  BY <1>2, <1>3, <1>4, <1>5, <1>6, <1>7, <1>8, <1>9

\* Nobody else holds the lock while a failing detach puts back what was there.
LEMMA DetachWriteFailsKeeps ==
    ASSUME WebInv, NEW p \in Procs, W!DetachWriteFails(p)
    PROVE  WebInv'
<1> USE WebConstants
<1>1. SiteTypes' /\ W!Return(p, TRUE) /\ webLock = NoProc
  BY DEF W!DetachWriteFails, SiteTypes, WebInv, WebTypes
<1>2. WebTypes' /\ Turn(p) /\ webPc'[p] = "idle"
  BY <1>1 DEF WebInv, WebTypes, SiteTypes, Turn, W!Return, W!Goto
<1>3. Carries(p)' /\ Undoes(p)'
  BY <1>2 DEF Carries, Undoes, Configuring, Issuing, Going, Gone, Locking
<1> QED
  BY <1>1, <1>2, <1>3, InsideKeeps

LEMMA WebKeeps ==
    ASSUME WebInv, W!Next
    PROVE  WebInv'
BY ConfigureKeeps, ConfigureReturns, CertificateReturns, OutsideKeeps, CertificateKeeps,
   DetachWriteFailsKeeps DEF W!Next

\* What a failing step of p has to leave.
Undone(p) ==
    LET start == webJob[p].start
    IN  /\ file' = start.file /\ link' = start.link
        /\ webJob[p].reload /\ W!Valid(start.file, cert) =>
              W!Served' \in {start.served, W!Enabled(start.file, start.link)}

LEMMA ConfigureIsUndone ==
    ASSUME WebInv, NEW p \in Procs,
           \/ W!ConfigureLinkFails(p) \/ W!ConfigureCheckFails(p)
           \/ W!ConfigureActivateFails(p) \/ W!ConfigurePersistFails(p)
    PROVE  Undone(p)
<1> DEFINE start == webJob[p].start
<1>0. WebTypes /\ Carries(p) /\ Undoes(p)
  BY DEF WebInv
<1>1. webPc[p] \in Configuring /\ W!Restore(p) /\ cert' = cert
  BY DEF W!ConfigureLinkFails, W!ConfigureCheckFails, W!ConfigureActivateFails,
         W!ConfigurePersistFails, Configuring
<1>2. start.file \in W!Content /\ start.link \in BOOLEAN /\ webJob[p].linked \in BOOLEAN
      /\ webJob[p].reload \in BOOLEAN /\ start \in Starts
  BY <1>0, <1>1 DEF Carries, Starts
<1>3. file' = start.file /\ link' = start.link
  <2>1. file' = start.file /\ link' = (link /\ ~webJob[p].linked)
    BY <1>1 DEF W!Restore
  <2>2. CASE webPc[p] = "link"
    <3>1. link = start.link /\ webJob[p].linked = FALSE
      BY <1>0, <1>2, <2>2 DEF Undoes
    <3> QED
      BY <1>2, <2>1, <3>1
  <2>3. CASE webPc[p] # "link"
    <3>1. link = TRUE /\ webJob[p].linked = ~start.link
      BY <1>0, <1>1, <2>3 DEF Undoes, Configuring, WebTypes
    <3> QED
      BY <1>2, <2>1, <3>1
  <2> QED
    BY <2>2, <2>3
<1>4. CASE W!ConfigureLinkFails(p) \/ W!ConfigureCheckFails(p)
  <2>1. W!Served' = W!Served /\ webPc[p] \in {"link", "check"}
    BY <1>4 DEF W!ConfigureLinkFails, W!ConfigureCheckFails, W!Served
  <2> QED
    BY <1>0, <1>3, <2>1 DEF Undone, Undoes
<1>5. CASE W!ConfigureActivateFails(p) \/ W!ConfigurePersistFails(p)
  <2>1. ASSUME webJob[p].reload, W!Valid(start.file, cert)
        PROVE  unit'.active /\ loaded' = W!Enabled(start.file, start.link)
    <3>1. (link' => W!Valid(file', cert))
      BY <1>3, <2>1
    <3>2. unit.active
      BY <1>0, <1>5, <2>1 DEF Undoes, W!ConfigureActivateFails, W!ConfigurePersistFails
    <3>3. CASE W!ConfigureActivateFails(p)
      <4>1. PICK done \in BOOLEAN :
              /\ unit' = [active |-> unit.active \/ done,
                          enabled |-> unit.enabled /\ ~webJob[p].turnedOn]
              /\ loaded' = CASE webJob[p].reload /\ (link' => W!Valid(file', cert)) ->
                                  W!Enabled(file', link')
                             [] done /\ ~webJob[p].reload -> W!Enabled(file, link)
                             [] OTHER -> loaded
        BY <3>3 DEF W!ConfigureActivateFails
      <4>2. unit'.active
        BY <3>2, <4>1
      <4>3. loaded' = W!Enabled(file', link')
        BY <2>1, <3>1, <4>1
      <4> QED
        BY <1>3, <4>2, <4>3
    <3>4. CASE W!ConfigurePersistFails(p)
      BY <1>3, <2>1, <3>1, <3>2, <3>4 DEF W!ConfigurePersistFails
    <3> QED
      BY <1>5, <3>3, <3>4
  <2> QED
    BY <1>3, <2>1 DEF Undone, W!Served
<1> QED
  BY <1>4, <1>5

LEMMA IssueIsUndone ==
    ASSUME WebInv, NEW p \in Procs,
           W!IssueCertificateFails(p) \/ W!IssueAttachFails(p) \/ W!IssuePersistFails(p)
    PROVE  Undone(p)
<1> DEFINE start == webJob[p].start
<1>0. SiteTypes /\ Carries(p) /\ Undoes(p)
  BY DEF WebInv, WebTypes, SiteTypes
<1>1. webPc[p] \in Issuing /\ UNCHANGED <<link, unit>>
  BY DEF W!IssueCertificateFails, W!IssueAttachFails, W!IssuePersistFails, Issuing
<1>2. link' = start.link
  BY <1>0, <1>1 DEF Undoes
<1>3. CASE W!IssueCertificateFails(p)
  <2>1. file' = file /\ W!Served' = W!Served /\ webPc[p] = "issue"
    BY <1>3 DEF W!IssueCertificateFails, W!Served
  <2> QED
    BY <1>0, <1>2, <2>1 DEF Undone, Undoes
<1>4. CASE W!IssueAttachFails(p)
  <2>1. file' = file /\ loaded' \in {loaded, W!Enabled(file, link)} /\ webPc[p] = "attach"
    BY <1>0, <1>4, AttachTypes DEF W!IssueAttachFails
  <2>2. W!Served' \in {W!Served, W!Enabled(file, link)}
    BY <1>1, <2>1 DEF W!Served
  <2> QED
    BY <1>0, <1>1, <1>2, <2>1, <2>2 DEF Undone, Undoes
<1>5. CASE W!IssuePersistFails(p)
  <2>1. file' = start.file /\ loaded' = W!Enabled(start.file, link) /\ webPc[p] = "record"
    BY <1>5 DEF W!IssuePersistFails
  <2> QED
    BY <1>0, <1>1, <1>2, <2>1 DEF Undone, Undoes, W!Served
<1> QED
  BY <1>3, <1>4, <1>5

\* The other steps of the two calls end no job as failed.
LEMMA GoesOn ==
    ASSUME WebInv, NEW p \in Procs,
           \/ W!ConfigureLink(p) \/ W!ConfigureCheck(p) \/ W!ConfigureActivate(p)
           \/ W!ConfigurePersist(p) \/ W!IssueCertificate(p) \/ W!IssueAttach(p)
           \/ W!IssuePersist(p) \/ W!Crash(p)
    PROVE  webJob'[p] # W!Failed
<1>0. DOMAIN webJob = Procs /\ Carries(p)
  BY DEF WebInv, WebTypes
<1>1. W!NoJob # W!Failed
  <2>1. W!NoJob.op = "none" /\ W!Failed.op = "failed"
    BY DEF W!NoJob, W!Failed
  <2> QED
    BY <2>1
<1>2. W!Failed.op = "failed"
  BY DEF W!Failed
<1>3. CASE W!ConfigurePersist(p) \/ W!IssuePersist(p) \/ W!Crash(p)
  BY <1>0, <1>1, <1>3 DEF W!ConfigurePersist, W!IssuePersist, W!Crash, W!Return
<1>4. CASE \/ W!ConfigureLink(p) \/ W!ConfigureCheck(p) \/ W!ConfigureActivate(p)
           \/ W!IssueCertificate(p) \/ W!IssueAttach(p)
  <2>1. webJob[p].op \in {"configure", "issue"} /\ webJob'[p].op = webJob[p].op
    <3>1. CASE W!ConfigureLink(p) \/ W!ConfigureCheck(p)
      <4>1. webJob[p] \in [op : {"configure"}, linked : BOOLEAN, turnedOn : BOOLEAN,
                           reload : BOOLEAN, start : Starts]
        BY <1>0, <3>1 DEF W!ConfigureLink, W!ConfigureCheck, Carries, Configuring
      <4>2. \/ webJob'[p] = [webJob[p] EXCEPT !.linked = ~link]
            \/ webJob'[p] = [webJob[p] EXCEPT !.turnedOn = ~unit.enabled, !.reload = unit.active]
        BY <1>0, <3>1 DEF W!ConfigureLink, W!ConfigureCheck
      <4> QED
        BY <4>1, <4>2
    <3>2. CASE W!ConfigureActivate(p) \/ W!IssueCertificate(p) \/ W!IssueAttach(p)
      BY <1>0, <3>2
         DEF W!ConfigureActivate, W!IssueCertificate, W!IssueAttach, Carries, Configuring, Issuing
    <3> QED
      BY <1>4, <3>1, <3>2
  <2> QED
    BY <1>2, <2>1
<1> QED
  BY <1>3, <1>4

\* A step that ends the call of p as failed is one that undoes it.
LEMMA FailureIsUndone ==
    ASSUME WebInv, W!Next, NEW p \in Procs,
           webJob[p].op \in {"configure", "issue"}, webPc[p] # "idle", webJob'[p] = W!Failed
    PROVE  Undone(p)
<1> DEFINE Acts(q) ==
      \/ \E port \in Ports : W!ConfigureWrite(q, port)
      \/ W!ConfigureLink(q) \/ W!ConfigureLinkFails(q)
      \/ W!ConfigureCheck(q) \/ W!ConfigureCheckFails(q)
      \/ W!ConfigureActivate(q) \/ W!ConfigureActivateFails(q)
      \/ W!ConfigurePersist(q) \/ W!ConfigurePersistFails(q)
      \/ W!RemoveLink(q) \/ W!RemoveFile(q)
      \/ W!EnsureLoad(q) \/ W!EnsureSave(q)
      \/ W!IssueBegin(q)
      \/ W!IssueCertificate(q) \/ W!IssueCertificateFails(q)
      \/ W!IssueAttach(q) \/ W!IssueAttachFails(q)
      \/ W!IssuePersist(q) \/ W!IssuePersistFails(q)
      \/ \E op \in {"renew", "detach"} : W!ReadPrevious(q, op)
      \/ W!Refused(q)
      \/ W!RenewCertificate(q) \/ W!RenewCertificateFails(q)
      \/ W!RenewAttach(q) \/ W!RenewAttachFails(q)
      \/ W!RenewPersist(q)
      \/ W!DetachWrite(q) \/ W!DetachWriteFails(q)
      \/ W!DetachCertificate(q) \/ W!DetachCertificateFails(q)
      \/ W!DetachForget(q)
      \/ W!Crash(q)
<1>1. PICK q \in Procs : Acts(q)
  BY DEF W!Next
<1>2. DOMAIN webJob = Procs /\ Carries(p) /\ webPc[p] \in {"idle", "ensure"} \cup Going \cup Locking
  BY DEF WebInv, WebTypes
<1>3. webJob[p] # W!Failed
  <2>1. W!Failed.op = "failed"
    BY DEF W!Failed
  <2> QED
    BY <2>1
<1>4. webPc[p] \in Configuring \cup Issuing
  BY <1>2 DEF Carries, Locking, Configuring, Issuing, Going, Gone
<1>5. q = p
  <2>1. Acts(q) => webJob' = webJob \/ \E j : webJob' = [webJob EXCEPT ![q] = j]
    BY DEF W!ConfigureWrite, W!ConfigureLink, W!ConfigureLinkFails, W!ConfigureCheck,
           W!ConfigureCheckFails, W!ConfigureActivate, W!ConfigureActivateFails,
           W!ConfigurePersist, W!ConfigurePersistFails, W!RemoveLink, W!RemoveFile,
           W!EnsureLoad, W!EnsureSave, W!IssueBegin, W!IssueCertificate,
           W!IssueCertificateFails, W!IssueAttach, W!IssueAttachFails, W!IssuePersist,
           W!IssuePersistFails, W!ReadPrevious, W!Refused, W!RenewCertificate,
           W!RenewCertificateFails, W!RenewAttach, W!RenewAttachFails, W!RenewPersist,
           W!DetachWrite, W!DetachWriteFails, W!DetachCertificate,
           W!DetachCertificateFails, W!DetachForget, W!Crash, W!Return
  <2> QED
    BY <1>1, <1>2, <1>3, <2>1
<1>6. \/ W!ConfigureLink(p) \/ W!ConfigureLinkFails(p)
      \/ W!ConfigureCheck(p) \/ W!ConfigureCheckFails(p)
      \/ W!ConfigureActivate(p) \/ W!ConfigureActivateFails(p)
      \/ W!ConfigurePersist(p) \/ W!ConfigurePersistFails(p)
      \/ W!IssueCertificate(p) \/ W!IssueCertificateFails(p)
      \/ W!IssueAttach(p) \/ W!IssueAttachFails(p)
      \/ W!IssuePersist(p) \/ W!IssuePersistFails(p) \/ W!Crash(p)
  BY <1>1, <1>4, <1>5
     DEF W!ConfigureWrite, W!RemoveLink, W!RemoveFile, W!EnsureLoad, W!EnsureSave,
         W!IssueBegin, W!ReadPrevious, W!Refused, W!RenewCertificate,
         W!RenewCertificateFails, W!RenewAttach, W!RenewAttachFails, W!RenewPersist,
         W!DetachWrite, W!DetachWriteFails, W!DetachCertificate, W!DetachCertificateFails,
         W!DetachForget, Configuring, Issuing
<1> QED
  BY <1>6, ConfigureIsUndone, IssueIsUndone, GoesOn

\* Behaviours about the web host are those of WebHost; the others leave it.
LEMMA AboutWeb ==
    ASSUME HostNext
    PROVE  /\ about' = about
           /\ about = "web" => W!Next
           /\ about # "web" => UNCHANGED web
BY DEF HostNext, OnlyGit, OnlyWeb, OnlyServices, W!Next

LEMMA WebStutters ==
    ASSUME WebInv, UNCHANGED web
    PROVE  WebInv'
<1>1. WebTypes'
  BY DEF WebInv, WebTypes, web
<1>2. ASSUME NEW p \in Procs
      PROVE  Carries(p)' /\ Undoes(p)'
  <2>1. Carries(p)'
    BY DEF WebInv, Carries, web
  <2>2. Undoes(p)'
    BY DEF WebInv, Undoes, W!Served, web
  <2> QED
    BY <2>1, <2>2
<1> QED
  BY <1>1, <1>2 DEF WebInv

\* Whatever fails and whoever dies, a configuration or an issue that one failing
\* step ends leaves the file and the symlink as the call found them and nginx
\* serving what it served or what those files say (configure_with_node_port with
\* its restore_configuration, and issue).
THEOREM FailedChangesAreUndone == HostSpec => FailedChangeIsUndone
<1> DEFINE Undo == \A p \in Procs :
                      /\ webJob[p].op \in {"configure", "issue"} /\ webPc[p] # "idle"
                      /\ webJob'[p] = W!Failed
                      => Undone(p)
           hosts == <<vars, web, services, about>>
<1>1. HostInit => WebInv
  BY WebStarts DEF HostInit
<1>2. WebInv /\ [HostNext]_hosts => WebInv'
  <2>1. CASE HostNext
    BY <2>1, AboutWeb, WebKeeps, WebStutters
  <2>2. CASE UNCHANGED hosts
    BY <2>2, WebStutters
  <2> QED
    BY <2>1, <2>2
<1>3. WebInv /\ [HostNext]_hosts => [Undo]_web
  <2>1. CASE HostNext
    BY <2>1, AboutWeb, FailureIsUndone DEF Undo
  <2>2. CASE UNCHANGED hosts
    BY <2>2
  <2> QED
    BY <2>1, <2>2
<1>4. [Undo]_web => [\A p \in Procs :
          /\ webJob[p].op \in {"configure", "issue"} /\ webPc[p] # "idle"
          /\ webJob'[p] = W!Failed
          => LET start == webJob[p].start
             IN  /\ file' = start.file /\ link' = start.link
                 /\ webJob[p].reload /\ W!Valid(start.file, cert) =>
                       W!Served' \in {start.served, W!Enabled(start.file, start.link)}]_W!vars
  BY DEF Undo, Undone, web, W!vars
<1> QED
  BY <1>1, <1>2, <1>3, <1>4, PTL DEF HostSpec, FailedChangeIsUndone, W!FailedChangeIsUndone

-----------------------------------------------------------------------------
(* The site, its certificate and their record agree.                           *)

\* The attachment is the one that a renewal or a detachment read, when it takes
\* the lock: neither reads it again (renew, detach).
PreviousIsPresent ==
    \A p \in Procs : webPc[p] \in Going => webJob[p].prev = fw.attached

\* What site s names is there.
Complete(s) ==
    /\ s.tls => cert /\ fw.attached # W!Unset
    /\ s # W!NoFile => fw.host

Plain == fw.attached # W!Unset => ~fw.attached.tls

\* What the process that has the lock owes to the others.
Agrees(p) ==
    /\ webLock = p => webPc[p] \in Locking
    /\ webPc[p] \in Configuring => Complete(webJob[p].start.file) /\ ~file.tls
    /\ webPc[p] \in {"unlink", "issue", "attach", "reattach"} => Complete(file)
    /\ webPc[p] \in Issuing =>
         webJob[p].prev = fw.attached /\ fw.host /\ Complete(webJob[p].start.file)
    /\ webPc[p] \in {"attach", "record", "reattach", "rerecord"} => cert
    /\ webPc[p] \in Going \cup Gone => ~webJob[p].prev.tls /\ fw.host
    /\ webPc[p] \in Gone => webJob[p].prev = fw.attached
    /\ webPc[p] \in {"delete", "forget"} => file = webJob[p].prev

Agree ==
    /\ Plain
    /\ webLock = NoProc => Complete(file)
    /\ \A p \in Procs : Agrees(p)

CutShort == webCrashes # 0 \/ clobbered

SiteInv == Counted /\ (~CutShort => Agree)

\* A step under the lock.
LEMMA AgreeInside ==
    ASSUME WebInv, Agree, NEW p \in Procs, Turn(p), webLock \in {p, NoProc},
           webLock' \in {p, NoProc}, fw.host => fw'.host, Plain',
           webLock' = NoProc => Complete(file)', Agrees(p)'
    PROVE  Agree'
<1>1. ASSUME NEW q \in Procs \ {p}
      PROVE  Agrees(q)'
  <2>1. webPc'[q] = webPc[q] /\ webJob'[q] = webJob[q] /\ Undoes(q) /\ Agrees(q)
    BY DEF Turn, WebInv, Agree
  <2>2. webPc[q] \notin Locking /\ webLock' # q
    BY <2>1, WebConstants DEF Undoes
  <2> QED
    BY <2>1, <2>2 DEF Agrees, Locking, Configuring, Issuing, Gone
<1> QED
  BY <1>1 DEF Agree

\* A step that leaves the site and what is recorded of it.
LEMMA AgreeAside ==
    ASSUME WebInv, Agree, NEW p \in Procs, Turn(p), webPc'[p] \notin Locking,
           UNCHANGED <<file, cert, webLock>>, webLock # p,
           fw'.host = fw.host, fw'.attached = fw.attached,
           webPc'[p] \in Going => ~webJob'[p].prev.tls /\ fw.host
    PROVE  Agree'
<1>1. ASSUME NEW q \in Procs \ {p}
      PROVE  Agrees(q)'
  <2>1. webPc'[q] = webPc[q] /\ webJob'[q] = webJob[q] /\ Agrees(q)
    BY DEF Turn, Agree
  <2> QED
    BY <2>1 DEF Agrees, Complete
<1>2. Agrees(p)'
  BY DEF Agrees, Locking, Configuring, Issuing, Gone
<1>3. Plain' /\ (webLock' = NoProc => Complete(file)')
  BY DEF Agree, Plain, Complete
<1> QED
  BY <1>1, <1>2, <1>3 DEF Agree

\* The holder of the lock returns.
LEMMA AgreeReturns ==
    ASSUME WebInv, Agree, NEW p \in Procs, NEW failed \in BOOLEAN, W!Return(p, failed),
           webPc[p] \in Locking, fw.host => fw'.host, Plain', Complete(file)'
    PROVE  Agree'
<1>1. webLock = p /\ webLock' = NoProc /\ NoProc # p
  BY WebConstants DEF WebInv, Undoes, W!Return
<1>2. Turn(p) /\ webPc'[p] = "idle"
  BY DEF WebInv, WebTypes, Turn, W!Return, W!Goto
<1>3. Agrees(p)'
  BY <1>1, <1>2 DEF Agrees, Locking, Configuring, Issuing, Going, Gone
<1> QED
  BY <1>1, <1>2, <1>3, AgreeInside

\* What a call finds under the lock.
LEMMA FoundFields == W!Found.file = file /\ W!Found.link = link /\ W!Found.served = W!Served
BY DEF W!Found

LEMMA AgreeConfigures ==
    ASSUME WebInv, Agree, NEW p \in Procs,
           \/ \E port \in Ports : W!ConfigureWrite(p, port)
           \/ W!ConfigureLink(p) \/ W!ConfigureCheck(p) \/ W!ConfigureActivate(p)
    PROVE  Agree'
<1> USE WebConstants
<1>0. WebTypes /\ Carries(p) /\ Undoes(p) /\ Agrees(p) /\ Plain
  BY DEF WebInv, Agree
<1>1. ASSUME NEW port \in Ports, W!ConfigureWrite(p, port)
      PROVE  Agree'
  <2> DEFINE j == [op |-> "configure", linked |-> FALSE, turnedOn |-> FALSE, reload |-> TRUE,
                   start |-> W!Found]
  <2>1. webJob' = [webJob EXCEPT ![p] = j] /\ webPc' = [webPc EXCEPT ![p] = "link"]
        /\ webLock = NoProc /\ webLock' = p /\ file' = W!Http(port) /\ UNCHANGED <<cert, fw>>
    BY <1>1 DEF W!ConfigureWrite, W!Goto
  <2>2. j.start = W!Found
    OBVIOUS
  <2> HIDE DEF j
  <2>3. webJob'[p].start.file = file /\ webPc'[p] = "link" /\ Turn(p)
    BY <1>0, <2>1, <2>2, FoundFields DEF WebTypes, Turn
  <2>4. Complete(file) /\ ~file'.tls
    BY <2>1 DEF Agree
  <2>5. Complete(webJob[p].start.file)'
    BY <2>1, <2>3, <2>4 DEF Complete
  <2>6. Agrees(p)'
    BY <2>3, <2>4, <2>5 DEF Agrees, Locking, Configuring, Issuing, Going, Gone
  <2>7. Plain'
    BY <1>0, <2>1 DEF Plain
  <2> QED
    BY <2>1, <2>3, <2>6, <2>7, AgreeInside
<1>2. CASE W!ConfigureLink(p) \/ W!ConfigureCheck(p) \/ W!ConfigureActivate(p)
  <2>1. /\ webPc[p] \in {"link", "check", "activate"}
        /\ webPc' = [webPc EXCEPT ![p] = webPc'[p]]
        /\ webPc'[p] \in {"check", "activate", "persist"}
        /\ UNCHANGED <<file, cert, fw, webLock>>
    BY <1>0, <1>2
       DEF W!ConfigureLink, W!ConfigureCheck, W!ConfigureActivate, W!Goto, W!Same, WebTypes
  <2>2. Turn(p) /\ webLock = p
    BY <1>0, <1>2, <2>1
       DEF W!ConfigureLink, W!ConfigureCheck, W!ConfigureActivate, WebTypes, Turn, Undoes,
           Locking, Configuring
  <2>3. webJob'[p].start = webJob[p].start
    <3>1. webJob[p] \in [op : {"configure"}, linked : BOOLEAN, turnedOn : BOOLEAN,
                         reload : BOOLEAN, start : Starts]
      BY <1>0, <2>1 DEF Carries, Configuring
    <3>2. \/ webJob'[p] = [webJob[p] EXCEPT !.linked = ~link]
          \/ webJob'[p] = [webJob[p] EXCEPT !.turnedOn = ~unit.enabled, !.reload = unit.active]
          \/ webJob'[p] = webJob[p]
      BY <1>0, <1>2 DEF W!ConfigureLink, W!ConfigureCheck, W!ConfigureActivate, WebTypes
    <3> QED
      BY <3>1, <3>2
  <2>4. Complete(webJob[p].start.file)' /\ ~file'.tls
    BY <1>0, <2>1, <2>3 DEF Agrees, Complete, Configuring
  <2>5. Agrees(p)'
    BY <2>1, <2>2, <2>4 DEF Agrees, Locking, Configuring, Issuing, Going, Gone
  <2>6. Plain'
    BY <1>0, <2>1 DEF Plain
  <2> QED
    BY <2>1, <2>2, <2>5, <2>6, AgreeInside
<1> QED
  BY <1>1, <1>2

LEMMA AgreeConfigured ==
    ASSUME WebInv, Agree, NEW p \in Procs,
           \/ W!ConfigureLinkFails(p) \/ W!ConfigureCheckFails(p)
           \/ W!ConfigureActivateFails(p) \/ W!ConfigurePersistFails(p)
           \/ W!ConfigurePersist(p) \/ W!RemoveFile(p)
    PROVE  Agree'
<1>0. WebTypes /\ Agrees(p) /\ Plain
  BY DEF WebInv, Agree
<1>1. CASE \/ W!ConfigureLinkFails(p) \/ W!ConfigureCheckFails(p)
           \/ W!ConfigureActivateFails(p) \/ W!ConfigurePersistFails(p)
  <2>1. /\ webPc[p] \in Configuring /\ W!Return(p, TRUE) /\ UNCHANGED <<cert, fw>>
        /\ file' = webJob[p].start.file
    BY <1>1 DEF W!ConfigureLinkFails, W!ConfigureCheckFails, W!ConfigureActivateFails,
         W!ConfigurePersistFails, Configuring, W!Restore
  <2>2. Complete(file)'
    BY <1>0, <2>1 DEF Agrees, Complete
  <2>3. Plain' /\ webPc[p] \in Locking
    BY <1>0, <2>1 DEF Plain, Locking
  <2> QED
    BY <2>1, <2>2, <2>3, AgreeReturns
<1>2. CASE W!ConfigurePersist(p)
  <2>1. webPc[p] = "persist" /\ fw' = [fw EXCEPT !.host = TRUE] /\ W!Return(p, FALSE)
        /\ UNCHANGED <<file, cert>>
    BY <1>2 DEF W!ConfigurePersist, W!site
  <2>2. fw'.host /\ fw'.attached = fw.attached /\ ~file.tls
    BY <1>0, <2>1 DEF WebTypes, Framework, Agrees, Configuring
  <2>3. Plain' /\ Complete(file)' /\ webPc[p] \in Locking
    BY <1>0, <2>1, <2>2 DEF Plain, Complete, Locking, Configuring
  <2> QED
    BY <2>1, <2>2, <2>3, AgreeReturns
<1>3. CASE W!RemoveFile(p)
  <2>1. webPc[p] = "unlink" /\ file' = W!NoFile /\ UNCHANGED fw /\ W!Return(p, FALSE)
    BY <1>3 DEF W!RemoveFile
  <2>2. ~W!NoFile.tls
    BY DEF W!NoFile
  <2>3. Plain' /\ Complete(file)' /\ webPc[p] \in Locking
    BY <1>0, <2>1, <2>2 DEF Plain, Complete, Locking
  <2> QED
    BY <2>1, <2>3, AgreeReturns
<1> QED
  BY <1>1, <1>2, <1>3

\* Whatever the file is, once host, certificate and attachment are there.
LEMMA AllThere ==
    ASSUME cert, fw.attached # W!Unset, fw.host, UNCHANGED <<cert, fw>>
    PROVE  Complete(file)'
BY DEF Complete

LEMMA AgreeIssues ==
    ASSUME WebInv, Agree, NEW p \in Procs,
           W!RemoveLink(p) \/ W!IssueBegin(p) \/ W!IssueCertificate(p) \/ W!IssueAttach(p)
    PROVE  Agree'
<1> USE WebConstants
<1>0. WebTypes /\ Carries(p) /\ Undoes(p) /\ Agrees(p) /\ Plain
  BY DEF WebInv, Agree
<1>1. CASE W!RemoveLink(p)
  <2>1. webPc' = [webPc EXCEPT ![p] = "unlink"] /\ Turn(p) /\ webLock = NoProc /\ webLock' = p
        /\ UNCHANGED <<file, cert, fw>>
    BY <1>0, <1>1 DEF W!RemoveLink, W!Goto, WebTypes, Turn
  <2>2. webPc'[p] = "unlink" /\ Complete(file)' /\ Plain'
    BY <1>0, <2>1 DEF WebTypes, Agree, Complete, Plain
  <2>3. Agrees(p)'
    BY <2>2 DEF Agrees, Locking, Configuring, Issuing, Going, Gone
  <2> QED
    BY <2>1, <2>2, <2>3, AgreeInside
<1>2. CASE W!IssueBegin(p)
  <2> DEFINE j == [op |-> "issue", prev |-> fw.attached, reload |-> TRUE, start |-> W!Found]
  <2>1. webJob' = [webJob EXCEPT ![p] = j] /\ webPc' = [webPc EXCEPT ![p] = "issue"]
        /\ webLock = NoProc /\ webLock' = p /\ UNCHANGED <<file, cert, fw>> /\ fw.host
    BY <1>2 DEF W!IssueBegin, W!Goto, W!Consumer, W!site
  <2>2. j.start = W!Found /\ j.prev = fw.attached
    OBVIOUS
  <2> HIDE DEF j
  <2>3. webJob'[p].start.file = file /\ webJob'[p].prev = fw.attached
        /\ webPc'[p] = "issue" /\ Turn(p)
    BY <1>0, <2>1, <2>2, FoundFields DEF WebTypes, Turn
  <2>4. Complete(file)' /\ Plain'
    BY <1>0, <2>1 DEF Agree, Complete, Plain
  <2>5. Complete(webJob[p].start.file)'
    BY <2>1, <2>3, <2>4
  <2>6. Agrees(p)'
    BY <2>1, <2>3, <2>4, <2>5 DEF Agrees, Locking, Configuring, Issuing, Going, Gone
  <2> QED
    BY <2>1, <2>3, <2>4, <2>6, AgreeInside
<1>3. CASE W!IssueCertificate(p)
  <2>1. webPc[p] = "issue" /\ webPc' = [webPc EXCEPT ![p] = "attach"] /\ cert'
        /\ UNCHANGED <<file, fw, webJob, webLock>>
    BY <1>3 DEF W!IssueCertificate, W!Goto, W!Same
  <2>2. webPc'[p] = "attach" /\ Turn(p) /\ webLock = p
    BY <1>0, <2>1 DEF WebTypes, Turn, Undoes, Locking, Issuing
  <2>3. Complete(file) /\ Complete(webJob[p].start.file) /\ webJob[p].prev = fw.attached
        /\ fw.host
    BY <1>0, <2>1 DEF Agrees, Issuing
  <2>4. Complete(file)' /\ Plain' /\ Complete(webJob[p].start.file)'
    BY <1>0, <2>1, <2>3 DEF Complete, Plain
  <2>5. Agrees(p)'
    BY <2>1, <2>2, <2>3, <2>4 DEF Agrees, Locking, Configuring, Issuing, Going, Gone
  <2> QED
    BY <2>1, <2>2, <2>4, <2>5, AgreeInside
<1>4. CASE W!IssueAttach(p)
  <2>1. webPc[p] = "attach" /\ webPc' = [webPc EXCEPT ![p] = "record"]
        /\ UNCHANGED <<cert, fw, webJob, webLock>>
    BY <1>4 DEF W!IssueAttach, W!Goto, W!Same
  <2>2. webPc'[p] = "record" /\ Turn(p) /\ webLock = p
    BY <1>0, <2>1 DEF WebTypes, Turn, Undoes, Locking, Issuing
  <2>3. Complete(webJob[p].start.file) /\ webJob[p].prev = fw.attached /\ fw.host /\ cert
    BY <1>0, <2>1 DEF Agrees, Issuing
  <2>4. Plain' /\ Complete(webJob[p].start.file)'
    BY <1>0, <2>1, <2>3 DEF Complete, Plain
  <2>5. Agrees(p)'
    BY <2>1, <2>2, <2>3, <2>4 DEF Agrees, Locking, Configuring, Issuing, Going, Gone
  <2> QED
    BY <2>1, <2>2, <2>4, <2>5, AgreeInside
<1> QED
  BY <1>1, <1>2, <1>3, <1>4

LEMMA AgreeIssued ==
    ASSUME WebInv, Agree, NEW p \in Procs,
           \/ W!IssueCertificateFails(p) \/ W!IssueAttachFails(p)
           \/ W!IssuePersist(p) \/ W!IssuePersistFails(p)
    PROVE  Agree'
<1> USE WebConstants
<1> DEFINE old == webJob[p].start.file
           prev == webJob[p].prev
<1>0. SiteTypes /\ WebTypes /\ Carries(p) /\ Undoes(p) /\ Agrees(p) /\ Plain
  BY DEF WebInv, Agree, WebTypes, SiteTypes
<1>1. webPc[p] \in Issuing /\ webPc[p] \in Locking
  BY DEF W!IssueCertificateFails, W!IssueAttachFails, W!IssuePersist, W!IssuePersistFails,
         Issuing, Locking
<1>2. prev = fw.attached /\ fw.host /\ Complete(old) /\ old \in W!Content
  BY <1>0, <1>1 DEF Agrees, Carries, Starts
<1>3. CASE W!IssueCertificateFails(p)
  <2>1. webPc[p] = "issue" /\ (cert => cert') /\ UNCHANGED <<file, fw>> /\ W!Return(p, TRUE)
    BY <1>3 DEF W!IssueCertificateFails
  <2>2. Complete(file) /\ Plain
    BY <1>0, <2>1 DEF Agrees
  <2>3. Complete(file)' /\ Plain'
    BY <2>1, <2>2 DEF Complete, Plain
  <2> QED
    BY <1>1, <2>1, <2>3, AgreeReturns
<1>4. CASE W!IssueAttachFails(p)
  <2>1. webPc[p] = "attach" /\ cert' = (cert /\ prev # W!Unset) /\ UNCHANGED <<file, fw>>
        /\ W!Return(p, TRUE)
    BY <1>0, <1>4, AttachTypes DEF W!IssueAttachFails
  <2>2. Complete(file) /\ Plain
    BY <1>0, <2>1 DEF Agrees
  <2>3. Complete(file)' /\ Plain'
    BY <1>2, <2>1, <2>2 DEF Complete, Plain
  <2> QED
    BY <1>1, <2>1, <2>3, AgreeReturns
<1>5. CASE W!IssuePersist(p)
  <2>1. webPc[p] = "record" /\ UNCHANGED <<file, cert>> /\ W!Return(p, FALSE)
        /\ fw' = [fw EXCEPT !.attached = IF prev # W!Unset THEN prev ELSE old]
    BY <1>5 DEF W!IssuePersist, W!site
  <2>2. fw'.host /\ fw'.attached = IF prev # W!Unset THEN prev ELSE old
    BY <1>0, <1>2, <2>1 DEF WebTypes, Framework
  <2>3. prev = W!Unset => ~old.tls
    BY <1>2 DEF Complete
  <2>4. fw'.attached # W!Unset /\ ~fw'.attached.tls
    BY <1>0, <1>2, <2>2, <2>3 DEF Plain
  <2>5. Complete(file)' /\ Plain'
    BY <1>0, <2>1, <2>2, <2>4 DEF Complete, Plain, Agrees
  <2> QED
    BY <1>1, <2>1, <2>2, <2>5, AgreeReturns
<1>6. CASE W!IssuePersistFails(p)
  <2>1. file' = old /\ cert' = (cert /\ prev # W!Unset) /\ UNCHANGED fw /\ W!Return(p, TRUE)
    BY <1>6 DEF W!IssuePersistFails
  <2>2. Complete(file)' /\ Plain'
    BY <1>0, <1>2, <2>1 DEF Complete, Plain
  <2> QED
    BY <1>1, <2>1, <2>2, AgreeReturns
<1> QED
  BY <1>3, <1>4, <1>5, <1>6

LEMMA AgreeRenews ==
    ASSUME WebInv, Agree, PreviousIsPresent, NEW p \in Procs,
           \/ W!RenewCertificate(p) \/ W!RenewAttach(p) \/ W!DetachWrite(p)
           \/ W!DetachCertificate(p)
    PROVE  Agree'
<1> USE WebConstants
<1>0. WebTypes /\ Undoes(p) /\ Agrees(p) /\ Plain
  BY DEF WebInv, Agree
<1>1. /\ webPc[p] \in Going \cup Gone
      /\ UNCHANGED <<fw, webJob>> /\ Turn(p) /\ Plain'
  BY <1>0 DEF W!RenewCertificate, W!RenewAttach, W!DetachWrite, W!DetachCertificate, W!Goto,
         Going, Gone, WebTypes, Turn, Plain, W!site, W!Same
<1>2. ~webJob[p].prev.tls /\ fw.host /\ webJob[p].prev = fw.attached
  BY <1>0, <1>1 DEF Agrees, PreviousIsPresent
<1>3. CASE W!RenewCertificate(p)
  <2>1. webPc'[p] = "reattach" /\ webLock = NoProc /\ webLock' = p /\ cert
        /\ UNCHANGED <<file, cert>>
    BY <1>0, <1>3 DEF W!RenewCertificate, W!Goto, WebTypes, W!site
  <2>2. Complete(file)'
    BY <1>1, <2>1 DEF Agree, Complete
  <2>3. Agrees(p)'
    BY <1>1, <1>2, <2>1, <2>2 DEF Agrees, Locking, Configuring, Issuing, Going, Gone
  <2> QED
    BY <1>1, <2>1, <2>2, <2>3, AgreeInside
<1>4. CASE W!RenewAttach(p)
  <2>1. webPc[p] = "reattach" /\ webPc'[p] = "rerecord" /\ UNCHANGED <<cert, webLock>>
    BY <1>0, <1>4 DEF W!RenewAttach, W!Goto, W!Same, WebTypes
  <2>2. webLock = p /\ cert
    BY <1>0, <2>1 DEF Undoes, Agrees, Locking, Gone
  <2>3. Agrees(p)'
    BY <1>1, <1>2, <2>1, <2>2 DEF Agrees, Locking, Configuring, Issuing, Going, Gone
  <2> QED
    BY <1>1, <2>1, <2>2, <2>3, AgreeInside
<1>5. CASE W!DetachWrite(p)
  <2>1. webPc'[p] = "delete" /\ webLock = NoProc /\ webLock' = p /\ file' = webJob[p].prev
    BY <1>0, <1>5 DEF W!DetachWrite, W!Goto, WebTypes
  <2>2. Agrees(p)'
    BY <1>1, <1>2, <2>1 DEF Agrees, Locking, Configuring, Issuing, Going, Gone
  <2> QED
    BY <1>1, <2>1, <2>2, AgreeInside
<1>6. CASE W!DetachCertificate(p)
  <2>1. webPc[p] = "delete" /\ webPc'[p] = "forget" /\ UNCHANGED <<file, webLock>>
    BY <1>0, <1>6 DEF W!DetachCertificate, W!Goto, W!Same, WebTypes
  <2>2. webLock = p /\ file = webJob[p].prev
    BY <1>0, <2>1 DEF Undoes, Agrees, Locking, Gone
  <2>3. Agrees(p)'
    BY <1>1, <1>2, <2>1, <2>2 DEF Agrees, Locking, Configuring, Issuing, Going, Gone
  <2> QED
    BY <1>1, <2>1, <2>2, <2>3, AgreeInside
<1> QED
  BY <1>3, <1>4, <1>5, <1>6

LEMMA AgreeRenewed ==
    ASSUME WebInv, Agree, NEW p \in Procs,
           \/ W!RenewAttachFails(p) \/ W!RenewPersist(p)
           \/ W!DetachCertificateFails(p) \/ W!DetachForget(p)
    PROVE  Agree'
<1> USE WebConstants
<1>0. SiteTypes /\ WebTypes /\ Carries(p) /\ Agrees(p) /\ Plain
  BY DEF WebInv, Agree, WebTypes, SiteTypes
<1>1. webPc[p] \in Gone /\ webPc[p] \in Locking
  BY DEF W!RenewAttachFails, W!RenewPersist, W!DetachCertificateFails, W!DetachForget, Gone,
         Locking
<1>2. /\ ~webJob[p].prev.tls /\ fw.host /\ webJob[p].prev = fw.attached
      /\ webJob[p].prev \in W!Content /\ webJob[p].prev # W!Unset
  <2>1. webJob[p].prev \in W!Content
    BY <1>0, <1>1 DEF Carries
  <2> QED
    BY <1>0, <1>1, <2>1 DEF Agrees
<1>3. CASE W!RenewAttachFails(p)
  <2>1. webPc[p] = "reattach" /\ UNCHANGED <<file, cert, fw>> /\ W!Return(p, TRUE)
    BY <1>0, <1>3, AttachTypes DEF W!RenewAttachFails
  <2>2. Complete(file)' /\ Plain'
    BY <1>0, <2>1 DEF Agrees, Complete, Plain
  <2> QED
    BY <1>1, <2>1, <2>2, AgreeReturns
<1>4. CASE W!RenewPersist(p)
  <2>1. /\ webPc[p] = "rerecord" /\ UNCHANGED <<file, cert>>
        /\ W!Return(p, TRUE) \/ W!Return(p, FALSE)
        /\ fw' = fw \/ fw' = [fw EXCEPT !.attached = webJob[p].prev]
    BY <1>4 DEF W!RenewPersist, W!site
  <2>2. fw'.host /\ fw'.attached = fw.attached
    BY <1>0, <1>2, <2>1 DEF WebTypes, Framework
  <2>3. Complete(file)' /\ Plain'
    BY <1>0, <1>2, <2>1, <2>2 DEF Complete, Plain, Agrees
  <2> QED
    BY <1>1, <2>1, <2>2, <2>3, AgreeReturns
<1>5. CASE W!DetachCertificateFails(p)
  <2>1. webPc[p] = "delete" /\ UNCHANGED <<cert, fw>> /\ W!Return(p, TRUE)
        /\ (cert \/ file' = file)
    BY <1>5 DEF W!DetachCertificateFails
  <2>2. Complete(file)'
    <3>1. CASE cert
      BY <1>2, <2>1, <3>1, AllThere
    <3>2. CASE ~cert
      BY <1>0, <1>2, <2>1, <3>2 DEF Agrees, Complete
    <3> QED
      BY <3>1, <3>2
  <2>3. Plain'
    BY <1>0, <2>1 DEF Plain
  <2> QED
    BY <1>1, <2>1, <2>2, <2>3, AgreeReturns
<1>6. CASE W!DetachForget(p)
  <2>1. /\ webPc[p] = "forget" /\ UNCHANGED <<file, cert>>
        /\ W!Return(p, TRUE) \/ W!Return(p, FALSE)
        /\ fw' = fw \/ fw' = [fw EXCEPT !.attached = W!Unset]
    BY <1>6 DEF W!DetachForget, W!site
  <2>2. fw'.host /\ fw'.attached \in {fw.attached, W!Unset}
    BY <1>0, <1>2, <2>1 DEF WebTypes, Framework
  <2>3. ~file.tls
    BY <1>0, <1>2, <2>1 DEF Agrees
  <2>4. Complete(file)' /\ Plain'
    BY <1>0, <2>1, <2>2, <2>3 DEF Complete, Plain
  <2> QED
    BY <1>1, <2>1, <2>2, <2>4, AgreeReturns
<1> QED
  BY <1>3, <1>4, <1>5, <1>6

LEMMA AgreeOutside ==
    ASSUME WebInv, Agree, ~clobbered', NEW p \in Procs,
           \/ W!EnsureLoad(p) \/ W!EnsureSave(p)
           \/ \E op \in {"renew", "detach"} : W!ReadPrevious(p, op)
           \/ W!Refused(p) \/ W!RenewCertificateFails(p) \/ W!DetachWriteFails(p)
    PROVE  Agree'
<1> USE WebConstants
<1>0. WebTypes /\ Carries(p) /\ Undoes(p) /\ Agrees(p) /\ Plain
  BY DEF WebInv, Agree
<1>1. webPc[p] \notin Locking /\ webLock # p
  BY <1>0 DEF W!EnsureLoad, W!EnsureSave, W!ReadPrevious, W!Refused, W!RenewCertificateFails,
         W!DetachWriteFails, Agrees, Locking, Configuring, Issuing, Gone
<1>2. Turn(p) /\ UNCHANGED <<file, cert, webLock>>
  BY <1>0, <1>1 DEF W!EnsureLoad, W!EnsureSave, W!ReadPrevious, W!Refused,
         W!RenewCertificateFails, W!DetachWriteFails, W!Return, W!Goto, W!Same, W!site,
         WebTypes, Turn
<1>3. ASSUME NEW op \in {"renew", "detach"}, W!ReadPrevious(p, op)
      PROVE  Agree'
  <2>1. /\ webJob' = [webJob EXCEPT ![p] = [op |-> op, prev |-> fw.attached]]
        /\ webPc' = [webPc EXCEPT ![p] = op] /\ UNCHANGED fw
        /\ fw.host /\ fw.attached # W!Unset
    BY <1>3 DEF W!ReadPrevious, W!Goto, W!site, W!Consumer
  <2>2. webPc'[p] = op /\ webJob'[p].prev = fw.attached /\ op \notin Locking
    BY <1>0, <2>1 DEF WebTypes, Locking, Configuring, Issuing, Gone
  <2>3. ~fw.attached.tls
    BY <1>0, <2>1 DEF Plain
  <2> QED
    BY <1>1, <1>2, <2>1, <2>2, <2>3, AgreeAside
<1>4. CASE W!EnsureLoad(p)
  <2>1. webPc' = [webPc EXCEPT ![p] = "ensure"] /\ UNCHANGED fw
    BY <1>4 DEF W!EnsureLoad, W!Goto
  <2>2. webPc'[p] \notin Locking /\ webPc'[p] \notin Going
    BY <1>0, <2>1 DEF WebTypes, Locking, Configuring, Issuing, Going, Gone
  <2> QED
    BY <1>1, <1>2, <2>1, <2>2, AgreeAside
<1>5. CASE \/ W!EnsureSave(p) \/ W!Refused(p) \/ W!RenewCertificateFails(p)
           \/ W!DetachWriteFails(p)
  <2>1. webPc' = [webPc EXCEPT ![p] = "idle"]
    BY <1>5 DEF W!EnsureSave, W!Refused, W!RenewCertificateFails, W!DetachWriteFails,
         W!Return, W!Goto
  <2>2. webPc'[p] \notin Locking /\ webPc'[p] \notin Going
    BY <1>0, <2>1 DEF WebTypes, Locking, Configuring, Issuing, Going, Gone
  <2>3. fw'.host = fw.host /\ fw'.attached = fw.attached
    <3>1. CASE W!EnsureSave(p)
      <4>1. fw = webJob[p].seen /\ fw' = [webJob[p].seen EXCEPT !.nginx = TRUE]
        BY <3>1 DEF W!EnsureSave
      <4> QED
        BY <1>0, <4>1 DEF WebTypes, Framework
    <3>2. CASE W!Refused(p) \/ W!RenewCertificateFails(p) \/ W!DetachWriteFails(p)
      BY <3>2 DEF W!Refused, W!RenewCertificateFails, W!DetachWriteFails, W!site
    <3> QED
      BY <1>5, <3>1, <3>2
  <2> QED
    BY <1>1, <1>2, <2>2, <2>3, AgreeAside
<1> QED
  BY <1>3, <1>4, <1>5

LEMMA SiteStarts == W!Init => SiteInv
<1> SUFFICES ASSUME W!Init
             PROVE  SiteInv
  OBVIOUS
<1> USE WebConstants
<1>1. Counted
  BY DEF W!Init, Counted
<1>2. Plain /\ Complete(file)
  BY DEF W!Init, W!NoFile, Plain, Complete
<1>3. \A p \in Procs : Agrees(p)
  BY DEF W!Init, Agrees, Locking, Configuring, Issuing, Going, Gone
<1> QED
  BY <1>1, <1>2, <1>3 DEF SiteInv, Agree

\* Every action counts its fault or its crash; a stale save stays one.
LEMMA WebCounts ==
    ASSUME Counted, W!Next
    PROVE  Counted' /\ (CutShort => CutShort')
<1>1. PICK p \in Procs :
        \/ \E port \in Ports : W!ConfigureWrite(p, port)
        \/ \E op \in {"renew", "detach"} : W!ReadPrevious(p, op)
        \/ W!ConfigureLink(p) \/ W!ConfigureCheck(p) \/ W!ConfigureActivate(p)
        \/ W!ConfigurePersist(p) \/ W!RemoveLink(p) \/ W!RemoveFile(p)
        \/ W!EnsureLoad(p) \/ W!EnsureSave(p) \/ W!IssueBegin(p)
        \/ W!IssueCertificate(p) \/ W!IssueAttach(p) \/ W!IssuePersist(p)
        \/ W!Refused(p) \/ W!RenewCertificate(p) \/ W!RenewAttach(p)
        \/ W!DetachWrite(p) \/ W!DetachCertificate(p)
        \/ W!ConfigureLinkFails(p) \/ W!ConfigureCheckFails(p) \/ W!ConfigureActivateFails(p)
        \/ W!ConfigurePersistFails(p) \/ W!IssueCertificateFails(p) \/ W!IssueAttachFails(p)
        \/ W!IssuePersistFails(p) \/ W!RenewCertificateFails(p) \/ W!RenewAttachFails(p)
        \/ W!RenewPersist(p) \/ W!DetachWriteFails(p) \/ W!DetachCertificateFails(p)
        \/ W!DetachForget(p)
        \/ W!Crash(p)
  BY DEF W!Next
<1>2. CASE \/ \E port \in Ports : W!ConfigureWrite(p, port)
           \/ \E op \in {"renew", "detach"} : W!ReadPrevious(p, op)
           \/ W!ConfigureLink(p) \/ W!ConfigureCheck(p) \/ W!ConfigureActivate(p)
           \/ W!ConfigurePersist(p) \/ W!RemoveLink(p) \/ W!RemoveFile(p)
           \/ W!EnsureLoad(p) \/ W!EnsureSave(p) \/ W!IssueBegin(p)
           \/ W!IssueCertificate(p) \/ W!IssueAttach(p) \/ W!IssuePersist(p)
           \/ W!Refused(p) \/ W!RenewCertificate(p) \/ W!RenewAttach(p)
           \/ W!DetachWrite(p) \/ W!DetachCertificate(p)
  <2>1. webFaults' = webFaults
    BY <1>2 DEF W!ConfigureWrite, W!ReadPrevious, W!ConfigureLink, W!ConfigureCheck,
         W!ConfigureActivate, W!ConfigurePersist, W!RemoveLink, W!RemoveFile,
         W!EnsureLoad, W!EnsureSave, W!IssueBegin, W!IssueCertificate, W!IssueAttach,
         W!IssuePersist, W!Refused, W!RenewCertificate, W!RenewAttach, W!DetachWrite,
         W!DetachCertificate, W!Same
  <2>2. webCrashes' = webCrashes
    BY <1>2 DEF W!ConfigureWrite, W!ReadPrevious, W!ConfigureLink, W!ConfigureCheck,
         W!ConfigureActivate, W!ConfigurePersist, W!RemoveLink, W!RemoveFile,
         W!EnsureLoad, W!EnsureSave, W!IssueBegin, W!IssueCertificate, W!IssueAttach,
         W!IssuePersist, W!Refused, W!RenewCertificate, W!RenewAttach, W!DetachWrite,
         W!DetachCertificate, W!Same
  <2>3. clobbered => clobbered'
    BY <1>2 DEF W!ConfigureWrite, W!ReadPrevious, W!ConfigureLink, W!ConfigureCheck,
         W!ConfigureActivate, W!ConfigurePersist, W!RemoveLink, W!RemoveFile,
         W!EnsureLoad, W!EnsureSave, W!IssueBegin, W!IssueCertificate, W!IssueAttach,
         W!IssuePersist, W!Refused, W!RenewCertificate, W!RenewAttach, W!DetachWrite,
         W!DetachCertificate, W!Same
  <2> QED
    BY <2>1, <2>2, <2>3 DEF Counted, CutShort
<1>3. CASE \/ W!ConfigureLinkFails(p) \/ W!ConfigureCheckFails(p) \/ W!ConfigureActivateFails(p)
           \/ W!ConfigurePersistFails(p) \/ W!IssueCertificateFails(p) \/ W!IssueAttachFails(p)
           \/ W!IssuePersistFails(p) \/ W!RenewCertificateFails(p) \/ W!RenewAttachFails(p)
           \/ W!RenewPersist(p) \/ W!DetachWriteFails(p) \/ W!DetachCertificateFails(p)
           \/ W!DetachForget(p)
  <2>1. UNCHANGED <<webCrashes, clobbered>>
    BY <1>3 DEF W!ConfigureLinkFails, W!ConfigureCheckFails, W!ConfigureActivateFails,
         W!ConfigurePersistFails, W!IssueCertificateFails, W!IssueAttachFails,
         W!IssuePersistFails, W!RenewCertificateFails, W!RenewAttachFails,
         W!RenewPersist, W!DetachWriteFails, W!DetachCertificateFails, W!DetachForget
  <2>2. webFaults' = webFaults \/ W!Fault
    BY <1>3 DEF W!ConfigureLinkFails, W!ConfigureCheckFails, W!ConfigureActivateFails,
         W!ConfigurePersistFails, W!IssueCertificateFails, W!IssueAttachFails,
         W!IssuePersistFails, W!RenewCertificateFails, W!RenewAttachFails,
         W!RenewPersist, W!DetachWriteFails, W!DetachCertificateFails, W!DetachForget,
         W!NoFault, W!AttachUndone
  <2> QED
    BY <2>1, <2>2, WebConstants DEF Counted, CutShort, W!Fault
<1>4. CASE W!Crash(p)
  BY <1>4, WebConstants DEF W!Crash, Counted, CutShort
<1> QED
  BY <1>1, <1>2, <1>3, <1>4

LEMMA SiteKeeps ==
    ASSUME WebInv, SiteInv, PreviousIsPresent, W!Next
    PROVE  SiteInv'
<1>1. Counted' /\ (CutShort => CutShort')
  BY WebCounts DEF SiteInv
<1>2. ASSUME ~CutShort'
      PROVE  Agree'
  <2>1. Agree /\ ~clobbered'
    BY <1>1, <1>2 DEF SiteInv, CutShort
  <2>2. ASSUME NEW p \in Procs
        PROVE  ~W!Crash(p)
    <3>1. SUFFICES ASSUME W!Crash(p)
                   PROVE  FALSE
      OBVIOUS
    <3>2. webCrashes' = webCrashes + 1 /\ webCrashes \in Nat
      BY <3>1, WebConstants DEF W!Crash, SiteInv, Counted
    <3> QED
      BY <1>2, <3>2 DEF CutShort
  <2> QED
    BY <2>1, <2>2, AgreeConfigures, AgreeConfigured, AgreeIssues, AgreeIssued, AgreeRenews,
       AgreeRenewed, AgreeOutside DEF W!Next
<1> QED
  BY <1>1, <1>2 DEF SiteInv

LEMMA SiteStutters ==
    ASSUME SiteInv, UNCHANGED web
    PROVE  SiteInv'
<1>1. Counted' /\ CutShort' = CutShort
  BY DEF SiteInv, Counted, CutShort, web
<1>2. ASSUME Agree
      PROVE  Agree'
  <2>1. Plain' /\ (webLock' = NoProc => Complete(file)')
    BY <1>2 DEF Agree, Plain, Complete, web
  <2>2. \A p \in Procs : Agrees(p)'
    BY <1>2 DEF Agree, Agrees, Complete, web
  <2> QED
    BY <2>1, <2>2 DEF Agree
<1> QED
  BY <1>1, <1>2 DEF SiteInv

LEMMA SiteMeans == WebInv /\ SiteInv => SitesConsistent
<1> SUFFICES ASSUME WebInv, SiteInv
             PROVE  SitesConsistent
  OBVIOUS
<1>1. W!TypeOK
  <2>1. ASSUME NEW p \in Procs, webPc[p] # "idle"
        PROVE  "op" \in DOMAIN webJob[p]
    <3>1. Carries(p) /\ webPc[p] \in {"ensure"} \cup Going \cup Locking
      BY <2>1 DEF WebInv, WebTypes
    <3>2. CASE webPc[p] \in Configuring
      BY <3>1, <3>2 DEF Carries
    <3>3. CASE webPc[p] = "unlink" \/ webPc[p] = "ensure"
      BY <3>1, <3>3 DEF Carries
    <3>4. CASE webPc[p] \in Issuing
      BY <3>1, <3>4 DEF Carries
    <3>5. CASE webPc[p] \in Going \cup Gone
      BY <3>1, <3>5 DEF Carries
    <3> QED
      BY <3>1, <3>2, <3>3, <3>4, <3>5 DEF Locking
  <2> QED
    BY <2>1 DEF W!TypeOK, WebInv, WebTypes, Framework, SiteInv, Counted
<1>2. webLock = NoProc /\ webCrashes = 0 /\ ~clobbered => Complete(file)
  BY DEF SiteInv, CutShort, Agree
<1> QED
  BY <1>1, <1>2
     DEF SitesConsistent, W!SitesConsistent, W!SiteNamesItsCertificate, W!SiteIsRecorded,
         Complete

\* Between operations that no crash and no stale save cut short, the certificate
\* a site names is there and a site on disk is recorded as a web host, whichever
\* steps fail, if no attachment changes between a renewal's or a detachment's
\* reading it and its taking the lock (configure_with_node_port, issue, renew,
\* detach).
THEOREM SitesStayConsistent == HostSpec /\ []PreviousIsPresent => []SitesConsistent
<1> DEFINE hosts == <<vars, web, services, about>>
<1>1. HostInit => WebInv /\ SiteInv
  BY WebStarts, SiteStarts DEF HostInit
<1>2. WebInv /\ SiteInv /\ PreviousIsPresent /\ [HostNext]_hosts => WebInv' /\ SiteInv'
  <2>1. CASE HostNext
    BY <2>1, AboutWeb, WebKeeps, WebStutters, SiteKeeps, SiteStutters
  <2>2. CASE UNCHANGED hosts
    BY <2>2, WebStutters, SiteStutters
  <2> QED
    BY <2>1, <2>2
<1> QED
  BY <1>1, <1>2, SiteMeans, PTL DEF HostSpec

\* So what holds of every behaviour of the repositories holds of the host.
LEMMA HostKeepsRepositories == HostSpec => Spec
<1> DEFINE hosts == <<vars, web, services, about>>
<1>1. HostInit => Init
  BY DEF HostInit
<1>2. [HostNext]_hosts => [Next]_vars
  <2>1. HostNext => Next \/ UNCHANGED vars
    BY DEF HostNext, OnlyGit, OnlyWeb, OnlyServices, Next
  <2> QED
    BY <2>1
<1> QED
  BY <1>1, <1>2, PTL DEF HostSpec, Spec
=============================================================================
