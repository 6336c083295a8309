---------------------------- MODULE ControlProofs ----------------------------
(***************************************************************************)
(* Proofs about who asks a node to act.  The fleet, for any number of      *)
(* processes, peers, requests and crashes and any bounds of clock and      *)
(* cache: a signed request is executed at most once and a failed           *)
(* coordination stops, as long as no save overwrites a newer file; what    *)
(* the file records exists, always.  The operator UI, for any browsers,    *)
(* tabs and limits: wrong tokens, sessions and installations stay limited. *)
(* And for any policies: nothing changes a node but through what its       *)
(* interface requires.                                                     *)
(***************************************************************************)
EXTENDS Control, Integers, SequenceTheorems, FiniteSetTheorems, WellFoundedInduction, TLAPS

\* Process p has consumed request r and is about to execute it.
Executing(p, r) == pc[p] = "execute" /\ job[p].request = r

\* Request r has been executed, or is about to be.
Used(r) == executed[r] # 0 \/ \E p \in Procs : Executing(p, r)

Expired(r) == signed[r].expires < now

Verifying(p) == pc[p] = "save" /\ job[p].op = "verify"

\* No nonce has been consumed since process p loaded the file.
UpToDate(p) == job[p].seen.consumed = infra.consumed

\* What the argument needs of the types.
Shapes ==
    /\ DOMAIN pc = Procs /\ DOMAIN job = Procs
    /\ "consumed" \in DOMAIN infra
    /\ executed \in [Requests -> Nat]
    /\ \A r \in Requests : executed[r] # 0 => r \in DOMAIN signed
    /\ now \in Nat
    /\ \A r \in DOMAIN signed : signed[r].expires \in Int
    /\ infra.consumed \subseteq DOMAIN signed
    /\ \A p \in Procs : pc[p] = "save" =>
          /\ "consumed" \in DOMAIN job[p].new
          /\ job[p].seen.consumed \subseteq DOMAIN signed
          /\ job[p].new.consumed \subseteq DOMAIN signed
    /\ \A p \in Procs : Verifying(p) \/ pc[p] = "execute" =>
          job[p].request \in Requests \cap DOMAIN signed

\* A request is executed once, by one process, and its nonce stays in the file
\* until it has expired.
Executions ==
    \A r \in Requests :
        /\ executed[r] <= 1
        /\ \A p \in Procs : Executing(p, r) => executed[r] = 0
        /\ \A p, q \in Procs : Executing(p, r) /\ Executing(q, r) => p = q
        /\ Used(r) => r \in infra.consumed \/ Expired(r)

\* What a process is about to save forgets no nonce that still counts.
Saves ==
    \A p \in Procs : pc[p] = "save" =>
        /\ \A r \in job[p].seen.consumed : r \in infra.consumed \/ Expired(r)
        /\ IF job[p].op = "verify"
           THEN /\ job[p].request \in job[p].new.consumed
                /\ \A r \in job[p].seen.consumed : r \in job[p].new.consumed \/ Expired(r)
           ELSE job[p].new.consumed = job[p].seen.consumed

\* A verification that no other one has overtaken is of an unused request, which
\* no file that anybody has loaded lists.
Verifications ==
    \A p \in Procs : Verifying(p) /\ UpToDate(p) =>
        /\ ~Used(job[p].request)
        /\ \A q \in Procs : pc[q] = "save" => job[p].request \notin job[q].seen.consumed

OnceInv == Shapes /\ (~clobbered => Executions /\ Saves /\ Verifications)

-----------------------------------------------------------------------------
(* The steps by what they do to the argument's state.                      *)

\* Process p loads the file for an operation that leaves the nonces alone.
Loading(p, op, new) ==
    /\ p \in Procs /\ op # "verify"
    /\ "consumed" \in DOMAIN new /\ new.consumed = infra.consumed
    /\ pc' = [pc EXCEPT ![p] = "save"]
    /\ job' = [job EXCEPT ![p] = [op |-> op, seen |-> infra, new |-> new]]
    /\ UNCHANGED <<infra, signed, executed, now, clobbered>>

\* Process p goes where it neither saves nor executes.
Leaving(p, label, work) ==
    /\ p \in Procs /\ label \notin {"save", "execute"}
    /\ pc' = [pc EXCEPT ![p] = label]
    /\ job' = [job EXCEPT ![p] = work]
    /\ UNCHANGED <<infra, signed, executed, now, clobbered>>

Quiet == UNCHANGED <<infra, signed, executed, now, pc, job, clobbered>>

LEMMA QuietKeeps == OnceInv /\ Quiet => OnceInv'
<1> SUFFICES ASSUME OnceInv, Quiet PROVE OnceInv'
  OBVIOUS
<1> USE DEF OnceInv, Quiet
<1>1. Shapes'
  BY DEF Shapes, Verifying
<1>2. Executions' <=> Executions
  BY DEF Executions, Used, Executing, Expired
<1>3. Saves' <=> Saves
  BY DEF Saves, Expired
<1>4. Verifications' <=> Verifications
  BY DEF Verifications, Verifying, UpToDate, Used, Executing
<1> QED
  BY <1>1, <1>2, <1>3, <1>4

LEMMA LoadingKeeps ==
    ASSUME OnceInv, NEW p, NEW op, NEW new, Loading(p, op, new)
    PROVE  OnceInv'
<1> USE DEF OnceInv, Loading
<1>1. /\ pc'[p] = "save" /\ job'[p].op = op
      /\ job'[p].seen = infra /\ job'[p].new = new
  BY DEF Shapes
<1>2. \A q \in Procs \ {p} : pc'[q] = pc[q] /\ job'[q] = job[q]
  BY DEF Shapes
<1>3. Shapes'
  BY <1>1, <1>2 DEF Shapes, Verifying
<1>4. \A q \in Procs, r \in Requests : Executing(q, r)' => Executing(q, r)
  BY <1>1, <1>2 DEF Executing
<1>5. \A r : Used(r)' => Used(r)
  BY <1>1, <1>2 DEF Used, Executing
<1>6. ASSUME ~clobbered PROVE Executions'
  BY <1>4, <1>5, <1>6 DEF Executions, Expired
<1>7. ASSUME ~clobbered PROVE Saves'
  BY <1>1, <1>2, <1>7 DEF Saves, Expired
<1>8. ASSUME ~clobbered PROVE Verifications'
  <2> SUFFICES ASSUME NEW v \in Procs, (Verifying(v) /\ UpToDate(v))'
               PROVE  /\ ~Used(job[v].request)'
                      /\ \A q \in Procs : pc'[q] = "save" =>
                            job'[v].request \notin job'[q].seen.consumed
    BY DEF Verifications
  <2>1. v # p /\ job'[v] = job[v] /\ Verifying(v) /\ UpToDate(v)
    BY <1>1, <1>2 DEF Verifying, UpToDate
  <2>2. ~Used(job[v].request) /\ job[v].request \notin job[v].seen.consumed
    BY <1>8, <2>1 DEF Verifications, Verifying
  <2>3. job[v].request \notin infra.consumed
    BY <2>1, <2>2 DEF UpToDate
  <2> QED
    BY <1>1, <1>2, <1>5, <1>8, <2>1, <2>2, <2>3 DEF Verifications
<1> QED
  BY <1>3, <1>6, <1>7, <1>8

LEMMA LeavingKeeps ==
    ASSUME OnceInv, NEW p, NEW label, NEW work, Leaving(p, label, work)
    PROVE  OnceInv'
<1> USE DEF OnceInv, Leaving
<1>1. pc'[p] = label /\ ~Verifying(p)'
  BY DEF Shapes, Verifying
<1>2. \A q \in Procs \ {p} : pc'[q] = pc[q] /\ job'[q] = job[q]
  BY DEF Shapes
<1>3. Shapes'
  BY <1>1, <1>2 DEF Shapes, Verifying
<1>4. \A q \in Procs : \A r : Executing(q, r)' => Executing(q, r)
  BY <1>1, <1>2 DEF Executing
<1>5. \A r : Used(r)' => Used(r)
  BY <1>4 DEF Used
<1>6. ASSUME ~clobbered PROVE Executions'
  BY <1>4, <1>5, <1>6 DEF Executions, Expired
<1>7. ASSUME ~clobbered PROVE Saves'
  BY <1>1, <1>2, <1>7 DEF Saves, Expired
<1>8. ASSUME ~clobbered PROVE Verifications'
  BY <1>1, <1>2, <1>5, <1>8 DEF Verifications, Verifying, UpToDate
<1> QED
  BY <1>3, <1>6, <1>7, <1>8

\* The clock may turn a request into an expired one, never back; a signature
\* adds a request and leaves the others.
LEMMA ClockKeeps ==
    ASSUME OnceInv, UNCHANGED <<infra, executed, pc, job, clobbered>>,
           now' \in Nat, now <= now',
           DOMAIN signed \subseteq DOMAIN signed',
           \A r \in DOMAIN signed : signed'[r] = signed[r],
           \A r \in DOMAIN signed' : signed'[r].expires \in Int
    PROVE  OnceInv'
<1> USE DEF OnceInv
<1>1. Shapes'
  BY DEF Shapes, Verifying
<1>2. \A r \in DOMAIN signed : Expired(r) => Expired(r)'
  BY DEF Shapes, Expired
<1>3. \A r : Used(r)' <=> Used(r)
  BY DEF Used, Executing
<1>4. \A r \in Requests : Used(r) => r \in DOMAIN signed
  BY DEF Used, Executing, Shapes
<1>5. ASSUME ~clobbered PROVE Saves'
  <2> SUFFICES ASSUME NEW p \in Procs, pc[p] = "save"
               PROVE  /\ \A r \in job[p].seen.consumed : r \in infra.consumed \/ Expired(r)'
                      /\ IF job[p].op = "verify"
                         THEN /\ job[p].request \in job[p].new.consumed
                              /\ \A r \in job[p].seen.consumed :
                                    r \in job[p].new.consumed \/ Expired(r)'
                         ELSE job[p].new.consumed = job[p].seen.consumed
    BY DEF Saves
  <2>1. job[p].seen.consumed \subseteq DOMAIN signed
    BY DEF Shapes
  <2> QED
    BY <1>2, <1>5, <2>1 DEF Saves
<1>6. ASSUME ~clobbered PROVE Verifications'
  BY <1>3, <1>6 DEF Verifications, Verifying, UpToDate
<1>7. ASSUME ~clobbered PROVE Executions'
  BY <1>2, <1>3, <1>4, <1>7 DEF Executions, Executing
<1> QED
  BY <1>1, <1>5, <1>6, <1>7

\* Loading for a request: its nonce is in no file that anybody holds, or the
\* purge or the cache would have refused it.
LEMMA VerifyingKeeps ==
    ASSUME OnceInv, NEW p \in Procs, NEW r \in Requests, VerifyRemoteRequest(p, r)
    PROVE  OnceInv'
<1> DEFINE kept == Purge(infra.consumed)
           new == [infra EXCEPT !.consumed = kept \cup {r}]
<1> USE DEF OnceInv
<1>1. /\ UNCHANGED <<infra, signed, executed, now, clobbered>>
      /\ pc[p] = "idle" /\ r \in DOMAIN signed
      /\ now <= signed[r].expires /\ r \notin kept
      /\ pc' = [pc EXCEPT ![p] = "save"]
      /\ job' = [job EXCEPT ![p] = [op |-> "verify", request |-> r, seen |-> infra,
                                    new |-> new]]
  BY DEF VerifyRemoteRequest, Acceptable, Goto
<1>2. kept \subseteq infra.consumed
  BY DEF Purge
<1>3. /\ "consumed" \in DOMAIN new /\ new.consumed = kept \cup {r}
  BY DEF Shapes
<1> HIDE DEF kept, new
<1>4. /\ pc'[p] = "save" /\ job'[p].op = "verify" /\ job'[p].request = r
      /\ job'[p].seen = infra /\ job'[p].new = new
  BY <1>1 DEF Shapes
<1>5. \A q \in Procs \ {p} : pc'[q] = pc[q] /\ job'[q] = job[q]
  BY <1>1 DEF Shapes
<1>6. Shapes'
  BY <1>1, <1>2, <1>3, <1>4, <1>5 DEF Shapes, Verifying
<1>7. \A q \in Procs : \A s : Executing(q, s)' <=> Executing(q, s)
  BY <1>1, <1>4, <1>5 DEF Executing
<1>8. \A s : Used(s)' <=> Used(s)
  BY <1>1, <1>7 DEF Used
<1>9. \A s \in infra.consumed : s \in kept \/ Expired(s)
  <2> SUFFICES ASSUME NEW s \in infra.consumed, s \notin kept PROVE Expired(s)
    OBVIOUS
  <2>1. ~(signed[s].expires >= now)
    BY DEF kept, Purge
  <2>2. signed[s].expires \in Int /\ now \in Int
    BY DEF Shapes
  <2> QED
    BY <2>1, <2>2 DEF Expired
<1>10. ~Expired(r)
  BY <1>1 DEF Expired, Shapes
<1>11. r \notin infra.consumed
  BY <1>1, <1>9, <1>10
<1>12. ASSUME ~clobbered PROVE Executions'
  BY <1>1, <1>7, <1>8, <1>12 DEF Executions, Expired
<1>13. ASSUME ~clobbered PROVE Saves'
  BY <1>1, <1>3, <1>4, <1>5, <1>9, <1>13 DEF Saves, Expired
<1>14. ASSUME ~clobbered PROVE Verifications'
  <2>1. ~Used(r)
    BY <1>10, <1>11, <1>14 DEF Executions
  <2>2. \A q \in Procs : pc'[q] = "save" => r \notin job'[q].seen.consumed
    BY <1>4, <1>5, <1>10, <1>11, <1>14 DEF Saves
  <2>3. ASSUME NEW v \in Procs \ {p}, (Verifying(v) /\ UpToDate(v))'
        PROVE  /\ ~Used(job'[v].request)
               /\ \A q \in Procs : pc'[q] = "save" =>
                     job'[v].request \notin job'[q].seen.consumed
    <3>1. job'[v] = job[v] /\ Verifying(v) /\ UpToDate(v) /\ pc[v] = "save"
      BY <1>1, <1>5, <2>3 DEF Verifying, UpToDate
    <3>2. ~Used(job[v].request) /\ job[v].request \notin job[v].seen.consumed
      BY <1>14, <3>1 DEF Verifications
    <3>3. job[v].request \notin infra.consumed
      BY <3>1, <3>2 DEF UpToDate
    <3> QED
      BY <1>4, <1>5, <1>14, <3>1, <3>2, <3>3 DEF Verifications
  <2> QED
    BY <1>4, <1>8, <2>1, <2>2, <2>3 DEF Verifications
<1> QED
  BY <1>1, <1>6, <1>12, <1>13, <1>14

\* The execution of a request that is about to be executed.
LEMMA ExecutingKeeps ==
    ASSUME OnceInv, NEW p \in Procs, ExecuteRemoteRequest(p)
    PROVE  OnceInv'
<1>0. PICK r : r = job[p].request
  OBVIOUS
<1> USE DEF OnceInv
<1>1. /\ UNCHANGED <<infra, signed, now, clobbered>>
      /\ Executing(p, r)
      /\ executed' = [executed EXCEPT ![r] = @ + 1]
      /\ pc' = [pc EXCEPT ![p] = "idle"]
      /\ job' = [job EXCEPT ![p] = [op |-> "none"]]
  BY <1>0 DEF ExecuteRemoteRequest, Executing, Goto
<1>2. r \in Requests /\ r \in DOMAIN signed
  BY <1>0, <1>1 DEF Shapes, Executing
<1>3. pc'[p] = "idle"
  BY <1>1 DEF Shapes
<1>4. \A q \in Procs \ {p} : pc'[q] = pc[q] /\ job'[q] = job[q]
  BY <1>1 DEF Shapes
<1>5. /\ executed' \in [Requests -> Nat] /\ executed'[r] = executed[r] + 1
      /\ \A s \in Requests \ {r} : executed'[s] = executed[s]
  BY <1>1, <1>2 DEF Shapes
<1>6. Shapes'
  BY <1>1, <1>2, <1>3, <1>4, <1>5 DEF Shapes, Verifying
<1>7. \A q \in Procs : \A s : Executing(q, s)' => Executing(q, s) /\ q # p
  BY <1>3, <1>4 DEF Executing
<1>8. \A s \in Requests : Used(s)' => Used(s)
  BY <1>1, <1>5, <1>7 DEF Used
<1>9. ASSUME ~clobbered PROVE Executions'
  <2> SUFFICES ASSUME NEW s \in Requests
               PROVE  /\ executed'[s] <= 1
                      /\ \A q \in Procs : Executing(q, s)' => executed'[s] = 0
                      /\ \A q, o \in Procs : Executing(q, s)' /\ Executing(o, s)' => q = o
                      /\ Used(s)' => s \in infra.consumed \/ Expired(s)
    BY <1>1 DEF Executions, Expired
  <2>1. CASE s = r
    <3>1. executed[r] = 0
      BY <1>1, <1>2, <1>9 DEF Executions
    <3>2. \A q \in Procs : ~Executing(q, r)'
      BY <1>1, <1>2, <1>7, <1>9 DEF Executions
    <3> QED
      BY <1>2, <1>5, <1>8, <1>9, <2>1, <3>1, <3>2 DEF Executions
  <2>2. CASE s # r
    BY <1>5, <1>7, <1>8, <1>9, <2>2 DEF Executions
  <2> QED
    BY <2>1, <2>2
<1>10. ASSUME ~clobbered PROVE Saves'
  BY <1>1, <1>3, <1>4, <1>10 DEF Saves, Expired
<1>11. ASSUME ~clobbered PROVE Verifications'
  <2> SUFFICES ASSUME NEW v \in Procs, (Verifying(v) /\ UpToDate(v))'
               PROVE  /\ ~Used(job[v].request)'
                      /\ \A q \in Procs : pc'[q] = "save" =>
                            job'[v].request \notin job'[q].seen.consumed
    BY DEF Verifications
  <2>1. v # p /\ job'[v] = job[v] /\ Verifying(v) /\ UpToDate(v)
    BY <1>1, <1>3, <1>4 DEF Verifying, UpToDate
  <2>2. job[v].request \in Requests
    BY <2>1 DEF Shapes
  <2>3. /\ ~Used(job[v].request)
        /\ \A q \in Procs : pc[q] = "save" => job[v].request \notin job[q].seen.consumed
    BY <1>11, <2>1 DEF Verifications
  <2> QED
    BY <1>3, <1>4, <1>8, <2>1, <2>2, <2>3
<1> QED
  BY <1>1, <1>6, <1>9, <1>10, <1>11

\* A save that overwrites nothing: a verification now counts as used, and every
\* other one that had loaded the file before has been overtaken.
LEMMA SavingKeeps ==
    ASSUME OnceInv, NEW p \in Procs, Save(p)
    PROVE  OnceInv'
<1> DEFINE verify == job[p].op = "verify"
<1>0. PICK r : r = job[p].request
  OBVIOUS
<1> USE DEF OnceInv
<1>1. /\ UNCHANGED <<signed, executed, now>>
      /\ pc[p] = "save" /\ infra' = job[p].new
      /\ clobbered' = (clobbered \/ infra # job[p].seen)
  BY DEF Save
<1>2. /\ pc' = [pc EXCEPT ![p] = IF verify THEN "execute" ELSE "idle"]
      /\ verify => job' = [job EXCEPT ![p] = [op |-> "verify", request |-> @.request]]
      /\ ~verify => job' = [job EXCEPT ![p] = [op |-> "none"]]
  BY DEF Save, Goto
<1>3. /\ pc'[p] = IF verify THEN "execute" ELSE "idle"
      /\ verify => job'[p].request = r
  BY <1>0, <1>2 DEF Shapes
<1>4. \A q \in Procs \ {p} : pc'[q] = pc[q] /\ job'[q] = job[q]
  BY <1>2 DEF Shapes
<1>5. verify => r \in Requests /\ r \in DOMAIN signed
  BY <1>0, <1>1 DEF Shapes, Verifying
<1>6. DOMAIN pc' = Procs /\ DOMAIN job' = Procs
  BY <1>2 DEF Shapes
<1>7. "consumed" \in DOMAIN infra' /\ infra'.consumed \subseteq DOMAIN signed
  BY <1>1 DEF Shapes
<1>8. Shapes'
  BY <1>1, <1>3, <1>4, <1>5, <1>6, <1>7 DEF Shapes, Verifying
<1>9. \A q \in Procs \ {p} : \A s : Executing(q, s)' <=> Executing(q, s)
  BY <1>4 DEF Executing
<1>10. \A s : ~Executing(p, s)
  BY <1>1 DEF Executing
<1> HIDE DEF verify
<1>11. ASSUME ~clobbered', verify
       PROVE  Executions' /\ Saves' /\ Verifications'
  <2>1. ~clobbered /\ infra = job[p].seen
    BY <1>1, <1>11
  <2>2. Verifying(p) /\ UpToDate(p)
    BY <1>1, <1>11, <2>1 DEF Verifying, UpToDate, verify
  <2>3. /\ ~Used(r)
        /\ \A q \in Procs : pc[q] = "save" => r \notin job[q].seen.consumed
    BY <1>0, <2>1, <2>2 DEF Verifications
  <2>4. /\ r \in infra'.consumed
        /\ \A s \in infra.consumed : s \in infra'.consumed \/ Expired(s)
    BY <1>0, <1>1, <1>11, <2>1 DEF Saves, verify
  <2>5. \A s : Executing(p, s)' <=> s = r
    BY <1>3, <1>11 DEF Executing
  <2>6. \A s : s # r => (Used(s)' <=> Used(s))
    BY <1>1, <1>9, <1>10, <2>5 DEF Used
  <2>7. \A q \in Procs \ {p} : ~Executing(q, r)'
    BY <1>9, <2>3 DEF Used
  <2>8. Executions'
    <3> SUFFICES ASSUME NEW s \in Requests
                 PROVE  /\ executed[s] <= 1
                        /\ \A q \in Procs : Executing(q, s)' => executed[s] = 0
                        /\ \A q, o \in Procs : Executing(q, s)' /\ Executing(o, s)' => q = o
                        /\ Used(s)' => s \in infra'.consumed \/ Expired(s)
      BY <1>1 DEF Executions, Expired
    <3>1. CASE s = r
      BY <2>3, <2>4, <2>7, <3>1 DEF Used
    <3>2. CASE s # r
      BY <1>9, <2>1, <2>4, <2>5, <2>6, <3>2 DEF Executions
    <3> QED
      BY <3>1, <3>2
  <2>9. Saves'
    BY <1>1, <1>3, <1>4, <1>11, <2>1, <2>4 DEF Saves, Expired
  <2>10. Verifications'
    <3> SUFFICES ASSUME NEW v \in Procs, (Verifying(v) /\ UpToDate(v))' PROVE FALSE
      BY DEF Verifications
    <3>1. v # p /\ pc[v] = "save" /\ job[v].seen.consumed = infra'.consumed
      BY <1>3, <1>4, <1>11 DEF Verifying, UpToDate
    <3> QED
      BY <2>3, <2>4, <3>1
  <2> QED
    BY <2>8, <2>9, <2>10
<1>12. ASSUME ~clobbered', ~verify
       PROVE  Executions' /\ Saves' /\ Verifications'
  <2>1. ~clobbered /\ infra'.consumed = infra.consumed
    BY <1>1, <1>12 DEF Saves, verify
  <2>2. \A s : ~Executing(p, s)'
    BY <1>3, <1>12 DEF Executing
  <2>3. \A s : Used(s)' <=> Used(s)
    BY <1>1, <1>9, <1>10, <2>2 DEF Used
  <2>4. Executions'
    BY <1>1, <1>9, <2>1, <2>2, <2>3 DEF Executions, Expired
  <2>5. Saves'
    BY <1>1, <1>3, <1>4, <1>12, <2>1 DEF Saves, Expired
  <2>6. Verifications'
    <3> SUFFICES ASSUME NEW v \in Procs, (Verifying(v) /\ UpToDate(v))'
                 PROVE  /\ ~Used(job'[v].request)
                        /\ \A q \in Procs : pc'[q] = "save" =>
                              job'[v].request \notin job'[q].seen.consumed
      BY <2>3 DEF Verifications
    <3>1. v # p /\ job'[v] = job[v] /\ Verifying(v) /\ UpToDate(v)
      BY <1>3, <1>4, <1>12, <2>1 DEF Verifying, UpToDate
    <3> QED
      BY <1>3, <1>4, <1>12, <2>1, <3>1 DEF Verifications
  <2> QED
    BY <2>4, <2>5, <2>6
<1> QED
  BY <1>8, <1>11, <1>12

-----------------------------------------------------------------------------
LEMMA InitOnce == Init => OnceInv
<1> SUFFICES ASSUME Init PROVE OnceInv
  OBVIOUS
<1>1. /\ pc = [p \in Procs |-> "idle"] /\ infra.consumed = {}
      /\ executed = [r \in Requests |-> 0] /\ now = 0 /\ DOMAIN signed = {}
      /\ DOMAIN job = Procs /\ "consumed" \in DOMAIN infra
  BY DEF Init
<1>2. \A p \in Procs : pc[p] = "idle"
  BY <1>1
<1>3. Shapes
  BY <1>1, <1>2 DEF Shapes, Verifying
<1>4. \A r \in Requests : executed[r] = 0 /\ ~Used(r)
  BY <1>1, <1>2 DEF Used, Executing
<1>5. Executions
  BY <1>2, <1>4 DEF Executions, Executing
<1>6. Saves /\ Verifications
  BY <1>2 DEF Saves, Verifications, Verifying
<1> QED
  BY <1>3, <1>5, <1>6 DEF OnceInv

\* The operations that load the file and leave its nonces alone.
LEMMA LoadKeeps ==
    ASSUME OnceInv, NEW p \in Procs, NEW op, NEW new, op # "verify",
           "consumed" \in DOMAIN new, new.consumed = infra.consumed, Load(p, op, new)
    PROVE  OnceInv'
<1>1. Loading(p, op, new)
  BY DEF Load, Goto, Loading
<1> QED
  BY <1>1, LoadingKeeps

LEMMA RegistrationKeeps ==
    ASSUME OnceInv, NEW p \in Procs, NEW n, NEW m, NEW report,
           \/ RegisterNode(p, n) \/ RevokeNode(p, n) \/ CheckNodeHealth(p, n)
           \/ RegisterEndpoint(p, n, m) \/ RegisterMembership(p, n)
           \/ ReportCoordinationMember(p, n, report) \/ ExportEnvironment(p)
    PROVE  OnceInv'
<1>1. "consumed" \in DOMAIN infra
  BY DEF OnceInv, Shapes
<1>2. CASE RegisterNode(p, n)
  <2> DEFINE new == [infra EXCEPT !.trust[n] = "trusted"]
  <2>1. "consumed" \in DOMAIN new /\ new.consumed = infra.consumed
    BY <1>1
  <2>2. Load(p, "register", new)
    BY <1>2 DEF RegisterNode
  <2> HIDE DEF new
  <2> QED
    BY <2>1, <2>2, LoadKeeps
<1>3. CASE RevokeNode(p, n)
  <2> DEFINE new == [infra EXCEPT !.trust[n] = "revoked"]
  <2>1. "consumed" \in DOMAIN new /\ new.consumed = infra.consumed
    BY <1>1
  <2>2. Load(p, "revoke", new)
    BY <1>3 DEF RevokeNode
  <2> HIDE DEF new
  <2> QED
    BY <2>1, <2>2, LoadKeeps
<1>4. CASE CheckNodeHealth(p, n)
  BY <1>1, <1>4, LoadKeeps DEF CheckNodeHealth
<1>5. CASE RegisterEndpoint(p, n, m)
  <2> DEFINE new == [infra EXCEPT !.links = @ \cup {<<n, m>>}]
  <2>1. "consumed" \in DOMAIN new /\ new.consumed = infra.consumed
    BY <1>1
  <2>2. Load(p, "endpoint", new)
    BY <1>5 DEF RegisterEndpoint
  <2> HIDE DEF new
  <2> QED
    BY <2>1, <2>2, LoadKeeps
<1>6. CASE RegisterMembership(p, n)
  <2> DEFINE new == [infra EXCEPT !.links = @ \cup {<<n>>}]
  <2>1. "consumed" \in DOMAIN new /\ new.consumed = infra.consumed
    BY <1>1
  <2>2. Load(p, "membership", new)
    BY <1>6 DEF RegisterMembership
  <2> HIDE DEF new
  <2> QED
    BY <2>1, <2>2, LoadKeeps
<1>7. CASE ReportCoordinationMember(p, n, report)
  <2> DEFINE c == infra.coordination
             members == [c.members EXCEPT ![n] = report]
             new == [infra EXCEPT !.coordination =
                       [status |-> Verdict(c.status, members), members |-> members]]
  <2>1. "consumed" \in DOMAIN new /\ new.consumed = infra.consumed
    BY <1>1
  <2>2. Load(p, "report", new)
    BY <1>7 DEF ReportCoordinationMember
  <2> HIDE DEF new
  <2> QED
    BY <2>1, <2>2, LoadKeeps
<1>8. CASE ExportEnvironment(p)
  <2> DEFINE new == [infra EXCEPT !.exported = TRUE]
  <2>1. "consumed" \in DOMAIN new /\ new.consumed = infra.consumed
    BY <1>1
  <2>2. Load(p, "export", new)
    BY <1>8 DEF ExportEnvironment
  <2> HIDE DEF new
  <2> QED
    BY <2>1, <2>2, LoadKeeps
<1> QED
  BY <1>2, <1>3, <1>4, <1>5, <1>6, <1>7, <1>8

\* The operations that change the host before they save.
LEMMA HostStepKeeps ==
    ASSUME OnceInv, NEW p \in Procs, NEW on, NEW cloned,
           \/ InitializeNode(p) \/ PlanCoordination(p) \/ CreateHostedRepository(p)
           \/ SetPushTrigger(p, on) \/ SyncMirror(p, cloned) \/ RecordImport(p)
    PROVE  OnceInv'
<1>1. "consumed" \in DOMAIN infra
  BY DEF OnceInv, Shapes
<1>2. CASE InitializeNode(p)
  <2> DEFINE new == [infra EXCEPT !.identity = TRUE]
  <2>1. "consumed" \in DOMAIN new /\ new.consumed = infra.consumed
    BY <1>1
  <2>2. Loading(p, "initialize", new)
    BY <1>2, <2>1 DEF InitializeNode, Goto, Loading
  <2> HIDE DEF new
  <2> QED
    BY <2>2, LoadingKeeps
<1>3. CASE PlanCoordination(p)
  <2> DEFINE new == [infra EXCEPT !.coordination =
                       [status |-> "planned",
                        members |-> [n \in job[p].members |->
                                       [status |-> "pending", healthy |-> "unknown"]]]]
  <2>1. "consumed" \in DOMAIN new /\ new.consumed = infra.consumed
    BY <1>1
  <2>2. Loading(p, "begin", new)
    BY <1>3, <2>1 DEF PlanCoordination, Goto, Loading
  <2> HIDE DEF new
  <2> QED
    BY <2>2, LoadingKeeps
<1>4. CASE CreateHostedRepository(p)
  <2> DEFINE new == [infra EXCEPT !.hosted = TRUE]
  <2>1. "consumed" \in DOMAIN new /\ new.consumed = infra.consumed
    BY <1>1
  <2>2. Loading(p, "host", new)
    BY <1>4, <2>1 DEF CreateHostedRepository, Goto, Loading
  <2> HIDE DEF new
  <2> QED
    BY <2>2, LoadingKeeps
<1>5. CASE SetPushTrigger(p, on)
  <2> DEFINE new == [infra EXCEPT !.trigger = on]
  <2>1. "consumed" \in DOMAIN new /\ new.consumed = infra.consumed
    BY <1>1
  <2>2. Loading(p, "trigger", new)
    BY <1>5, <2>1 DEF SetPushTrigger, Goto, Loading
  <2> HIDE DEF new
  <2> QED
    BY <2>2, LoadingKeeps
<1>6. CASE SyncMirror(p, cloned) /\ cloned
  <2> DEFINE new == [infra EXCEPT !.mirrored = TRUE]
  <2>1. "consumed" \in DOMAIN new /\ new.consumed = infra.consumed
    BY <1>1
  <2>2. Loading(p, "mirror", new)
    BY <1>6, <2>1 DEF SyncMirror, Goto, Loading
  <2> HIDE DEF new
  <2> QED
    BY <2>2, LoadingKeeps
<1>7. CASE RecordImport(p)
  <2> DEFINE new == [infra EXCEPT !.imported = job[p].references]
  <2>1. "consumed" \in DOMAIN new /\ new.consumed = infra.consumed
    BY <1>1
  <2>2. Loading(p, "import", new)
    BY <1>7, <2>1 DEF RecordImport, Goto, Loading
  <2> HIDE DEF new
  <2> QED
    BY <2>2, LoadingKeeps
<1>8. CASE SyncMirror(p, cloned) /\ ~cloned
  <2>1. Quiet
    BY <1>8 DEF SyncMirror, Quiet
  <2> QED
    BY <2>1, QuietKeeps
<1> QED
  BY <1>2, <1>3, <1>4, <1>5, <1>6, <1>7, <1>8

\* The steps after which a process neither saves nor executes.
LEMMA LeaveKeeps ==
    ASSUME OnceInv, NEW p \in Procs, NEW members, NEW references,
           BeginCoordination(p, members) \/ ImportEnvironment(p, references) \/ Crash(p)
    PROVE  OnceInv'
<1>1. CASE BeginCoordination(p, members)
  <2>1. Leaving(p, "plan", [op |-> "begin", members |-> members])
    BY <1>1 DEF BeginCoordination, Goto, Leaving
  <2> QED
    BY <2>1, LeavingKeeps
<1>2. CASE ImportEnvironment(p, references)
  <2>1. Leaving(p, "record", [op |-> "import", references |-> references])
    BY <1>2 DEF ImportEnvironment, Goto, Leaving
  <2> QED
    BY <2>1, LeavingKeeps
<1>3. CASE Crash(p)
  <2>1. Leaving(p, "idle", [op |-> "none"])
    BY <1>3 DEF Crash, Goto, Leaving
  <2> QED
    BY <2>1, LeavingKeeps
<1> QED
  BY <1>1, <1>2, <1>3

LEMMA SignKeeps ==
    ASSUME OnceInv, NEW n, SignRemoteRequest(n)
    PROVE  OnceInv'
<1> DEFINE r == Cardinality(DOMAIN signed) + 1
<1>1. PICK expires \in now + 1 .. now + Ttl + 1 :
          signed' = [s \in DOMAIN signed \cup {r} |-> IF s \in DOMAIN signed
                       THEN signed[s] ELSE [origin |-> n, expires |-> expires]]
  BY DEF SignRemoteRequest
<1>2. expires \in Int /\ now \in Nat
  BY DEF OnceInv, Shapes
<1> HIDE DEF r
<1>3. /\ DOMAIN signed' = DOMAIN signed \cup {r}
      /\ \A s \in DOMAIN signed : signed'[s] = signed[s]
      /\ r \notin DOMAIN signed => signed'[r].expires = expires
  BY <1>1
<1>4. \A s \in DOMAIN signed' : signed'[s].expires \in Int
  BY <1>2, <1>3 DEF OnceInv, Shapes
<1>5. UNCHANGED <<infra, executed, now, pc, job, clobbered>>
  BY DEF SignRemoteRequest
<1> QED
  BY <1>2, <1>3, <1>4, <1>5, ClockKeeps

LEMMA TickKeeps == ASSUME OnceInv, Tick PROVE OnceInv'
<1>1. now \in Nat /\ \A r \in DOMAIN signed : signed[r].expires \in Int
  BY DEF OnceInv, Shapes
<1>2. now' \in Nat /\ now <= now'
  BY <1>1 DEF Tick
<1>3. UNCHANGED <<infra, executed, pc, job, clobbered>> /\ signed' = signed
  BY DEF Tick
<1> QED
  BY <1>1, <1>2, <1>3, ClockKeeps

LEMMA NextOnce == OnceInv /\ [Next]_vars => OnceInv'
<1> SUFFICES ASSUME OnceInv, [Next]_vars PROVE OnceInv'
  OBVIOUS
<1>1. ASSUME NEW p \in Procs, NEW n,
             \/ RegisterNode(p, n) \/ RevokeNode(p, n) \/ CheckNodeHealth(p, n)
             \/ RegisterMembership(p, n)
      PROVE  OnceInv'
  BY <1>1, RegistrationKeeps
<1>2. ASSUME NEW p \in Procs, NEW n, NEW m, RegisterEndpoint(p, n, m) PROVE OnceInv'
  BY <1>2, RegistrationKeeps
<1>3. ASSUME NEW p \in Procs, NEW n, NEW report, ReportCoordinationMember(p, n, report)
      PROVE  OnceInv'
  BY <1>3, RegistrationKeeps
<1>4. ASSUME NEW p \in Procs,
             \/ ExportEnvironment(p) \/ InitializeNode(p) \/ PlanCoordination(p)
             \/ CreateHostedRepository(p) \/ RecordImport(p) \/ Crash(p)
      PROVE  OnceInv'
  BY <1>4, RegistrationKeeps, HostStepKeeps, LeaveKeeps
<1>5. ASSUME NEW p \in Procs, NEW on, SetPushTrigger(p, on) \/ SyncMirror(p, on)
      PROVE  OnceInv'
  BY <1>5, HostStepKeeps
<1>6. ASSUME NEW p \in Procs, NEW set, BeginCoordination(p, set) \/ ImportEnvironment(p, set)
      PROVE  OnceInv'
  BY <1>6, LeaveKeeps
<1>7. ASSUME NEW p \in Procs, NEW s, GenerateSecret(p, s) PROVE OnceInv'
  BY <1>7, QuietKeeps DEF GenerateSecret, Quiet
<1>8. ASSUME NEW p \in Procs,
             \/ \E r \in Requests : VerifyRemoteRequest(p, r)
             \/ ExecuteRemoteRequest(p) \/ Save(p)
      PROVE  OnceInv'
  BY <1>8, VerifyingKeeps, ExecutingKeeps, SavingKeeps
<1>9. CASE Tick \/ \E n \in Peers : SignRemoteRequest(n)
  BY <1>9, TickKeeps, SignKeeps
<1>10. CASE UNCHANGED vars
  BY <1>10, QuietKeeps DEF vars, Quiet
<1>11. ASSUME NEW p \in Procs,
              \/ InitializeNode(p)
              \/ \E n \in Peers : RegisterNode(p, n) \/ RevokeNode(p, n) \/ CheckNodeHealth(p, n)
              \/ \E n, m \in Nodes : RegisterEndpoint(p, n, m)
              \/ \E n \in Nodes : RegisterMembership(p, n)
              \/ \E r \in Requests : VerifyRemoteRequest(p, r)
              \/ ExecuteRemoteRequest(p)
              \/ \E members \in SUBSET Nodes : BeginCoordination(p, members)
              \/ PlanCoordination(p)
              \/ \E n \in Nodes, report \in Member : ReportCoordinationMember(p, n, report)
              \/ CreateHostedRepository(p)
              \/ \E on \in BOOLEAN : SetPushTrigger(p, on)
              \/ \E cloned \in BOOLEAN : SyncMirror(p, cloned)
              \/ \E s \in Secrets : GenerateSecret(p, s)
              \/ ExportEnvironment(p)
              \/ \E references \in SUBSET Secrets : ImportEnvironment(p, references)
              \/ RecordImport(p) \/ Save(p) \/ Crash(p)
       PROVE  OnceInv'
  BY <1>1, <1>2, <1>3, <1>4, <1>5, <1>6, <1>7, <1>8, <1>11
<1> QED
  BY <1>9, <1>10, <1>11 DEF Next

\* Whatever is delivered again, in any order, to any number of processes that
\* verify, execute and die: as long as no save overwrites a newer file, a
\* signed request is executed at most once.
THEOREM RequestsRunOnce == Spec => []ExecutedAtMostOnce
<1>1. OnceInv => ExecutedAtMostOnce
  BY DEF OnceInv, Executions, ExecutedAtMostOnce
<1> QED
  BY <1>1, InitOnce, NextOnce, PTL DEF Spec

-----------------------------------------------------------------------------
(* What the file records exists on the host, and what a save may do to a    *)
(* coordination.  Both speak of the file as a process is about to save it:  *)
(* nothing is taken off the host, so it stays backed until the save.        *)

InfraFields == {"identity", "trust", "consumed", "coordination", "links", "hosted",
                "trigger", "mirrored", "exported", "imported"}
HostFields == {"key", "repository", "hook", "mirror", "secrets", "application"}

\* What the state of the file records exists on host h.
Backed(state, h) ==
    /\ state.identity => h.key
    /\ state.hosted => h.repository
    /\ state.trigger => h.hook
    /\ state.mirrored => h.mirror
    /\ state.imported # NoApplication =>
          h.application # NoApplication /\ state.imported \subseteq h.secrets

\* Nothing is taken off the host.
Grows(g, h) ==
    /\ g.key => h.key
    /\ g.repository => h.repository
    /\ g.hook => h.hook
    /\ g.mirror => h.mirror
    /\ g.secrets \subseteq h.secrets
    /\ g.application # NoApplication => h.application # NoApplication

\* After a failure nobody starts, and the failure is not forgotten.
Lawful(c, d) == c.status = "failed" =>
    /\ d.status \in {"failed", "succeeded"}
    /\ \A n \in DOMAIN c.members : c.members[n].status = "pending" =>
          d.members[n].status \in {"pending", "rolled_back"}

\* A process about to save, and one that is about to record an import.
Savable(state, new, h) ==
    /\ InfraFields \subseteq DOMAIN new
    /\ Backed(new, h)
    /\ Lawful(state.coordination, new.coordination)
Imported(references, h) == references \subseteq h.secrets /\ h.application # NoApplication

FileInv ==
    /\ DOMAIN pc = Procs /\ DOMAIN job = Procs
    /\ InfraFields \subseteq DOMAIN infra /\ HostFields \subseteq DOMAIN host
    /\ Backed(infra, host)
    /\ \A p \in Procs : pc[p] = "save" => Savable(job[p].seen, job[p].new, host)
    /\ \A p \in Procs : pc[p] = "record" => Imported(job[p].references, host)

LEMMA Growing ==
    ASSUME NEW g, NEW h, Grows(g, h)
    PROVE  /\ \A state : Backed(state, g) => Backed(state, h)
           /\ \A state, new : Savable(state, new, g) => Savable(state, new, h)
           /\ \A references : Imported(references, g) => Imported(references, h)
BY DEF Backed, Savable, Imported, Grows

\* A step of process p keeps the invariant, if what it leaves in its hands and
\* in the file is all right and the host grows.
LEMMA FileStep ==
    ASSUME FileInv, NEW p \in Procs, Grows(host, host'), HostFields \subseteq DOMAIN host',
           NEW label, NEW work, pc' = [pc EXCEPT ![p] = label],
           job' = [job EXCEPT ![p] = work],
           infra' = infra \/ (pc[p] = "save" /\ infra' = job[p].new),
           label = "save" => Savable(work.seen, work.new, host'),
           label = "record" => Imported(work.references, host')
    PROVE  FileInv'
<1>1. /\ pc'[p] = label /\ job'[p] = work
      /\ \A q \in Procs \ {p} : pc'[q] = pc[q] /\ job'[q] = job[q]
      /\ DOMAIN pc' = Procs /\ DOMAIN job' = Procs
  BY DEF FileInv
<1>2. Backed(infra', host) /\ InfraFields \subseteq DOMAIN infra'
  BY DEF FileInv, Savable
<1>3. Backed(infra', host')
  BY <1>2, Growing
<1>4. ASSUME NEW q \in Procs, pc'[q] = "save"
      PROVE  Savable(job'[q].seen, job'[q].new, host')
  BY <1>1, <1>4, Growing DEF FileInv
<1>5. ASSUME NEW q \in Procs, pc'[q] = "record"
      PROVE  Imported(job'[q].references, host')
  BY <1>1, <1>5, Growing DEF FileInv
<1> QED
  BY <1>1, <1>2, <1>3, <1>4, <1>5 DEF FileInv

\* Loading the file for a change that keeps it backed and lawful.
LEMMA FileLoad ==
    ASSUME FileInv, NEW p \in Procs, Grows(host, host'), HostFields \subseteq DOMAIN host',
           NEW work, work.seen = infra, Savable(infra, work.new, host'),
           pc' = [pc EXCEPT ![p] = "save"], job' = [job EXCEPT ![p] = work],
           infra' = infra
    PROVE  FileInv'
<1>1. "save" # "record"
  OBVIOUS
<1> QED
  BY <1>1, FileStep

LEMMA SameHost == Grows(host, host)
BY DEF Grows

LEMMA LoadFile ==
    ASSUME FileInv, NEW p \in Procs, NEW op, NEW new, Load(p, op, new), Savable(infra, new, host)
    PROVE  FileInv'
<1> DEFINE work == [op |-> op, seen |-> infra, new |-> new]
<1>1. work.seen = infra /\ work.new = new
  OBVIOUS
<1>2. /\ pc' = [pc EXCEPT ![p] = "save"] /\ job' = [job EXCEPT ![p] = work]
      /\ infra' = infra /\ host' = host
  BY DEF Load, Goto
<1>3. HostFields \subseteq DOMAIN host
  BY DEF FileInv
<1> HIDE DEF work
<1> QED
  BY <1>1, <1>2, <1>3, SameHost, FileLoad

\* What leaves every recorded field and the coordination alone may be saved.
LEMMA Alike ==
    ASSUME FileInv, NEW new, InfraFields \subseteq DOMAIN new,
           new.identity = infra.identity, new.hosted = infra.hosted,
           new.trigger = infra.trigger, new.mirrored = infra.mirrored,
           new.imported = infra.imported, new.coordination = infra.coordination
    PROVE  Savable(infra, new, host)
BY DEF FileInv, Savable, Backed, Lawful

LEMMA RegistrationFiles ==
    ASSUME FileInv, NEW p \in Procs, NEW n, NEW m,
           \/ RegisterNode(p, n) \/ RevokeNode(p, n) \/ CheckNodeHealth(p, n)
           \/ RegisterEndpoint(p, n, m) \/ RegisterMembership(p, n) \/ ExportEnvironment(p)
    PROVE  FileInv'
<1> USE DEF InfraFields
<1>1. InfraFields \subseteq DOMAIN infra
  BY DEF FileInv
<1>2. CASE RegisterNode(p, n)
  <2> DEFINE new == [infra EXCEPT !.trust[n] = "trusted"]
  <2>1. Savable(infra, new, host)
    BY <1>1, Alike
  <2>2. Load(p, "register", new)
    BY <1>2 DEF RegisterNode
  <2> HIDE DEF new
  <2> QED
    BY <2>1, <2>2, LoadFile
<1>3. CASE RevokeNode(p, n)
  <2> DEFINE new == [infra EXCEPT !.trust[n] = "revoked"]
  <2>1. Savable(infra, new, host)
    BY <1>1, Alike
  <2>2. Load(p, "revoke", new)
    BY <1>3 DEF RevokeNode
  <2> HIDE DEF new
  <2> QED
    BY <2>1, <2>2, LoadFile
<1>4. CASE CheckNodeHealth(p, n)
  <2>1. Savable(infra, infra, host)
    BY <1>1, Alike
  <2> QED
    BY <1>4, <2>1, LoadFile DEF CheckNodeHealth
<1>5. CASE RegisterEndpoint(p, n, m)
  <2> DEFINE new == [infra EXCEPT !.links = @ \cup {<<n, m>>}]
  <2>1. Savable(infra, new, host)
    BY <1>1, Alike
  <2>2. Load(p, "endpoint", new)
    BY <1>5 DEF RegisterEndpoint
  <2> HIDE DEF new
  <2> QED
    BY <2>1, <2>2, LoadFile
<1>6. CASE RegisterMembership(p, n)
  <2> DEFINE new == [infra EXCEPT !.links = @ \cup {<<n>>}]
  <2>1. Savable(infra, new, host)
    BY <1>1, Alike
  <2>2. Load(p, "membership", new)
    BY <1>6 DEF RegisterMembership
  <2> HIDE DEF new
  <2> QED
    BY <2>1, <2>2, LoadFile
<1>7. CASE ExportEnvironment(p)
  <2> DEFINE new == [infra EXCEPT !.exported = TRUE]
  <2>1. Savable(infra, new, host)
    BY <1>1, Alike
  <2>2. Load(p, "export", new)
    BY <1>7 DEF ExportEnvironment
  <2> HIDE DEF new
  <2> QED
    BY <2>1, <2>2, LoadFile
<1> QED
  BY <1>2, <1>3, <1>4, <1>5, <1>6, <1>7

LEMMA VerifyFiles ==
    ASSUME FileInv, NEW p \in Procs, NEW r, VerifyRemoteRequest(p, r)
    PROVE  FileInv'
<1> DEFINE new == [infra EXCEPT !.consumed = Purge(infra.consumed) \cup {r}]
           work == [op |-> "verify", request |-> r, seen |-> infra, new |-> new]
<1>1. Savable(infra, new, host)
  <2>1. InfraFields \subseteq DOMAIN infra
    BY DEF FileInv
  <2> QED
    BY <2>1, Alike DEF InfraFields
<1>2. /\ pc' = [pc EXCEPT ![p] = "save"] /\ job' = [job EXCEPT ![p] = work]
      /\ infra' = infra /\ host' = host
  BY DEF VerifyRemoteRequest, Goto
<1> HIDE DEF new
<1>3. work.seen = infra /\ work.new = new
  OBVIOUS
<1>4. HostFields \subseteq DOMAIN host
  BY DEF FileInv
<1> HIDE DEF work
<1> QED
  BY <1>1, <1>2, <1>3, <1>4, SameHost, FileLoad

\* The plan comes after no coordination; a report is held to the rules.
LEMMA CoordinationFiles ==
    ASSUME FileInv, NEW p \in Procs, NEW n, NEW report,
           PlanCoordination(p) \/ ReportCoordinationMember(p, n, report)
    PROVE  FileInv'
<1> USE DEF InfraFields
<1>1. InfraFields \subseteq DOMAIN infra /\ HostFields \subseteq DOMAIN host
  BY DEF FileInv
<1>2. CASE PlanCoordination(p)
  <2> DEFINE plan == [status |-> "planned",
                      members |-> [k \in job[p].members |->
                                     [status |-> "pending", healthy |-> "unknown"]]]
             new == [infra EXCEPT !.coordination = plan]
             work == [op |-> "begin", seen |-> infra, new |-> new]
  <2>1. infra.coordination.status # "failed"
    BY <1>2 DEF PlanCoordination, NoCoordination
  <2>2. /\ pc' = [pc EXCEPT ![p] = "save"] /\ job' = [job EXCEPT ![p] = work]
        /\ infra' = infra /\ host' = host
    BY <1>2 DEF PlanCoordination, Goto
  <2>3. work.seen = infra /\ work.new = new
    OBVIOUS
  <2> HIDE DEF plan, work
  <2>4. /\ InfraFields \subseteq DOMAIN new /\ new.coordination = plan
        /\ new.identity = infra.identity /\ new.hosted = infra.hosted
        /\ new.trigger = infra.trigger /\ new.mirrored = infra.mirrored
        /\ new.imported = infra.imported
    BY <1>1
  <2> HIDE DEF new
  <2>5. Savable(infra, new, host)
    BY <2>1, <2>4 DEF FileInv, Savable, Backed, Lawful
  <2> QED
    BY <1>1, <2>2, <2>3, <2>5, SameHost, FileLoad
<1>3. CASE ReportCoordinationMember(p, n, report)
  <2> DEFINE c == infra.coordination
             members == [c.members EXCEPT ![n] = report]
             d == [status |-> Verdict(c.status, members), members |-> members]
             new == [infra EXCEPT !.coordination = d]
  <2>1. n \in DOMAIN c.members /\ MayReport(c, n, report) /\ Load(p, "report", new)
    BY <1>3 DEF ReportCoordinationMember
  <2>2. /\ InfraFields \subseteq DOMAIN new /\ new.coordination = d
        /\ new.identity = infra.identity /\ new.hosted = infra.hosted
        /\ new.trigger = infra.trigger /\ new.mirrored = infra.mirrored
        /\ new.imported = infra.imported
    BY <1>1
  <2>3. ASSUME c.status = "failed" PROVE Verdict(c.status, members) \in {"failed", "succeeded"}
    BY <2>3 DEF Verdict
  <2>4. \A k \in DOMAIN c.members : members[k] = IF k = n THEN report ELSE c.members[k]
    BY <2>1
  <2>5. Lawful(c, d)
    BY <2>1, <2>3, <2>4 DEF Lawful, MayReport
  <2> HIDE DEF d, new
  <2>6. Savable(infra, new, host)
    BY <2>2, <2>5 DEF FileInv, Savable, Backed
  <2> QED
    BY <2>1, <2>6, LoadFile
<1> QED
  BY <1>2, <1>3

\* The operations that put on the host what they are about to record.
LEMMA HostFiles ==
    ASSUME FileInv, NEW p \in Procs, NEW on, NEW cloned,
           \/ InitializeNode(p) \/ CreateHostedRepository(p) \/ SetPushTrigger(p, on)
           \/ SyncMirror(p, cloned)
    PROVE  FileInv'
<1> USE DEF InfraFields, HostFields
<1>1. InfraFields \subseteq DOMAIN infra /\ HostFields \subseteq DOMAIN host
  BY DEF FileInv
<1>2. Backed(infra, host)
  BY DEF FileInv
<1>3. CASE InitializeNode(p)
  <2> DEFINE new == [infra EXCEPT !.identity = TRUE]
             work == [op |-> "initialize", seen |-> infra, new |-> new]
  <2>1. /\ Grows(host, host') /\ HostFields \subseteq DOMAIN host' /\ host'.key
    BY <1>1, <1>3 DEF InitializeNode, Grows
  <2>2. Savable(infra, new, host')
    BY <1>1, <1>2, <2>1, Growing DEF Savable, Backed, Lawful
  <2>3. /\ pc' = [pc EXCEPT ![p] = "save"] /\ job' = [job EXCEPT ![p] = work]
        /\ infra' = infra
    BY <1>3 DEF InitializeNode, Goto
  <2> HIDE DEF new
  <2>4. work.seen = infra /\ work.new = new
    OBVIOUS
  <2> HIDE DEF work
  <2> QED
    BY <2>1, <2>2, <2>3, <2>4, FileLoad
<1>4. CASE CreateHostedRepository(p)
  <2> DEFINE new == [infra EXCEPT !.hosted = TRUE]
             work == [op |-> "host", seen |-> infra, new |-> new]
  <2>1. /\ Grows(host, host') /\ HostFields \subseteq DOMAIN host' /\ host'.repository
    BY <1>1, <1>4 DEF CreateHostedRepository, Grows
  <2>2. Savable(infra, new, host')
    BY <1>1, <1>2, <2>1, Growing DEF Savable, Backed, Lawful
  <2>3. /\ pc' = [pc EXCEPT ![p] = "save"] /\ job' = [job EXCEPT ![p] = work]
        /\ infra' = infra
    BY <1>4 DEF CreateHostedRepository, Goto
  <2> HIDE DEF new
  <2>4. work.seen = infra /\ work.new = new
    OBVIOUS
  <2> HIDE DEF work
  <2> QED
    BY <2>1, <2>2, <2>3, <2>4, FileLoad
<1>5. CASE SetPushTrigger(p, on)
  <2> DEFINE new == [infra EXCEPT !.trigger = on]
             work == [op |-> "trigger", seen |-> infra, new |-> new]
  <2>1. /\ Grows(host, host') /\ HostFields \subseteq DOMAIN host' /\ host'.hook
    BY <1>1, <1>5 DEF SetPushTrigger, Grows
  <2>2. Savable(infra, new, host')
    BY <1>1, <1>2, <2>1, Growing DEF Savable, Backed, Lawful
  <2>3. /\ pc' = [pc EXCEPT ![p] = "save"] /\ job' = [job EXCEPT ![p] = work]
        /\ infra' = infra
    BY <1>5 DEF SetPushTrigger, Goto
  <2> HIDE DEF new
  <2>4. work.seen = infra /\ work.new = new
    OBVIOUS
  <2> HIDE DEF work
  <2> QED
    BY <2>1, <2>2, <2>3, <2>4, FileLoad
<1>6. CASE SyncMirror(p, cloned)
  <2> DEFINE new == [infra EXCEPT !.mirrored = TRUE]
             work == [op |-> "mirror", seen |-> infra, new |-> new]
  <2>1. /\ Grows(host, host') /\ HostFields \subseteq DOMAIN host'
        /\ cloned => host'.mirror
    BY <1>1, <1>6 DEF SyncMirror, Grows
  <2>2. CASE cloned
    <3>1. Savable(infra, new, host')
      BY <1>1, <1>2, <2>1, <2>2, Growing DEF Savable, Backed, Lawful
    <3>2. /\ pc' = [pc EXCEPT ![p] = "save"] /\ job' = [job EXCEPT ![p] = work]
          /\ infra' = infra
      BY <1>6, <2>2 DEF SyncMirror, Goto
    <3> HIDE DEF new
    <3>3. work.seen = infra /\ work.new = new
      OBVIOUS
    <3> HIDE DEF work
    <3> QED
      BY <2>1, <3>1, <3>2, <3>3, FileLoad
  <2>3. CASE ~ cloned
    <3>1. UNCHANGED <<pc, job, infra>>
      BY <1>6, <2>3 DEF SyncMirror
    <3> QED
      BY <1>1, <2>1, <3>1, Growing DEF FileInv
  <2> QED
    BY <2>2, <2>3
<1> QED
  BY <1>3, <1>4, <1>5, <1>6

\* An import finds its secrets and makes the application before it is recorded.
LEMMA ImportFiles ==
    ASSUME FileInv, NEW p \in Procs, NEW references \in SUBSET Secrets,
           ImportEnvironment(p, references) \/ RecordImport(p)
    PROVE  FileInv'
<1> USE DEF InfraFields, HostFields
<1>1. InfraFields \subseteq DOMAIN infra /\ HostFields \subseteq DOMAIN host
  BY DEF FileInv
<1>2. CASE ImportEnvironment(p, references)
  <2> DEFINE work == [op |-> "import", references |-> references]
  <2>1. references # NoApplication
    BY FleetAssumption DEF NoApplication
  <2>2. /\ Grows(host, host') /\ HostFields \subseteq DOMAIN host'
        /\ Imported(references, host')
    BY <1>1, <1>2, <2>1 DEF ImportEnvironment, Grows, Imported
  <2>3. /\ pc' = [pc EXCEPT ![p] = "record"] /\ job' = [job EXCEPT ![p] = work]
        /\ infra' = infra
    BY <1>2 DEF ImportEnvironment, Goto
  <2>4. work.references = references
    OBVIOUS
  <2> HIDE DEF work
  <2>5. "record" # "save"
    OBVIOUS
  <2> QED
    BY <2>2, <2>3, <2>4, <2>5, FileStep
<1>3. CASE RecordImport(p)
  <2> DEFINE new == [infra EXCEPT !.imported = job[p].references]
             work == [op |-> "import", seen |-> infra, new |-> new]
  <2>1. Imported(job[p].references, host) /\ Backed(infra, host)
    BY <1>3 DEF RecordImport, FileInv
  <2>2. Savable(infra, new, host)
    BY <1>1, <2>1 DEF Savable, Backed, Lawful, Imported
  <2>3. /\ pc' = [pc EXCEPT ![p] = "save"] /\ job' = [job EXCEPT ![p] = work]
        /\ infra' = infra /\ host' = host
    BY <1>3 DEF RecordImport, Goto
  <2> HIDE DEF new
  <2>4. work.seen = infra /\ work.new = new
    OBVIOUS
  <2> HIDE DEF work
  <2> QED
    BY <1>1, <2>2, <2>3, <2>4, SameHost, FileLoad
<1> QED
  BY <1>2, <1>3

\* The steps after which a process has nothing to save.
LEMMA LeavingFiles ==
    ASSUME FileInv, NEW p \in Procs, NEW members,
           \/ BeginCoordination(p, members) \/ ExecuteRemoteRequest(p) \/ Save(p) \/ Crash(p)
    PROVE  FileInv'
<1>1. \E label, work :
         /\ pc' = [pc EXCEPT ![p] = label] /\ job' = [job EXCEPT ![p] = work]
         /\ label \notin {"save", "record"} /\ host' = host
         /\ infra' = infra \/ (pc[p] = "save" /\ infra' = job[p].new)
  <2>1. CASE BeginCoordination(p, members)
    <3> DEFINE work == [op |-> "begin", members |-> members]
    <3>1. /\ pc' = [pc EXCEPT ![p] = "plan"] /\ job' = [job EXCEPT ![p] = work]
          /\ infra' = infra /\ host' = host
      BY <2>1 DEF BeginCoordination, Goto
    <3> HIDE DEF work
    <3> WITNESS "plan", work
    <3> QED
      BY <3>1
  <2>2. CASE ExecuteRemoteRequest(p) \/ Crash(p)
    <3> DEFINE work == [op |-> "none"]
    <3>1. /\ pc' = [pc EXCEPT ![p] = "idle"] /\ job' = [job EXCEPT ![p] = work]
          /\ infra' = infra /\ host' = host
      BY <2>2 DEF ExecuteRemoteRequest, Crash, Goto
    <3> HIDE DEF work
    <3> WITNESS "idle", work
    <3> QED
      BY <3>1
  <2>3. CASE Save(p)
    <3> DEFINE done == [op |-> "verify", request |-> job[p].request]
               none == [op |-> "none"]
    <3>1. /\ pc[p] = "save" /\ infra' = job[p].new /\ host' = host
          /\ \/ pc' = [pc EXCEPT ![p] = "execute"] /\ job' = [job EXCEPT ![p] = done]
             \/ /\ pc' = [pc EXCEPT ![p] = "idle"]
                /\ job' = [job EXCEPT ![p] = none]
      BY <2>3 DEF Save, Goto
    <3> HIDE DEF done, none
    <3> QED
      BY <3>1
  <2> QED
    BY <2>1, <2>2, <2>3
<1>2. HostFields \subseteq DOMAIN host
  BY DEF FileInv
<1> QED
  BY <1>1, <1>2, SameHost, FileStep

LEMMA InitFiles == Init => FileInv
<1> SUFFICES ASSUME Init PROVE FileInv
  OBVIOUS
<1>1. /\ DOMAIN pc = Procs /\ DOMAIN job = Procs
      /\ InfraFields \subseteq DOMAIN infra /\ HostFields \subseteq DOMAIN host
      /\ \A p \in Procs : pc[p] = "idle"
  BY DEF Init, InfraFields, HostFields
<1>2. Backed(infra, host)
  BY DEF Init, Backed
<1> QED
  BY <1>1, <1>2 DEF FileInv

LEMMA NextFiles == FileInv /\ [Next]_vars => FileInv'
<1> SUFFICES ASSUME FileInv, [Next]_vars PROVE FileInv'
  OBVIOUS
<1>1. ASSUME NEW p \in Procs, NEW n, NEW m,
             \/ RegisterNode(p, n) \/ RevokeNode(p, n) \/ CheckNodeHealth(p, n)
             \/ RegisterEndpoint(p, n, m) \/ RegisterMembership(p, n) \/ ExportEnvironment(p)
             \/ VerifyRemoteRequest(p, n)
             \/ PlanCoordination(p) \/ ReportCoordinationMember(p, n, m)
      PROVE  FileInv'
  BY <1>1, RegistrationFiles, VerifyFiles, CoordinationFiles
<1>2. ASSUME NEW p \in Procs, NEW on,
             \/ InitializeNode(p) \/ CreateHostedRepository(p) \/ SetPushTrigger(p, on)
             \/ SyncMirror(p, on)
             \/ BeginCoordination(p, on) \/ ExecuteRemoteRequest(p) \/ Save(p) \/ Crash(p)
      PROVE  FileInv'
  BY <1>2, HostFiles, LeavingFiles
<1>3. ASSUME NEW p \in Procs,
             \/ \E references \in SUBSET Secrets : ImportEnvironment(p, references)
             \/ RecordImport(p)
      PROVE  FileInv'
  BY <1>3, ImportFiles
<1>4. ASSUME NEW p \in Procs, NEW s, GenerateSecret(p, s) PROVE FileInv'
  <2>1. /\ Grows(host, host') /\ HostFields \subseteq DOMAIN host'
        /\ UNCHANGED <<pc, job, infra>>
    BY <1>4 DEF GenerateSecret, Grows, FileInv, HostFields
  <2> QED
    BY <2>1, Growing DEF FileInv
<1>5. CASE Tick \/ (\E n \in Peers : SignRemoteRequest(n)) \/ UNCHANGED vars
  BY <1>5 DEF Tick, SignRemoteRequest, vars, FileInv
<1>6. ASSUME NEW p \in Procs,
             \/ InitializeNode(p)
             \/ \E n \in Peers : RegisterNode(p, n) \/ RevokeNode(p, n) \/ CheckNodeHealth(p, n)
             \/ \E n, m \in Nodes : RegisterEndpoint(p, n, m)
             \/ \E n \in Nodes : RegisterMembership(p, n)
             \/ \E r \in Requests : VerifyRemoteRequest(p, r)
             \/ ExecuteRemoteRequest(p)
             \/ \E members \in SUBSET Nodes : BeginCoordination(p, members)
             \/ PlanCoordination(p)
             \/ \E n \in Nodes, report \in Member : ReportCoordinationMember(p, n, report)
             \/ CreateHostedRepository(p)
             \/ \E on \in BOOLEAN : SetPushTrigger(p, on)
             \/ \E cloned \in BOOLEAN : SyncMirror(p, cloned)
             \/ \E s \in Secrets : GenerateSecret(p, s)
             \/ ExportEnvironment(p)
             \/ \E references \in SUBSET Secrets : ImportEnvironment(p, references)
             \/ RecordImport(p) \/ Save(p) \/ Crash(p)
      PROVE  FileInv'
  BY <1>1, <1>2, <1>3, <1>4, <1>6
<1> QED
  BY <1>5, <1>6 DEF Next

\* Whatever infrastructure.json records exists on the host: whichever operations
\* overlap, overwrite each other's saves or die between the change and the save.
THEOREM WhatIsRecordedExists == Spec => []RecordedExists
<1>1. FileInv => RecordedExists
  BY DEF FileInv, Backed, RecordedExists
<1> QED
  BY <1>1, InitFiles, NextFiles, PTL DEF Spec

\* Only a save changes the file.
LEMMA OnlySaves ==
    ASSUME [Next]_vars, infra' # infra
    PROVE  \E p \in Procs : Save(p)
BY DEF Next, vars, InitializeNode, RegisterNode, RevokeNode, CheckNodeHealth,
       RegisterEndpoint, RegisterMembership, Load, VerifyRemoteRequest,
       ExecuteRemoteRequest, BeginCoordination, PlanCoordination,
       ReportCoordinationMember, CreateHostedRepository, SetPushTrigger, SyncMirror,
       GenerateSecret, ExportEnvironment, ImportEnvironment, RecordImport, Crash,
       SignRemoteRequest, Tick

\* A coordination that has failed starts nobody else and stays failed, as long
\* as no save overwrites a newer file.
THEOREM FailuresStopCoordinations == Spec => CoordinationStops
<1>1. ASSUME FileInv, [Next]_vars, ~ clobbered'
      PROVE  Lawful(infra.coordination, infra'.coordination)
  <2>1. CASE infra' = infra
    BY <2>1 DEF Lawful
  <2>2. CASE infra' # infra
    <3>1. PICK p \in Procs : Save(p)
      BY <1>1, <2>2, OnlySaves
    <3>2. pc[p] = "save" /\ infra' = job[p].new /\ infra = job[p].seen
      BY <1>1, <3>1 DEF Save
    <3> QED
      BY <1>1, <3>2 DEF FileInv, Savable
  <2> QED
    BY <2>1, <2>2
<1>2. FileInv /\ [Next]_vars =>
        [LET c == infra.coordination
             d == infra'.coordination
         IN  ~clobbered' /\ c.status = "failed" => \A n \in DOMAIN c.members :
                 c.members[n].status = "pending" =>
                     d.members[n].status \in {"pending", "rolled_back"}]_vars
  BY <1>1 DEF Lawful
<1>3. FileInv /\ [Next]_vars =>
        [~clobbered' /\ infra.coordination.status = "failed" =>
             infra'.coordination.status \in {"failed", "succeeded"}]_vars
  BY <1>1 DEF Lawful
<1> QED
  BY <1>2, <1>3, InitFiles, NextFiles, PTL
     DEF Spec, CoordinationStops, UnstartedMembersStay, FailureIsNotForgotten

-----------------------------------------------------------------------------
(* The operator UI.                                                          *)

UiSessions == [open : BOOLEAN, csrf : Nat, expires : Nat, token : Nat, pending : Nat]

UiTypes ==
    /\ uiNow \in 1..UiTime /\ enabled \in BOOLEAN /\ grants \subseteq I!Grants
    /\ mcpToken \in 0..MaxTokens /\ uiToken \in 0..MaxTokens
    /\ opened \in 0..MaxLogins /\ reviews \in Nat
    /\ sessions \in [I!Ids -> UiSessions] /\ cookie \in [Browsers -> 0..opened]
    /\ login \in [Browsers -> [at : Nat, token : 0..uiToken]]
    /\ \A b \in Browsers : login[b] # I!NoLogin => login[b].token # 0
    /\ failures \in Seq(Nat) /\ wrong \in Seq(Nat) /\ installed \in Seq(Nat)

\* The ids of open sessions were given out, and there are not too many of them.
Rooms ==
    /\ \A i \in I!Live : i <= opened /\ sessions[i].token \in 1..uiToken
    /\ Cardinality(I!Live) <= MaxSessions

\* The throttle remembers the last wrong tokens; those it forgot have left the
\* window, and by no other way.
Throttled ==
    /\ Len(failures) <= Len(wrong) /\ Len(failures) <= LoginFailures
    /\ \A i \in 1..Len(failures) : failures[i] = wrong[Len(wrong) - Len(failures) + i]
    /\ \A i \in 1..(Len(wrong) - Len(failures)) : uiNow - wrong[i] >= LoginWindow
    /\ I!ThrottleHolds

\* A reviewed plan waits in one session and has not been installed.
Waiting ==
    /\ \A i \in I!Ids :
         /\ sessions[i].pending <= reviews
         /\ sessions[i].pending # 0 => \A k \in DOMAIN installed : installed[k] # sessions[i].pending
    /\ \A i, j \in I!Ids : sessions[i].pending = sessions[j].pending /\ i # j => sessions[i].pending = 0
    /\ \A k \in DOMAIN installed : installed[k] \in 1..reviews
    /\ I!ReviewedInstalledOnce

UiInv == UiTypes /\ Rooms /\ Throttled /\ Waiting

-----------------------------------------------------------------------------
\* Interfaces counts as everyone does.
LEMMA Counting == ASSUME NEW S PROVE I!Cardinality(S) = Cardinality(S)
BY DEF I!Cardinality, Cardinality

LEMMA Bounds ==
    /\ MaxSessions \in Nat \ {0} /\ SessionTime \in Nat \ {0} /\ LoginWindow \in Nat \ {0}
    /\ LoginFailures \in Nat \ {0} /\ UiTime \in Nat \ {0}
    /\ MaxTokens \in Nat /\ MaxLogins \in Nat /\ MaxReviews \in Nat
    /\ Policies \subseteq SUBSET I!Grants
BY ControlAssumption DEF I!InterfacesAssumption

\* A nonempty set of numbers has a least one.
LEMMA Least ==
    ASSUME NEW S, S \subseteq Nat, S # {}
    PROVE  \E m \in S : \A n \in S : m <= n
<1> DEFINE R == OpToRel(<, Nat)
<1>1. PICK m \in S : \A n \in S : ~(<<n, m>> \in R)
  <2> HIDE DEF R
  <2>1. IsWellFoundedOn(R, Nat)
    BY NatLessThanWellFounded DEF R
  <2> QED BY <2>1, WFMin
<1>2. R = {ss \in Nat \X Nat : ss[1] < ss[2]}
  BY DEF OpToRel
<1>3. ASSUME NEW n \in S PROVE m <= n
  <2> HIDE DEF R
  <2>1. <<n, m>> \notin R /\ n \in Nat /\ m \in Nat
    BY <1>1
  <2> QED BY <1>2, <2>1
<1> QED BY <1>3

\* Pruning: a front part that has left the window goes.
LEMMA Pruned ==
    ASSUME NEW times \in Seq(Nat), uiNow \in Nat
    PROVE  \E d \in 0..Len(times) :
              /\ I!Prune(times) \in Seq(Nat) /\ Len(I!Prune(times)) = Len(times) - d
              /\ \A i \in 1..(Len(times) - d) : I!Prune(times)[i] = times[d + i]
              /\ \A i \in 1..d : uiNow - times[i] >= LoginWindow
<1> DEFINE Front(n) == /\ \A i \in 1..n : uiNow - times[i] >= LoginWindow
                       /\ n < Len(times) => ~(uiNow - times[n + 1] >= LoginWindow)
           d == CHOOSE n \in 0..Len(times) : Front(n)
<1>1. \E n \in 0..Len(times) : Front(n)
  <2> DEFINE S == {i \in 1..Len(times) : ~(uiNow - times[i] >= LoginWindow)}
  <2>1. CASE S = {}
    <3>1. Front(Len(times))
      BY <2>1
    <3> QED BY <3>1
  <2>2. CASE S # {}
    <3>1. PICK m \in S : \A n \in S : m <= n
      <4>1. S \subseteq Nat
        OBVIOUS
      <4> HIDE DEF S
      <4> QED BY <2>2, <4>1, Least
    <3>2. \A i \in 1..(m - 1) : uiNow - times[i] >= LoginWindow
      BY <3>1
    <3>3. m - 1 \in 0..Len(times) /\ Front(m - 1)
      BY <3>1, <3>2
    <3> HIDE DEF Front
    <3> QED BY <3>3
  <2> QED BY <2>1, <2>2
<1>2. d \in 0..Len(times) /\ Front(d)
  <2> HIDE DEF Front
  <2> QED BY <1>1
<1>3. I!Prune(times) = SubSeq(times, d + 1, Len(times))
  BY DEF I!Prune
<1> HIDE DEF d
<1>4. d + 1 \in Int /\ Len(times) \in Int /\ \A i \in (d + 1) .. Len(times) : times[i] \in Nat
  BY <1>2
<1>5. /\ SubSeq(times, d + 1, Len(times)) \in Seq(Nat)
      /\ Len(SubSeq(times, d + 1, Len(times)))
           = IF d + 1 <= Len(times) THEN Len(times) - (d + 1) + 1 ELSE 0
      /\ \A i \in 1 .. Len(times) - (d + 1) + 1 :
           SubSeq(times, d + 1, Len(times))[i] = times[(d + 1) + i - 1]
  BY <1>4, SubSeqProperties
<1>6. Len(I!Prune(times)) = Len(times) - d
  BY <1>2, <1>3, <1>5
<1>7. \A i \in 1..(Len(times) - d) : I!Prune(times)[i] = times[d + i]
  <2>1. \A i \in 1..(Len(times) - d) : i \in 1 .. Len(times) - (d + 1) + 1 /\ (d + 1) + i - 1 = d + i
    BY <1>2
  <2> QED BY <1>3, <1>5, <2>1
<1> QED BY <1>2, <1>3, <1>5, <1>6, <1>7
-----------------------------------------------------------------------------
(* The table of sessions.                                                    *)

LEMMA NobodysSession ==
    /\ I!NoSession \in UiSessions /\ I!NoSession.open = FALSE /\ I!NoSession.pending = 0
    /\ I!NoSession.token = 0 /\ I!NoSession.expires = 0
BY DEF I!NoSession, UiSessions

LEMMA Tables ==
    ASSUME UiTypes
    PROVE  /\ I!Ids = 1..MaxLogins /\ I!Live \subseteq I!Ids
           /\ \A b \in Browsers : cookie[b] # 0 => cookie[b] \in I!Ids
           /\ IsFiniteSet(I!Live) /\ Cardinality(I!Live) \in Nat
<1>1. I!Ids = 1..MaxLogins /\ I!Live \subseteq I!Ids
  BY DEF I!Ids, I!Live, I!Open
<1>2. IsFiniteSet(1..MaxLogins)
  BY Bounds, FS_Interval
<1>3. IsFiniteSet(I!Live) /\ Cardinality(I!Live) \in Nat
  BY <1>1, <1>2, FS_Subset, FS_CardinalityType
<1>4. \A b \in Browsers : cookie[b] # 0 => cookie[b] \in I!Ids
  BY <1>1, Bounds DEF UiTypes
<1> QED BY <1>1, <1>3, <1>4

\* A session stays or goes.
Fewer(t) == /\ t \in [I!Ids -> UiSessions]
            /\ \A i \in I!Ids : t[i] = sessions[i] \/ t[i] = I!NoSession

LEMMA SessionsLeave ==
    ASSUME UiTypes
    PROVE  /\ \A time : Fewer(I!Unexpired(time))
           /\ \A b \in Browsers : Fewer(I!AfterAuth(b))
           /\ \A i \in I!Ids : Fewer([sessions EXCEPT ![i] = I!NoSession])
<1>1. ASSUME NEW time PROVE Fewer(I!Unexpired(time))
  BY NobodysSession DEF Fewer, I!Unexpired, UiTypes
<1>2. \A i \in I!Ids : Fewer([sessions EXCEPT ![i] = I!NoSession])
  BY NobodysSession DEF Fewer, UiTypes
<1>3. ASSUME NEW b \in Browsers PROVE Fewer(I!AfterAuth(b))
  <2> DEFINE t == I!Unexpired(uiNow)
  <2>1. Fewer(t)
    BY <1>1
  <2> HIDE DEF t
  <2>2. Fewer([t EXCEPT ![cookie[b]] = I!NoSession])
    BY <2>1, NobodysSession DEF Fewer
  <2>3. Fewer(sessions)
    BY DEF Fewer, UiTypes
  <2> QED BY <2>1, <2>2, <2>3 DEF I!AfterAuth, t
<1> QED BY <1>1, <1>2, <1>3

\* A browser that is let in has an open session, which stays, the plan that
\* waits in it aside.
LEMMA LetIn ==
    ASSUME UiTypes, NEW b \in Browsers, I!Auth(b)
    PROVE  /\ cookie[b] \in I!Ids
           /\ sessions[cookie[b]].open /\ I!AfterAuth(b)[cookie[b]] = sessions[cookie[b]]
           /\ I!AfterAuth(b) = I!Unexpired(uiNow)
<1>1. cookie[b] \in I!Ids
  BY Tables DEF I!Auth
<1>2. sessions[cookie[b]].open /\ I!Unexpired(uiNow)[cookie[b]] = sessions[cookie[b]]
  BY <1>1, NobodysSession DEF I!Auth, I!Unexpired
<1>3. I!AfterAuth(b) = I!Unexpired(uiNow)
  BY DEF I!AfterAuth, I!Auth
<1> QED BY <1>1, <1>2, <1>3

LEMMA RoomsStay ==
    ASSUME UiTypes, Rooms, sessions' \in [I!Ids -> UiSessions], opened' = opened,
           uiToken' \in Nat, uiToken' >= uiToken,
           \A i \in I!Ids : sessions'[i].open =>
                sessions[i].open /\ sessions'[i].token = sessions[i].token
    PROVE  Rooms'
<1>1. I!Live' \subseteq I!Live
  BY DEF I!Live, I!Open
<1>2. Cardinality(I!Live') \in Nat /\ Cardinality(I!Live') <= Cardinality(I!Live)
  BY <1>1, Tables, FS_Subset, FS_CardinalityType
<1>3. Cardinality(I!Live') <= MaxSessions
  BY <1>2, Tables, Bounds DEF Rooms
<1>4. \A i \in I!Live' : i <= opened' /\ sessions'[i].token \in 1..uiToken'
  <2> SUFFICES ASSUME NEW i \in I!Live' PROVE i <= opened' /\ sessions'[i].token \in 1..uiToken'
    OBVIOUS
  <2>1. i \in I!Live /\ sessions'[i].token = sessions[i].token
    BY <1>1 DEF I!Live, I!Open, I!Ids
  <2>2. sessions[i].token \in 1..uiToken /\ i <= opened
    BY <2>1 DEF Rooms
  <2> QED BY <2>1, <2>2, Bounds DEF UiTypes
<1> QED BY <1>3, <1>4 DEF Rooms

LEMMA WaitingStays ==
    ASSUME UiTypes, Waiting, sessions' \in [I!Ids -> UiSessions], installed' = installed,
           reviews' = reviews,
           \A i \in I!Ids : sessions'[i].pending \in {0, sessions[i].pending}
    PROVE  Waiting'
<1>1. I!Ids' = I!Ids
  BY DEF I!Ids
<1>2. (\A k \in DOMAIN installed' : installed'[k] \in 1..reviews') /\ I!ReviewedInstalledOnce'
  BY DEF Waiting, I!ReviewedInstalledOnce
<1>3. ASSUME NEW i \in I!Ids
      PROVE  /\ sessions'[i].pending <= reviews'
             /\ sessions'[i].pending # 0 =>
                  \A k \in DOMAIN installed' : installed'[k] # sessions'[i].pending
  <2>1. CASE sessions'[i].pending = 0
    BY <2>1 DEF UiTypes
  <2>2. CASE sessions'[i].pending = sessions[i].pending
    BY <2>2 DEF Waiting
  <2> QED BY <2>1, <2>2
<1>4. ASSUME NEW i \in I!Ids, NEW j \in I!Ids, sessions'[i].pending = sessions'[j].pending, i # j
      PROVE  sessions'[i].pending = 0
  <2>1. CASE sessions'[i].pending = 0
    BY <2>1
  <2>2. CASE sessions'[i].pending = sessions[i].pending /\ sessions'[j].pending = sessions[j].pending
    BY <1>4, <2>2 DEF Waiting
  <2> QED BY <1>4, <2>1, <2>2
<1> QED BY <1>1, <1>2, <1>3, <1>4 DEF Waiting

\* Making room for a session.
LEMMA OneLess ==
    ASSUME UiTypes, Rooms, NEW t, Fewer(t)
    PROVE  /\ Fewer(I!EvictOldest(t))
           /\ LET left == I!Open(I!EvictOldest(t))
              IN  left \subseteq I!Live /\ IsFiniteSet(left) /\ Cardinality(left) < MaxSessions
<1> DEFINE open == I!Open(t)
           First(i) == \A j \in open : t[i].expires <= t[j].expires
           oldest == I!Oldest(t)
           left == I!Open(I!EvictOldest(t))
<1>1. open \subseteq I!Live /\ IsFiniteSet(open) /\ Cardinality(open) \in Nat
      /\ Cardinality(open) <= MaxSessions
  <2>1. open \subseteq I!Live
    BY NobodysSession DEF Fewer, I!Live, I!Open
  <2> HIDE DEF open
  <2>2. IsFiniteSet(open) /\ Cardinality(open) \in Nat /\ Cardinality(open) <= Cardinality(I!Live)
    BY <2>1, Tables, FS_Subset, FS_CardinalityType
  <2> QED BY <2>1, <2>2, Bounds, Tables DEF Rooms
<1>2. CASE Cardinality(open) >= MaxSessions
  <2>1. open # {}
    BY <1>1, <1>2, Bounds, FS_EmptySet
  <2>2. \E i \in open : First(i)
    <3> DEFINE S == {t[i].expires : i \in open}
    <3>1. S \subseteq Nat /\ S # {}
      BY <2>1 DEF Fewer, UiSessions, I!Open
    <3>2. PICK m \in S : \A n \in S : m <= n
      <4> HIDE DEF S
      <4> QED BY <3>1, Least
    <3>3. PICK i \in open : m = t[i].expires
      BY <3>2
    <3>4. First(i)
      BY <3>2, <3>3
    <3> HIDE DEF open, First
    <3> QED BY <3>3, <3>4
  <2>3. oldest \in open
    <3>1. oldest = CHOOSE i \in open : First(i)
      BY DEF I!Oldest
    <3> HIDE DEF open, First, oldest
    <3> QED BY <2>2, <3>1
  <2>4. I!EvictOldest(t) = [t EXCEPT ![oldest] = I!NoSession]
    BY <1>2, Counting DEF I!EvictOldest
  <2> HIDE DEF oldest
  <2>5. oldest \in I!Ids
    BY <2>3 DEF I!Open
  <2>6. Fewer(I!EvictOldest(t))
    BY <2>4, <2>5, NobodysSession DEF Fewer
  <2>7. left = open \ {oldest}
    BY <2>4, <2>5, NobodysSession DEF Fewer, I!Open
  <2> HIDE DEF open, left
  <2>8. IsFiniteSet(left) /\ Cardinality(left) = Cardinality(open) - 1
    BY <1>1, <2>3, <2>7, FS_RemoveElement
  <2> QED BY <1>1, <1>2, <2>6, <2>7, <2>8, Bounds DEF left
<1>3. CASE ~(Cardinality(open) >= MaxSessions)
  <2>1. I!EvictOldest(t) = t
    BY <1>3, Counting DEF I!EvictOldest
  <2> QED BY <1>1, <1>3, <2>1, Bounds
<1> QED BY <1>2, <1>3

-----------------------------------------------------------------------------
(* The login throttle.                                                       *)

LEMMA ThrottleStays ==
    ASSUME UiTypes, Throttled, failures' = failures, wrong' = wrong, uiNow' \in Nat, uiNow' >= uiNow
    PROVE  Throttled'
<1>1. I!ThrottleHolds'
  BY DEF Throttled, I!ThrottleHolds
<1>2. ASSUME NEW i \in 1..(Len(wrong) - Len(failures)) PROVE uiNow' - wrong[i] >= LoginWindow
  <2>1. wrong \in Seq(Nat) /\ Len(failures) \in Nat /\ uiNow \in Nat /\ uiNow - wrong[i] >= LoginWindow
    BY Bounds DEF Throttled, UiTypes
  <2>2. wrong[i] \in Nat
    BY <2>1, Bounds
  <2> QED BY <2>1, <2>2, Bounds
<1> QED BY <1>1, <1>2 DEF Throttled

\* A wrong token more: of what is within its window nothing was forgotten.
LEMMA ThrottleRecords ==
    ASSUME UiTypes, Throttled, NEW b \in Browsers, I!LoginFails(b)
    PROVE  Throttled' /\ failures' \in Seq(Nat) /\ wrong' \in Seq(Nat)
<1> DEFINE w == wrong
           n == Len(wrong)
           m == Len(failures)
           P == I!Prune(failures)
<1>1. uiNow \in Nat /\ failures \in Seq(Nat) /\ w \in Seq(Nat) /\ n \in Nat /\ m \in Nat /\ m <= n
  BY Bounds DEF UiTypes, Throttled
<1>2. PICK d \in 0..m :
        /\ P \in Seq(Nat) /\ Len(P) = m - d
        /\ \A i \in 1..(m - d) : P[i] = failures[d + i]
        /\ \A i \in 1..d : uiNow - failures[i] >= LoginWindow
  BY <1>1, Pruned
<1>3. failures' = Append(P, uiNow) /\ wrong' = Append(w, uiNow) /\ uiNow' = uiNow
      /\ Len(P) < LoginFailures
  BY <1>2, Bounds DEF I!LoginFails, I!Limited
<1>4. \A i \in 1..m : failures[i] = w[n - m + i]
  BY DEF Throttled
<1>5. \A i \in 1..(n - m) : uiNow - w[i] >= LoginWindow
  BY DEF Throttled
<1>6. \A i \in 1..n : Cardinality({j \in 1..n : j <= i /\ w[i] - w[j] < LoginWindow}) <= LoginFailures
  <2>1. DOMAIN wrong = 1..n
    BY <1>1
  <2> QED BY <2>1, Counting DEF Throttled, I!ThrottleHolds
<1> HIDE DEF w, n, m, P
<1>7. failures' \in Seq(Nat) /\ Len(failures') = m - d + 1 /\ failures'[m - d + 1] = uiNow
      /\ \A i \in 1..(m - d) : failures'[i] = P[i]
  BY <1>1, <1>2, <1>3
<1>8. wrong' \in Seq(Nat) /\ Len(wrong') = n + 1 /\ wrong'[n + 1] = uiNow
      /\ \A i \in 1..n : wrong'[i] = w[i]
  BY <1>1, <1>3 DEF w, n
<1>9. \A i \in 1..(n - m + d) : uiNow - w[i] >= LoginWindow
  <2> SUFFICES ASSUME NEW i \in 1..(n - m + d), ~(i \in 1..(n - m)) PROVE uiNow - w[i] >= LoginWindow
    BY <1>5
  <2>1. i - (n - m) \in 1..d /\ n - m + (i - (n - m)) = i /\ i - (n - m) \in 1..m
    BY <1>1
  <2>2. w[i] = failures[i - (n - m)]
    BY <1>4, <2>1
  <2> QED BY <1>2, <2>1, <2>2
<1>10. Len(wrong') - Len(failures') = n - m + d
  BY <1>1, <1>7, <1>8
<1>11. \A i \in 1..Len(failures') : failures'[i] = wrong'[Len(wrong') - Len(failures') + i]
  <2> SUFFICES ASSUME NEW i \in 1..(m - d + 1) PROVE failures'[i] = wrong'[n - m + d + i]
    BY <1>7, <1>10
  <2>1. CASE i = m - d + 1
    <3>1. n - m + d + i = n + 1
      BY <1>1, <2>1
    <3> QED BY <1>7, <1>8, <2>1, <3>1
  <2>2. CASE i \in 1..(m - d)
    <3>1. d + i \in 1..m /\ n - m + (d + i) = n - m + d + i /\ n - m + d + i \in 1..n
      BY <1>1, <2>2
    <3>2. failures'[i] = failures[d + i]
      BY <1>2, <1>7, <2>2
    <3>3. failures[d + i] = w[n - m + d + i]
      BY <1>4, <3>1
    <3> QED BY <1>8, <3>1, <3>2, <3>3
  <2> QED BY <1>1, <2>1, <2>2
<1>12. \A i \in 1..(Len(wrong') - Len(failures')) : uiNow' - wrong'[i] >= LoginWindow
  <2> SUFFICES ASSUME NEW i \in 1..(n - m + d) PROVE uiNow - wrong'[i] >= LoginWindow
    BY <1>3, <1>10
  <2>1. i \in 1..n
    BY <1>1
  <2> QED BY <1>8, <1>9, <2>1
<1>13. Len(failures') <= Len(wrong') /\ Len(failures') <= LoginFailures
  BY <1>1, <1>2, <1>3, <1>7, <1>8, Bounds
<1>14. I!ThrottleHolds'
  <2> SUFFICES ASSUME NEW i \in 1..(n + 1)
               PROVE  Cardinality({j \in 1..(n + 1) : j <= i /\ wrong'[i] - wrong'[j] < LoginWindow})
                        <= LoginFailures
    BY <1>8, Counting DEF I!ThrottleHolds
  <2> DEFINE S == {j \in 1..(n + 1) : j <= i /\ wrong'[i] - wrong'[j] < LoginWindow}
  <2>1. CASE i \in 1..n
    <3>1. \A j \in 1..(n + 1) : j <= i => j \in 1..n
      BY <1>1, <2>1
    <3>2. 1..n \subseteq 1..(n + 1)
      BY <1>1
    <3>3. \A j \in 1..n : wrong'[i] - wrong'[j] = w[i] - w[j]
      BY <1>8, <2>1
    <3>4. S = {j \in 1..n : j <= i /\ w[i] - w[j] < LoginWindow}
      BY <3>1, <3>2, <3>3
    <3> QED BY <1>6, <2>1, <3>4
  <2>2. CASE i = n + 1
    <3>1. S \subseteq (n - m + d + 1)..(n + 1)
      <4>1. ASSUME NEW j \in 1..n, uiNow - w[j] < LoginWindow PROVE j \in (n - m + d + 1)..(n + 1)
        <5>1. w[j] \in Nat
          BY <1>1 DEF w, n
        <5>2. ~(uiNow - w[j] >= LoginWindow)
          BY <1>1, <4>1, <5>1, Bounds
        <5>3. ~(j \in 1..(n - m + d))
          BY <1>9, <5>2
        <5> QED BY <1>1, <5>3
      <4>2. n + 1 \in (n - m + d + 1)..(n + 1)
        BY <1>1
      <4>3. ASSUME NEW j \in S PROVE j \in (n - m + d + 1)..(n + 1)
        <5>1. CASE j = n + 1
          BY <4>2, <5>1
        <5>2. CASE j # n + 1
          <6>1. j \in 1..n
            BY <1>1, <5>2
          <6> QED BY <1>8, <2>2, <4>1, <6>1
        <5> QED BY <5>1, <5>2
      <4> QED BY <4>3
    <3>2. IsFiniteSet((n - m + d + 1)..(n + 1))
          /\ Cardinality((n - m + d + 1)..(n + 1)) = m - d + 1
      <4>1. n - m + d + 1 \in Int /\ n + 1 \in Int /\ n - m + d + 1 <= n + 1
            /\ (n + 1) - (n - m + d + 1) + 1 = m - d + 1
        BY <1>1
      <4> QED BY <4>1, FS_Interval
    <3> HIDE DEF S
    <3>3. Cardinality(S) \in Nat /\ Cardinality(S) <= m - d + 1
      BY <3>1, <3>2, FS_Subset, FS_CardinalityType
    <3>4. m - d + 1 <= LoginFailures
      BY <1>7, <1>13
    <3> QED BY <1>1, <3>3, <3>4, Bounds DEF S
  <2> QED BY <1>1, <2>1, <2>2
<1> QED BY <1>7, <1>8, <1>11, <1>12, <1>13, <1>14 DEF Throttled

-----------------------------------------------------------------------------
(* The steps.                                                                *)

LEMMA CommandKeeps ==
    ASSUME UiInv, UNCHANGED <<uiNow, I!ui>>,
           enabled' \in BOOLEAN, grants' \in SUBSET I!Grants, mcpToken' \in 0..MaxTokens
    PROVE  UiInv'
<1>1. UiTypes'
  BY DEF I!ui, UiInv, UiTypes, I!NoLogin
<1>2. Rooms'
  BY DEF I!ui, UiInv, Rooms, I!Live, I!Open
<1>3. Throttled'
  BY DEF I!ui, UiInv, Throttled, I!ThrottleHolds
<1>4. Waiting'
  BY DEF I!ui, UiInv, Waiting, I!ReviewedInstalledOnce
<1> QED BY <1>1, <1>2, <1>3, <1>4 DEF UiInv

LEMMA UiClockKeeps == ASSUME UiInv, I!Tick \/ I!RotateUiToken PROVE UiInv'
<1> USE Bounds
<1>1. UiTypes'
  <2>1. CASE I!Tick
    BY <2>1 DEF I!Tick, I!ui, I!mcp, UiInv, UiTypes, I!NoLogin
  <2>2. CASE I!RotateUiToken
    <3>1. uiToken' \in 0..MaxTokens /\ 0..uiToken \subseteq 0..uiToken'
      BY <2>2 DEF I!RotateUiToken, UiInv, UiTypes
    <3>2. login' \in [Browsers -> [at : Nat, token : 0..uiToken']]
      BY <2>2, <3>1 DEF I!RotateUiToken, UiInv, UiTypes
    <3> QED BY <2>2, <3>1, <3>2 DEF I!RotateUiToken, I!mcp, UiInv, UiTypes, I!NoLogin
  <2> QED BY <2>1, <2>2
<1>2. Rooms'
  BY RoomsStay DEF I!Tick, I!RotateUiToken, I!ui, UiInv, UiTypes
<1>3. Throttled'
  BY ThrottleStays DEF I!Tick, I!RotateUiToken, I!ui, UiInv, UiTypes
<1>4. Waiting'
  BY WaitingStays DEF I!Tick, I!RotateUiToken, I!ui, UiInv, UiTypes
<1> QED BY <1>1, <1>2, <1>3, <1>4 DEF UiInv

LEMMA WrongTokenKeeps == ASSUME UiInv, NEW b \in Browsers, I!LoginFails(b) PROVE UiInv'
<1> USE Bounds
<1>1. Throttled' /\ failures' \in Seq(Nat) /\ wrong' \in Seq(Nat)
  BY ThrottleRecords DEF UiInv
<1>2. UiTypes'
  BY <1>1 DEF I!LoginFails, I!mcp, UiInv, UiTypes, I!NoLogin
<1>3. Rooms'
  BY RoomsStay DEF I!LoginFails, UiInv, UiTypes
<1>4. Waiting'
  BY WaitingStays DEF I!LoginFails, UiInv, UiTypes
<1> QED BY <1>1, <1>2, <1>3, <1>4 DEF UiInv

LEMMA RightTokenKeeps == ASSUME UiInv, NEW b \in Browsers, I!LoginVerified(b) PROVE UiInv'
<1> USE Bounds
<1>1. UiTypes'
  BY DEF I!LoginVerified, I!mcp, UiInv, UiTypes, I!NoLogin
<1>2. Rooms'
  BY RoomsStay DEF I!LoginVerified, UiInv, UiTypes
<1>3. Throttled'
  BY DEF I!LoginVerified, Throttled, I!ThrottleHolds
<1>4. Waiting'
  BY WaitingStays DEF I!LoginVerified, UiInv, UiTypes
<1> QED BY <1>1, <1>2, <1>3, <1>4 DEF UiInv

\* Sessions stay or go, and nothing else but the cookie changes.
LEMMA FewerKeeps ==
    ASSUME UiInv, Fewer(sessions'), cookie' \in [Browsers -> 0..opened],
           UNCHANGED <<uiNow, I!mcp, uiToken, opened, failures, login, reviews, installed, wrong>>
    PROVE  UiInv'
<1> USE Bounds, NobodysSession
<1>1. UiTypes'
  BY DEF I!mcp, UiInv, UiTypes, I!NoLogin, Fewer
<1>2. Rooms'
  <2>1. \A i \in I!Ids : sessions'[i].open =>
               sessions[i].open /\ sessions'[i].token = sessions[i].token
    BY DEF Fewer
  <2> QED BY <2>1, RoomsStay DEF UiInv, UiTypes, Fewer
<1>3. Throttled'
  BY ThrottleStays DEF UiInv, UiTypes
<1>4. Waiting'
  BY WaitingStays DEF UiInv, UiTypes, Fewer
<1> QED BY <1>1, <1>2, <1>3, <1>4 DEF UiInv

LEMMA RequestKeeps ==
    ASSUME UiInv, NEW b \in Browsers, NEW op, NEW n,
           \/ I!Logout(b) \/ I!TurnedAway(b) \/ I!OpenPage(b, op) \/ I!PlanCatalogInstall(b)
           \/ I!SubmitForm(b, op, n) \/ I!GitSmartHttp(b, op, n)
    PROVE  UiInv'
<1>1. CASE I!Logout(b)
  <2>1. Fewer(sessions')
    BY <1>1, SessionsLeave, Tables DEF I!Logout, UiInv
  <2> QED BY <1>1, <2>1, FewerKeeps DEF I!Logout, UiInv, UiTypes
<1>2. CASE ~I!Logout(b)
  <2>1. Fewer(sessions')
    BY <1>2, SessionsLeave DEF I!TurnedAway, I!OpenPage, I!PlanCatalogInstall, I!SubmitForm,
                               I!GitSmartHttp, UiInv
  <2> QED
    BY <1>2, <2>1, FewerKeeps DEF I!TurnedAway, I!OpenPage, I!PlanCatalogInstall, I!SubmitForm,
                                  I!GitSmartHttp, UiInv, UiTypes
<1> QED BY <1>1, <1>2

\* A session more, in the place of the next id.
LEMMA LoginKeeps == ASSUME UiInv, NEW b \in Browsers, I!LoginOpens(b) PROVE UiInv'
<1> USE Bounds
<1> DEFINE t == I!EvictOldest(I!Unexpired(login[b].at))
           id == opened + 1
           new == [ open |-> TRUE, csrf |-> id, expires |-> login[b].at + SessionTime,
                    token |-> login[b].token, pending |-> 0 ]
<1>1. /\ sessions' = [t EXCEPT ![id] = new] /\ opened' = id /\ id \in 1..MaxLogins
      /\ cookie' = [cookie EXCEPT ![b] = id] /\ login' = [login EXCEPT ![b] = I!NoLogin]
      /\ opened \in Nat /\ id \in I!Ids
  BY DEF I!LoginOpens, UiInv, UiTypes, I!Ids
<1>2. Fewer(t) /\ I!Open(t) \subseteq I!Live /\ IsFiniteSet(I!Open(t))
      /\ Cardinality(I!Open(t)) < MaxSessions
  BY SessionsLeave, OneLess DEF UiInv
<1>3. new \in UiSessions /\ new.open /\ new.token \in 1..uiToken /\ new.pending = 0
  BY <1>1 DEF I!LoginOpens, UiInv, UiTypes, UiSessions
<1> HIDE DEF t, id, new
<1>4. /\ sessions' \in [I!Ids -> UiSessions] /\ sessions'[id] = new
      /\ \A i \in I!Ids : i # id => sessions'[i] = t[i]
  BY <1>1, <1>2, <1>3 DEF Fewer
<1>5. UiTypes'
  <2>1. cookie' \in [Browsers -> 0..opened']
    BY <1>1 DEF UiInv, UiTypes, id
  <2>2. I!NoLogin \in [at : Nat, token : 0..uiToken]
    BY DEF I!NoLogin, UiInv, UiTypes
  <2>3. login' \in [Browsers -> [at : Nat, token : 0..uiToken']]
        /\ \A c \in Browsers : login'[c] # I!NoLogin => login'[c].token # 0
    BY <1>1, <2>2 DEF I!LoginOpens, UiInv, UiTypes
  <2>4. I!NoLogin' = I!NoLogin /\ I!Ids' = I!Ids
    BY DEF I!NoLogin, I!Ids
  <2> QED BY <1>1, <1>4, <2>1, <2>3, <2>4 DEF I!LoginOpens, I!mcp, UiInv, UiTypes
<1>6. Rooms'
  <2>1. I!Live' = I!Open(t) \cup {id}
    BY <1>1, <1>3, <1>4 DEF I!Live, I!Open, I!Ids
  <2>2. Cardinality(I!Live') <= MaxSessions
    <3>1. id \notin I!Open(t)
      BY <1>1, <1>2 DEF UiInv, Rooms, id
    <3>2. Cardinality(I!Open(t) \cup {id}) = Cardinality(I!Open(t)) + 1
      BY <1>2, <3>1, FS_AddElement
    <3> QED BY <1>2, <2>1, <3>2, FS_CardinalityType
  <2>3. ASSUME NEW i \in I!Open(t) PROVE i <= opened' /\ sessions'[i].token \in 1..uiToken'
    <3>1. i \in I!Ids /\ i <= opened /\ sessions[i].token \in 1..uiToken /\ t[i].open
      BY <1>2 DEF UiInv, Rooms, I!Open
    <3>2. sessions'[i].token = sessions[i].token
      BY <1>1, <1>2, <1>4, <3>1, NobodysSession DEF Fewer, id
    <3> QED BY <1>1, <3>1, <3>2 DEF I!LoginOpens, id, I!Ids
  <2>4. id <= opened' /\ sessions'[id].token \in 1..uiToken'
    BY <1>1, <1>3, <1>4 DEF I!LoginOpens
  <2> QED BY <2>1, <2>2, <2>3, <2>4 DEF Rooms
<1>7. Throttled'
  BY ThrottleStays DEF I!LoginOpens, UiInv, UiTypes
<1>8. Waiting'
  <2>1. \A i \in I!Ids : sessions'[i].pending \in {0, sessions[i].pending}
    BY <1>2, <1>3, <1>4, NobodysSession DEF Fewer
  <2> QED BY <1>4, <2>1, WaitingStays DEF I!LoginOpens, UiInv
<1> QED BY <1>5, <1>6, <1>7, <1>8 DEF UiInv

\* A plan that waits in the session of a browser let in, or none.
LEMMA PlanSet ==
    ASSUME UiInv, NEW b \in Browsers, I!Auth(b), NEW plan \in Nat,
           sessions' = [I!AfterAuth(b) EXCEPT ![cookie[b]].pending = plan]
    PROVE  /\ cookie[b] \in I!Ids /\ sessions' \in [I!Ids -> UiSessions]
           /\ sessions'[cookie[b]].pending = plan
           /\ \A i \in I!Ids \ {cookie[b]} : sessions'[i].pending \in {0, sessions[i].pending}
           /\ \A i \in I!Ids : sessions'[i].open =>
                  sessions[i].open /\ sessions'[i].token = sessions[i].token
<1> DEFINE t == I!AfterAuth(b)
           id == cookie[b]
<1>1. Fewer(t) /\ id \in I!Ids /\ sessions[id].open /\ t[id] = sessions[id]
  BY SessionsLeave, LetIn DEF UiInv
<1>2. sessions' = [t EXCEPT ![id].pending = plan]
  OBVIOUS
<1> HIDE DEF t, id
<1>3. sessions' = [t EXCEPT ![id] = [t[id] EXCEPT !.pending = plan]]
  BY <1>2
<1>4. t[id] \in UiSessions
  BY <1>1 DEF Fewer
<1> DEFINE new == [t[id] EXCEPT !.pending = plan]
<1>5. new \in UiSessions /\ new.pending = plan /\ new.open = t[id].open /\ new.token = t[id].token
  BY <1>4 DEF UiSessions
<1> HIDE DEF new
<1>6. sessions' \in [I!Ids -> UiSessions] /\ sessions'[id] = new
      /\ \A i \in I!Ids \ {id} : sessions'[i] = t[i]
  BY <1>1, <1>3, <1>5 DEF Fewer, new
<1>7. \A i \in I!Ids \ {id} : sessions'[i].pending \in {0, sessions[i].pending}
  BY <1>1, <1>6, NobodysSession DEF Fewer
<1>8. ASSUME NEW i \in I!Ids, sessions'[i].open
      PROVE  sessions[i].open /\ sessions'[i].token = sessions[i].token
  <2>1. CASE i = id
    BY <1>1, <1>5, <1>6, <2>1
  <2>2. CASE i # id
    BY <1>1, <1>6, <1>8, <2>2, NobodysSession DEF Fewer
  <2> QED BY <2>1, <2>2
<1> QED BY <1>1, <1>5, <1>6, <1>7, <1>8 DEF id

LEMMA ReviewKeeps ==
    ASSUME UiInv, NEW b \in Browsers, NEW tab, I!ReviewRecipe(b, tab)
    PROVE  UiInv'
<1> USE Bounds
<1> DEFINE id == cookie[b]
<1>1. /\ id \in I!Ids /\ sessions' \in [I!Ids -> UiSessions]
      /\ sessions'[id].pending = reviews + 1 /\ reviews \in Nat /\ reviews' = reviews + 1
      /\ \A i \in I!Ids \ {id} : sessions'[i].pending \in {0, sessions[i].pending}
      /\ \A i \in I!Ids : sessions'[i].open =>
             sessions[i].open /\ sessions'[i].token = sessions[i].token
  <2>1. reviews \in Nat /\ reviews + 1 \in Nat
    BY DEF UiInv, UiTypes
  <2> QED BY <2>1, PlanSet DEF I!ReviewRecipe
<1>0. UNCHANGED <<uiNow, I!mcp, uiToken, opened, failures, cookie, login, installed, wrong>>
  BY DEF I!ReviewRecipe
<1>2. UiTypes'
  BY <1>0, <1>1 DEF I!mcp, UiInv, UiTypes, I!NoLogin, I!Ids
<1>3. Rooms'
  BY <1>0, <1>1, RoomsStay DEF UiInv, UiTypes
<1>4. Throttled'
  BY <1>0, ThrottleStays DEF UiInv, UiTypes
<1> HIDE DEF id
<1>5. /\ \A i \in I!Ids : sessions[i].pending <= reviews /\ sessions[i].pending \in Nat
      /\ \A k \in DOMAIN installed : installed[k] \in 1..reviews
      /\ installed' = installed /\ I!Ids' = I!Ids
  BY DEF UiInv, UiTypes, UiSessions, Waiting, I!ReviewRecipe, I!Ids
<1>6. Waiting'
  <2>1. ASSUME NEW i \in I!Ids
        PROVE  /\ sessions'[i].pending <= reviews'
               /\ sessions'[i].pending # 0 =>
                    \A k \in DOMAIN installed : installed[k] # sessions'[i].pending
    <3>1. CASE i = id
      BY <1>1, <1>5, <3>1
    <3>2. CASE i # id /\ sessions'[i].pending = 0
      BY <1>1, <3>2
    <3>3. CASE i # id /\ sessions'[i].pending = sessions[i].pending
      BY <1>1, <1>5, <3>3 DEF UiInv, Waiting
    <3> QED BY <1>1, <3>1, <3>2, <3>3
  <2>2. \A i \in I!Ids \ {id} : sessions'[i].pending # reviews + 1
    BY <1>1, <1>5
  <2>3. ASSUME NEW i \in I!Ids, NEW j \in I!Ids, sessions'[i].pending = sessions'[j].pending, i # j
        PROVE  sessions'[i].pending = 0
    <3>1. i # id /\ j # id
      BY <1>1, <2>2, <2>3
    <3>2. CASE sessions'[i].pending # 0
      BY <1>1, <2>3, <3>1, <3>2 DEF UiInv, Waiting
    <3> QED BY <3>2
  <2>4. (\A k \in DOMAIN installed' : installed'[k] \in 1..reviews') /\ I!ReviewedInstalledOnce'
    BY <1>1, <1>5 DEF UiInv, Waiting, I!ReviewedInstalledOnce
  <2> QED BY <1>5, <2>1, <2>3, <2>4 DEF Waiting
<1> QED BY <1>2, <1>3, <1>4, <1>6 DEF UiInv

LEMMA InstallKeeps ==
    ASSUME UiInv, NEW b \in Browsers, NEW tab, I!InstallRecipe(b, tab)
    PROVE  UiInv'
<1> USE Bounds
<1> DEFINE id == cookie[b]
           plan == sessions[id].pending
<1>1. /\ id \in I!Ids /\ sessions' \in [I!Ids -> UiSessions]
      /\ sessions'[id].pending = 0
      /\ \A i \in I!Ids \ {id} : sessions'[i].pending \in {0, sessions[i].pending}
      /\ \A i \in I!Ids : sessions'[i].open =>
             sessions[i].open /\ sessions'[i].token = sessions[i].token
  BY PlanSet DEF I!InstallRecipe
<1>0. UNCHANGED <<uiNow, I!mcp, uiToken, opened, failures, cookie, login, reviews, wrong>>
      /\ plan # 0 /\ installed' = Append(installed, plan)
  BY DEF I!InstallRecipe
<1>2. plan \in Nat /\ plan \in 1..reviews /\ installed \in Seq(Nat)
      /\ installed' = Append(installed, plan)
  BY <1>0, <1>1 DEF UiInv, UiTypes, UiSessions, Waiting
<1> HIDE DEF id, plan
<1>3. UiTypes'
  BY <1>0, <1>1, <1>2 DEF I!mcp, UiInv, UiTypes, I!NoLogin, I!Ids
<1>4. Rooms'
  BY <1>0, <1>1, RoomsStay DEF UiInv, UiTypes
<1>5. Throttled'
  BY <1>0, ThrottleStays DEF UiInv, UiTypes
<1>6. /\ DOMAIN installed = 1..Len(installed) /\ DOMAIN installed' = 1..(Len(installed) + 1)
      /\ Len(installed) \in Nat
      /\ installed'[Len(installed) + 1] = plan
      /\ \A k \in 1..Len(installed) : installed'[k] = installed[k]
      /\ reviews' = reviews /\ I!Ids' = I!Ids
  BY <1>2 DEF I!InstallRecipe, I!Ids
<1>7. /\ \A k \in DOMAIN installed : installed[k] # plan
      /\ \A i \in I!Ids \ {id} : sessions[i].pending # plan
  BY <1>1, <1>2 DEF UiInv, Waiting, plan
<1>8. ASSUME NEW k \in DOMAIN installed'
      PROVE  (k \in DOMAIN installed /\ installed'[k] = installed[k]) \/ k = Len(installed) + 1
  BY <1>6
<1>9. I!ReviewedInstalledOnce'
  <2>1. \A k, l \in DOMAIN installed : installed[k] = installed[l] => k = l
    BY DEF UiInv, Waiting, I!ReviewedInstalledOnce, I!IsInjective
  <2>2. ASSUME NEW k \in DOMAIN installed', NEW l \in DOMAIN installed', installed'[k] = installed'[l]
        PROVE  k = l
    BY <1>6, <1>7, <1>8, <2>1, <2>2
  <2> QED BY <2>2 DEF I!ReviewedInstalledOnce, I!IsInjective
<1>10. \A k \in DOMAIN installed' : installed'[k] \in 1..reviews'
  BY <1>2, <1>6, <1>8 DEF UiInv, Waiting
<1>11. ASSUME NEW i \in I!Ids
       PROVE  /\ sessions'[i].pending <= reviews'
              /\ sessions'[i].pending # 0 =>
                   /\ i # id /\ sessions'[i].pending = sessions[i].pending
                   /\ \A k \in DOMAIN installed' : installed'[k] # sessions'[i].pending
  <2>1. CASE sessions'[i].pending = 0
    BY <1>6, <2>1 DEF UiInv, UiTypes
  <2>2. CASE sessions'[i].pending # 0
    <3>1. i # id /\ sessions'[i].pending = sessions[i].pending
      BY <1>1, <2>2
    <3>2. sessions[i].pending <= reviews
          /\ \A k \in DOMAIN installed : installed[k] # sessions[i].pending
      BY <2>2, <3>1 DEF UiInv, Waiting
    <3>3. ASSUME NEW k \in DOMAIN installed' PROVE installed'[k] # sessions'[i].pending
      BY <1>6, <1>7, <1>8, <3>1, <3>2
    <3> QED BY <1>6, <3>1, <3>2, <3>3
  <2> QED BY <2>1, <2>2
<1>12. ASSUME NEW i \in I!Ids, NEW j \in I!Ids, sessions'[i].pending = sessions'[j].pending, i # j
       PROVE  sessions'[i].pending = 0
  <2>1. CASE sessions'[i].pending # 0
    BY <1>11, <1>12, <2>1 DEF UiInv, Waiting
  <2> QED BY <2>1
<1>13. Waiting'
  BY <1>6, <1>9, <1>10, <1>11, <1>12 DEF Waiting
<1> QED BY <1>3, <1>4, <1>5, <1>13 DEF UiInv

LEMMA UiStarts == I!Init => UiInv
<1> SUFFICES ASSUME I!Init PROVE UiInv
  OBVIOUS
<1> USE Bounds
<1>1. I!Live = {} /\ Cardinality(I!Live) = 0
  <2>1. I!Live = {}
    BY NobodysSession DEF I!Init, I!Live, I!Open
  <2> QED BY <2>1, FS_EmptySet
<1>2. UiTypes
  <2>1. /\ I!NoLogin \in [at : Nat, token : 0..0] /\ <<>> \in Seq(Nat)
        /\ sessions = [i \in I!Ids |-> I!NoSession] /\ login = [b \in Browsers |-> I!NoLogin]
        /\ cookie = [b \in Browsers |-> 0] /\ opened = 0 /\ uiToken = 0 /\ reviews = 0
        /\ failures = <<>> /\ wrong = <<>> /\ installed = <<>>
        /\ uiNow = 1 /\ enabled = FALSE /\ grants = {} /\ mcpToken = 0
    BY DEF I!Init, I!NoLogin
  <2>2. /\ sessions \in [I!Ids -> UiSessions] /\ cookie \in [Browsers -> 0..opened]
        /\ login \in [Browsers -> [at : Nat, token : 0..uiToken]]
        /\ \A b \in Browsers : login[b] = I!NoLogin
    <3> HIDE DEF I!NoSession, I!NoLogin
    <3> QED BY <2>1, NobodysSession
  <2>3. uiNow \in 1..UiTime /\ mcpToken \in 0..MaxTokens /\ uiToken \in 0..MaxTokens
        /\ opened \in 0..MaxLogins /\ reviews \in Nat
    BY <2>1
  <2>4. enabled \in BOOLEAN /\ grants \subseteq I!Grants
    BY <2>1
  <2>5. failures \in Seq(Nat) /\ wrong \in Seq(Nat) /\ installed \in Seq(Nat)
    BY <2>1
  <2> QED BY <2>2, <2>3, <2>4, <2>5 DEF UiTypes
<1>3. Rooms
  BY <1>1 DEF Rooms
<1>4. Throttled
  BY DEF I!Init, Throttled, I!ThrottleHolds
<1>5. Waiting
  BY NobodysSession DEF I!Init, Waiting, I!ReviewedInstalledOnce, I!IsInjective
<1> QED BY <1>2, <1>3, <1>4, <1>5 DEF UiInv

LEMMA UiIsEnough == UiInv => UiLimitsHold
<1> SUFFICES ASSUME UiInv PROVE UiLimitsHold
  OBVIOUS
<1> USE Bounds
<1>1. \A i \in I!Live : sessions[i].token \in 1..uiToken /\ sessions[i].pending \in 0..reviews
  <2> SUFFICES ASSUME NEW i \in I!Live
               PROVE  sessions[i].token \in 1..uiToken /\ sessions[i].pending \in 0..reviews
    OBVIOUS
  <2>1. i \in I!Ids /\ sessions[i] \in UiSessions
    BY DEF UiInv, UiTypes, I!Live, I!Open
  <2>2. sessions[i].pending \in Nat
    BY <2>1 DEF UiSessions
  <2> QED BY <2>1, <2>2 DEF UiInv, UiTypes, Rooms, Waiting
<1>2. I!TypeOK
  BY <1>1, Counting DEF UiInv, UiTypes, Rooms, Throttled, I!TypeOK
<1> QED BY <1>2 DEF UiInv, Throttled, Waiting, UiLimitsHold, I!UiLimitsHold

LEMMA UiKeeps == UiInv /\ [ControlNext]_<<vars, interfaces, about>> => UiInv'
<1> SUFFICES ASSUME UiInv, [ControlNext]_<<vars, interfaces, about>> PROVE UiInv'
  OBVIOUS
<1> USE Bounds
<1>1. CASE UNCHANGED interfaces
  BY <1>1, CommandKeeps DEF interfaces, I!ui, UiInv, UiTypes
<1>2. ASSUME NEW c \in I!Commands, I!RunCommand(c) PROVE UiInv'
  BY <1>2, CommandKeeps DEF I!RunCommand, I!mcp, UiInv, UiTypes
<1>3. ASSUME NEW allow \in BOOLEAN, NEW granted \in Policies, I!ServeMcp(allow, granted) PROVE UiInv'
  BY <1>3, CommandKeeps DEF I!ServeMcp, I!mcp, UiInv, UiTypes
<1>4. CASE I!RotateMcpToken
  BY <1>4, CommandKeeps DEF I!RotateMcpToken, UiInv, UiTypes
<1>5. ASSUME NEW tool \in I!Tools, NEW token \in 0..MaxTokens, NEW approved \in BOOLEAN,
             I!CallTool(tool, token, approved)
      PROVE  UiInv'
  BY <1>5, CommandKeeps DEF I!CallTool, I!mcp, UiInv, UiTypes
<1>6. CASE I!Tick \/ I!RotateUiToken
  BY <1>6, UiClockKeeps
<1>7. ASSUME NEW b \in Browsers, I!UiStep(b) PROVE UiInv'
  <2>1. CASE I!LoginFails(b) \/ I!LoginVerified(b) \/ I!LoginOpens(b)
    BY <2>1, WrongTokenKeeps, RightTokenKeeps, LoginKeeps
  <2>2. CASE I!Logout(b) \/ I!TurnedAway(b) \/ I!PlanCatalogInstall(b)
    BY <2>2, RequestKeeps
  <2>3. CASE \E op \in I!Pages : I!OpenPage(b, op)
    BY <2>3, RequestKeeps
  <2>4. CASE \E op \in I!Forms, i \in I!Ids : I!SubmitForm(b, op, i)
    BY <2>4, RequestKeeps
  <2>5. CASE \E t \in Tabs : I!ReviewRecipe(b, t) \/ I!InstallRecipe(b, t)
    BY <2>5, ReviewKeeps, InstallKeeps
  <2>6. CASE \E op \in I!GitRequests, token \in 0..MaxTokens : I!GitSmartHttp(b, op, token)
    BY <2>6, RequestKeeps
  <2> QED BY <1>7, <2>1, <2>2, <2>3, <2>4, <2>5, <2>6 DEF I!UiStep
<1> QED
  BY <1>1, <1>2, <1>3, <1>4, <1>5, <1>6, <1>7 DEF ControlNext, OnlyFleet, I!UiStep

\* The operator UI: within a window no more than MAX_LOGIN_FAILURES wrong tokens
\* are answered, the session table never outgrows MAX_SESSIONS, an open session
\* belongs to a token that was set, and a reviewed recipe plan is installed at
\* most once (lumic-ui: LoginThrottle, login, auth, recipe_install), for any
\* limits, browsers and tabs.
THEOREM UiLimitsAreKept == ControlSpec => []UiLimitsHold
<1>1. ControlInit => UiInv
  BY UiStarts DEF ControlInit
<1> QED BY <1>1, UiKeeps, UiIsEnough, PTL DEF ControlSpec

-----------------------------------------------------------------------------
(* The tables of the command line, MCP and the UI.                           *)

\* What the command line changes, and what only others do.
Changing ==
    {"binding.apply", "binding.remove", "git.push", "node.health", "operations.capture",
     "operations.observe", "operations.run", "operations.signal", "service.install",
     "software.setup",
     "application.create", "application.delete", "application.health",
     "application.process", "application.provision", "application.repository",
     "application.tls", "backup.create", "backup.restore", "configuration.restore",
     "coordination.begin", "coordination.report", "credential.import",
     "database.create", "database.grant", "database.user", "deployment.cancel",
     "deployment.configure", "deployment.redeploy", "deployment.rollback",
     "deployment.run", "endpoint.register", "environment.export",
     "environment.import", "environment.reference", "environment.secret.delete",
     "environment.secret.rotate", "environment.secret.set", "git.host",
     "git.mirror", "git.receive", "git.trigger", "host.account", "host.backup",
     "host.firewall", "host.permissions", "host.remediate", "host.signal",
     "host.update", "integration.apply", "lumic.nightly", "lumic.update",
     "manifest.apply", "membership.register", "node.initialize", "node.register",
     "node.revoke", "operations.destination", "operations.rollback",
     "operations.rule", "operations.subscription", "package.install",
     "package.remove", "package.update_index", "personality.set", "recipe.install",
     "recipe.uninstall", "recipe.update", "remote.execute", "repository.adopt",
     "repository.create", "repository.delete", "repository.deployment",
     "repository.fetch", "repository.import", "repository.push",
     "repository.register", "repository.remote.add", "repository.remote.remove",
     "resource.apply", "secret.generate", "service.attach", "service.configure",
     "service.dependency", "service.lifecycle", "service.remove", "service.update",
     "unit.apply"}

LEMMA Entries ==
    ASSUME NEW S, NEW c
    PROVE  /\ c \in I!Asks(S) => ~c.change
           /\ c \in I!Records(S) => c.op \in S
           /\ c \in I!Does(S) => c.op \in S
BY DEF I!Asks, I!Records, I!Does

LEMMA ChangesListed == I!Changes \subseteq Changing
<1> USE Entries DEF Changing
<1>1. \A c \in I!MainCommands : c.change => c.op \in Changing
  BY DEF I!MainCommands
<1>2. \A c \in I!IntelligenceCommands : c.change => c.op \in Changing
  BY DEF I!IntelligenceCommands
<1>3. \A c \in I!OperationsCommands : c.change => c.op \in Changing
  BY DEF I!OperationsCommands
<1>4. \A c \in I!GitCommands : c.change => c.op \in Changing
  BY DEF I!GitCommands
<1>5. \A c \in I!RepositoryCommands : c.change => c.op \in Changing
  BY DEF I!RepositoryCommands
<1>6. \A c \in I!RemoteCommands : c.change => c.op \in Changing
  BY DEF I!RemoteCommands
<1>7. \A c \in I!EnvironmentCommands : c.change => c.op \in Changing
  BY DEF I!EnvironmentCommands
<1>8. \A c \in I!InfrastructureCommands : c.change => c.op \in Changing
  BY DEF I!InfrastructureCommands
<1>9. \A c \in I!RecipeCommands : c.change => c.op \in Changing
  BY DEF I!RecipeCommands
<1>10. \A c \in I!ServerCommands : c.change => c.op \in Changing
  BY DEF I!ServerCommands
<1>11. \A c \in I!ApplicationCommands : c.change => c.op \in Changing
  BY DEF I!ApplicationCommands
<1>12. \A c \in I!DeploymentCommands : c.change => c.op \in Changing
  BY DEF I!DeploymentCommands
<1>13. \A c \in I!ReleaseCommands : c.change => c.op \in Changing
  BY DEF I!ReleaseCommands
<1>14. \A c \in I!UnitCommands : c.change => c.op \in Changing
  BY DEF I!UnitCommands
<1>15. \A c \in I!ServiceCommands : c.change => c.op \in Changing
  BY DEF I!ServiceCommands
<1>16. \A c \in I!DatabaseCommands : c.change => c.op \in Changing
  BY DEF I!DatabaseCommands
<1>17. \A c \in I!PackageCommands : c.change => c.op \in Changing
  BY DEF I!PackageCommands
<1>18. I!OtherChanges \subseteq Changing
  BY DEF I!OtherChanges
<1> HIDE DEF Changing
<1>19. \A c \in I!Commands : c.change => c.op \in Changing
  BY <1>1, <1>2, <1>3, <1>4, <1>5, <1>6, <1>7, <1>8, <1>9,
     <1>10, <1>11, <1>12, <1>13, <1>14, <1>15, <1>16, <1>17 DEF I!Commands
<1> QED BY <1>18, <1>19 DEF I!Changes

\* What tools without a scope, and pages, ask; and what the mutations scope gives.
Asking ==
    {"application.configuration", "application.fingerprint", "application.graph",
     "application.inspect", "application.list", "audit.list", "backup.verify",
     "binding.list", "deployment.list", "deployment.logs", "deployment.plan",
     "environment.diff", "events.list", "host.logs", "host.snapshot",
     "incident.context", "infrastructure.status", "integration.catalog",
     "integration.plan", "manifest.inspect", "manifest.plan", "node.enrollment",
     "operations.deliveries", "operations.destination.plan",
     "operations.incident", "operations.rule.plan", "operations.timeline",
     "package.inspect", "pipeline.inspect", "pipeline.list", "recipe.catalog",
     "recipe.list", "recipe.plan", "remote.sign", "repository.branches",
     "repository.deployment.plan", "repository.discover", "repository.get",
     "repository.list", "repository.plan", "repository.status", "repository.tags",
     "resource.catalog", "resource.inspect", "resource.plan", "resource.schema",
     "server.attention", "server.diagnose", "server.inspect", "service.detect",
     "service.inspect", "service.list", "service.logs", "service.plan",
     "software.catalog", "software.plan", "software.status", "unit.inspect"}

Mutating ==
    {"application.create", "application.health", "application.process",
     "application.provision", "application.repository", "application.tls",
     "backup.create", "backup.restore", "binding.apply", "binding.remove",
     "coordination.begin", "coordination.report", "database.create",
     "database.grant", "database.user", "deployment.cancel",
     "deployment.configure", "deployment.redeploy", "deployment.rollback",
     "deployment.run", "endpoint.register", "environment.export",
     "environment.import", "environment.reference", "environment.secret.delete",
     "environment.secret.rotate", "git.host", "git.mirror", "git.trigger",
     "host.account", "host.backup", "host.firewall", "host.permissions",
     "host.remediate", "host.signal", "host.update", "manifest.apply",
     "membership.register", "node.initialize", "node.register", "node.revoke",
     "package.install", "recipe.install", "recipe.uninstall", "recipe.update",
     "remote.execute", "repository.adopt", "repository.create",
     "repository.delete", "repository.deployment", "repository.fetch",
     "repository.import", "repository.push", "repository.register",
     "repository.remote.add", "repository.remote.remove", "resource.apply",
     "secret.generate", "service.attach", "service.configure",
     "service.dependency", "service.install", "service.lifecycle",
     "service.remove", "service.update", "software.setup", "unit.apply"}

\* What the mutations scope alone does not give.
Delegated ==
    {"operations.signal", "operations.destination", "operations.subscription",
     "operations.rule", "operations.run", "operations.observe", "operations.rollback",
     "integration.apply", "configuration.restore", "incident.analyze"}

\* What a tool that requires no scope, or the common one, does.
Listed(tool) == /\ tool.scope = "none" => tool.op \in Asking \cup I!Evidence
                /\ tool.scope = "mutations" => tool.op \in Mutating

LEMMA ToolsListed == \A tool \in I!Tools : Listed(tool)
<1> USE DEF Listed, Asking, Mutating, I!Evidence, I!Reads, I!Mutates, I!Scoped
<1>1. \A tool \in I!InspectionTools : Listed(tool)
  BY DEF I!InspectionTools
<1>2. \A tool \in I!IntegrationTools : Listed(tool)
  BY DEF I!IntegrationTools
<1>3. \A tool \in I!ApplicationTools : Listed(tool)
  BY DEF I!ApplicationTools
<1>4. \A tool \in I!DeploymentTools : Listed(tool)
  BY DEF I!DeploymentTools
<1>5. \A tool \in I!NodeTools : Listed(tool)
  BY DEF I!NodeTools
<1>6. \A tool \in I!RepositoryTools : Listed(tool)
  BY DEF I!RepositoryTools
<1>7. \A tool \in I!StorageTools : Listed(tool)
  BY DEF I!StorageTools
<1>8. \A tool \in I!RemoteTools : Listed(tool)
  BY DEF I!RemoteTools
<1>9. \A tool \in I!EnvironmentTools : Listed(tool)
  BY DEF I!EnvironmentTools
<1>10. \A tool \in I!FleetTools : Listed(tool)
  BY DEF I!FleetTools
<1>11. \A tool \in I!ResourceTools : Listed(tool)
  BY DEF I!ResourceTools
<1>12. \A tool \in I!BindingTools : Listed(tool)
  BY DEF I!BindingTools
<1>13. \A tool \in I!ServiceTools : Listed(tool)
  BY DEF I!ServiceTools
<1>14. \A tool \in I!BackupTools : Listed(tool)
  BY DEF I!BackupTools
<1>15. \A tool \in I!SoftwareTools : Listed(tool)
  BY DEF I!SoftwareTools
<1>16. \A tool \in I!HostTools : Listed(tool)
  BY DEF I!HostTools
<1>17. \A tool \in I!RemediationTools : Listed(tool)
  BY DEF I!RemediationTools
<1>18. \A tool \in I!OperationTools : Listed(tool)
  BY DEF I!OperationTools
<1>19. \A tool \in I!AutomationTools : Listed(tool)
  BY DEF I!AutomationTools
<1> HIDE DEF Listed
<1> QED
  BY <1>1, <1>2, <1>3, <1>4, <1>5, <1>6, <1>7, <1>8, <1>9,
     <1>10, <1>11, <1>12, <1>13, <1>14, <1>15, <1>16, <1>17, <1>18, <1>19 DEF I!Tools

LEMMA PagesListed == I!Pages \subseteq Asking
<1> USE DEF Asking
<1>1. I!OverviewPage \subseteq Asking
  BY DEF I!OverviewPage
<1>2. I!InfrastructurePages \subseteq Asking
  BY DEF I!InfrastructurePages
<1>3. I!RepositoryPages \subseteq Asking
  BY DEF I!RepositoryPages
<1>4. I!ApplicationPages \subseteq Asking
  BY DEF I!ApplicationPages
<1>5. I!ApplicationDetail \subseteq Asking
  BY DEF I!ApplicationDetail
<1>6. I!ServicePages \subseteq Asking
  BY DEF I!ServicePages
<1>7. I!InstallerPage \subseteq Asking
  BY DEF I!InstallerPage
<1>8. I!ServiceDetail \subseteq Asking
  BY DEF I!ServiceDetail
<1>9. I!HistoryPages \subseteq Asking
  BY DEF I!HistoryPages
<1>10. I!ConfirmPages \subseteq Asking
  BY DEF I!ConfirmPages
<1> QED
  BY <1>1, <1>2, <1>3, <1>4, <1>5, <1>6, <1>7, <1>8, <1>9, <1>10 DEF I!Pages

\* No operation is both asked and a change, and what has a scope of its own is
\* given by no other.
LEMMA Apart ==
    /\ \A op \in Asking : op \notin Changing
    /\ \A op \in Delegated : op \notin Asking \cup I!Evidence /\ op \notin Mutating
<1>1. \A op \in Asking : op \notin Changing
  BY SMTT(60) DEF Asking, Changing
<1>2. \A op \in Delegated : op \notin Asking \cup I!Evidence
  BY DEF Delegated, Asking, I!Evidence
<1>3. \A op \in Delegated : op \notin Mutating
  BY DEF Delegated, Mutating
<1> QED BY <1>1, <1>2, <1>3

-----------------------------------------------------------------------------
(* Who acts.                                                                 *)

\* What a step calls, it calls for the command line, for a tool that the policy
\* lets act, for a Git client, or for a browser.
ForTool(tool, approved) ==
    /\ acted' = [via |-> "mcp", op |-> tool.op, session |-> 0, token |-> acted'.token,
                 approved |-> approved]
    /\ tool.scope = "none" \/ I!RequireScope(tool.scope, approved)
ForBrowser(approved) ==
    /\ acted'.via = "ui" /\ acted'.approved = approved
    /\ approved \/ acted'.op \in Asking

LEMMA WhoActs ==
    ASSUME [ControlNext]_<<vars, interfaces, about>>
    PROVE  \/ acted' = acted
           \/ acted'.via \in {"cli", "git"}
           \/ \E tool \in I!Tools, approved \in BOOLEAN : ForTool(tool, approved)
           \/ \E approved \in BOOLEAN : ForBrowser(approved)
<1> DEFINE Goal == \/ acted' = acted
                   \/ acted'.via \in {"cli", "git"}
                   \/ \E tool \in I!Tools, approved \in BOOLEAN : ForTool(tool, approved)
                   \/ \E approved \in BOOLEAN : ForBrowser(approved)
<1>1. CASE UNCHANGED interfaces
  BY <1>1 DEF interfaces
<1>2. ASSUME NEW c \in I!Commands, I!RunCommand(c) PROVE acted'.via = "cli"
  BY <1>2 DEF I!RunCommand, I!Act
<1>3. ASSUME NEW allow \in BOOLEAN, NEW granted \in Policies, I!ServeMcp(allow, granted)
      PROVE  acted' = acted
  BY <1>3 DEF I!ServeMcp
<1>4. CASE I!RotateMcpToken \/ I!Tick \/ I!RotateUiToken
  BY <1>4 DEF I!RotateMcpToken, I!Tick, I!RotateUiToken
<1>5. ASSUME NEW tool \in I!Tools, NEW token \in 0..MaxTokens, NEW approved \in BOOLEAN,
             I!CallTool(tool, token, approved)
      PROVE  ForTool(tool, approved)
  BY <1>5 DEF I!CallTool, I!Act, ForTool
<1>6. ASSUME NEW b \in Browsers, I!UiStep(b) PROVE Goal
  <2>1. CASE I!LoginFails(b) \/ I!LoginVerified(b) \/ I!LoginOpens(b) \/ I!Logout(b)
             \/ I!TurnedAway(b) \/ \E t \in Tabs : I!ReviewRecipe(b, t)
    BY <2>1 DEF I!LoginFails, I!LoginVerified, I!LoginOpens, I!Logout, I!TurnedAway, I!ReviewRecipe
  <2>2. ASSUME NEW op \in I!Pages, I!OpenPage(b, op) PROVE ForBrowser(FALSE)
    BY <2>2, PagesListed DEF I!OpenPage, I!Act, ForBrowser
  <2>3. ASSUME NEW op \in I!Forms, NEW i \in I!Ids, I!SubmitForm(b, op, i)
        PROVE  ForBrowser(TRUE)
    BY <2>3 DEF I!SubmitForm, I!Act, ForBrowser
  <2>4. ASSUME NEW t \in Tabs, I!InstallRecipe(b, t) PROVE ForBrowser(TRUE)
    BY <2>4 DEF I!InstallRecipe, I!Act, ForBrowser
  <2>5. ASSUME I!PlanCatalogInstall(b) PROVE ForBrowser(FALSE)
    BY <2>5 DEF I!PlanCatalogInstall, I!Act, ForBrowser, Asking
  <2>6. ASSUME NEW op \in I!GitRequests, NEW token \in 0..MaxTokens,
               I!GitSmartHttp(b, op, token)
        PROVE  acted'.via = "git"
    BY <2>6 DEF I!GitSmartHttp, I!Act
  <2> HIDE DEF ForBrowser
  <2> QED BY <1>6, <2>1, <2>2, <2>3, <2>4, <2>5, <2>6 DEF I!UiStep
<1> HIDE DEF ForTool, ForBrowser
<1> QED
  BY <1>1, <1>2, <1>3, <1>4, <1>5, <1>6 DEF ControlNext, OnlyFleet, I!UiStep

\* Whatever is granted: what changes the node, MCP does only while it may change
\* the node, a scope is granted and the call approved, the record of a peer's
\* health aside; the mutations scope alone gives nothing that has a scope of its
\* own; and a page without a form only asks (lumic-mcp: authorize, require_scope
\* and its handlers; lumic-ui: authorized_post), for any policies.
THEOREM ChangesNeedGrants == ControlSpec => ChangesAreGated
<1>1. ASSUME [ControlNext]_<<vars, interfaces, about>>, acted' # acted,
             acted'.via = "mcp", acted'.op \in I!Changes \ I!Evidence
      PROVE  enabled /\ acted'.approved /\ grants # {}
  <2>1. PICK tool \in I!Tools, approved \in BOOLEAN : ForTool(tool, approved)
    BY <1>1, WhoActs DEF ForBrowser
  <2>2. acted'.op = tool.op /\ acted'.approved = approved
    BY <2>1 DEF ForTool
  <2>3. I!RequireScope(tool.scope, approved)
    <3>1. tool.scope # "none"
      BY <1>1, <2>2, ChangesListed, ToolsListed, Apart DEF Listed
    <3> QED BY <2>1, <3>1 DEF ForTool
  <2> QED BY <2>2, <2>3 DEF I!RequireScope, I!Granted
<1>2. ASSUME [ControlNext]_<<vars, interfaces, about>>, acted' # acted,
             acted'.via = "mcp", grants = {"mutations"}
      PROVE  acted'.op \notin Delegated
  <2>1. PICK tool \in I!Tools, approved \in BOOLEAN : ForTool(tool, approved)
    BY <1>2, WhoActs DEF ForBrowser
  <2>2. acted'.op = tool.op
    BY <2>1 DEF ForTool
  <2>3. tool.scope \in {"none", "mutations"}
    BY <1>2, <2>1 DEF ForTool, I!RequireScope, I!Granted
  <2> QED BY <2>2, <2>3, ToolsListed, Apart DEF Listed
<1>3. ASSUME [ControlNext]_<<vars, interfaces, about>>, acted' # acted,
             acted'.via = "ui", ~acted'.approved
      PROVE  acted'.op \notin I!Changes
  <2>1. PICK approved \in BOOLEAN : ForBrowser(approved)
    BY <1>3, WhoActs DEF ForTool
  <2>2. acted'.op \in Asking
    BY <1>3, <2>1 DEF ForBrowser
  <2> QED BY <2>2, ChangesListed, Apart
<1>4. [ControlNext]_<<vars, interfaces, about>> =>
        /\ [acted' # acted /\ acted'.via = "mcp" /\ acted'.op \in I!Changes \ I!Evidence =>
              enabled /\ acted'.approved /\ grants # {}]_(I!vars)
        /\ [acted' # acted /\ acted'.via = "mcp" /\ grants = {"mutations"} =>
              acted'.op \notin Delegated]_(I!vars)
        /\ [acted' # acted /\ acted'.via = "ui" /\ ~acted'.approved =>
              acted'.op \notin I!Changes]_(I!vars)
  BY <1>1, <1>2, <1>3
<1> QED
  BY <1>4, PTL DEF ControlSpec, ChangesAreGated, I!ChangesAreGated, I!McpChangesGated,
                   I!McpLeastPrivilege, I!PagesOnlyAsk, Delegated
=============================================================================
