---------------------------- MODULE RecipesProofs ----------------------------
(* Recipes, for any applications, failing steps and deaths: a command that    *)
(* has its application to itself keeps a stored password; and while commands  *)
(* on one application follow each other, recipes.json tells what is so.       *)
EXTENDS Recipes, SequenceTheorems, TLAPS

-----------------------------------------------------------------------------
(* The password.                                                            *)

Fields == {"app", "env", "loaded", "version", "previous"}

\* A command that has met no other on its application has it to itself, and
\* writes a password only where it found none.
Solitary(p) ==
    p \notin met /\ op[p].app # "none" =>
        /\ \A q \in Procs \ {p} : op[q].app # op[p].app
        /\ pc[p] \in {"create", "write"} => password[op[p].app] = 0

Passwords ==
    /\ password \in [Apps -> Nat] /\ generated \in [Apps -> Nat]
    /\ pc = [ p \in Procs |-> pc[p] ] /\ op = [ p \in Procs |-> op[p] ]
    /\ \A p \in Procs : DOMAIN op[p] = Fields /\ op[p].app \in Apps \cup {"none"}
    /\ \A p \in Procs : Solitary(p)

\* The property, of one step.
Keeping ==
    \A a \in Apps : password[a] # 0 /\ password'[a] # password[a] =>
        \E p \in Procs : op[p].app = a /\ (pc[p] = "remove_secrets" \/ p \in met)

\* A command takes a step at its task, or ends it.
Walked(p) ==
    /\ pc' = [ q \in Procs |-> pc'[q] ] /\ op' = [ q \in Procs |-> op'[q] ]
    /\ \A q \in Procs \ {p} : pc'[q] = pc[q] /\ op'[q] = op[q]
    /\ DOMAIN op'[p] = Fields /\ op'[p].app \in {op[p].app, "none"}
    /\ met' = met

LEMMA WalkKeeps ==
    ASSUME Passwords, NEW p \in Procs, Walked(p), UNCHANGED <<password, generated>>,
           pc'[p] \in {"create", "write"} =>
               pc[p] \in {"create", "write"} \/ password[op[p].app] = 0
    PROVE  Passwords' /\ Keeping
<1>1. \A q \in Procs : Solitary(q)'
  <2>1. ASSUME NEW q \in Procs, q # p
        PROVE  Solitary(q)'
    BY <2>1 DEF Passwords, Walked, Solitary
  <2>2. Solitary(p)'
    BY DEF Passwords, Walked, Solitary
  <2> QED
    BY <2>1, <2>2
<1>2. \A q \in Procs : DOMAIN op'[q] = Fields /\ op'[q].app \in Apps \cup {"none"}
  BY DEF Passwords, Walked
<1> QED
  BY <1>1, <1>2 DEF Passwords, Walked, Keeping

\* Steps that stay at their task, and steps that end it.
LEMMA Walking ==
    ASSUME Passwords, NEW p \in Procs, NEW step, Goto(p, step), met' = met,
           op' = op \/ op' = [op EXCEPT ![p] = Idle]
    PROVE  Walked(p) /\ pc'[p] = step
<1>1. DOMAIN Idle = Fields /\ Idle.app = "none"
  BY DEF Idle, Fields
<1>2. /\ pc' = [ q \in Procs |-> pc'[q] ] /\ pc'[p] = step
      /\ \A q \in Procs \ {p} : pc'[q] = pc[q]
  BY DEF Passwords, Goto
<1>3. /\ op' = [ q \in Procs |-> op'[q] ] /\ op'[p] \in {op[p], Idle}
      /\ \A q \in Procs \ {p} : op'[q] = op[q]
  BY DEF Passwords
<1> QED
  BY <1>1, <1>2, <1>3 DEF Walked, Passwords

\* Every step on the secrets.
LEMMA SecretsKeep ==
    ASSUME Passwords, NEW p \in Procs, NEW a \in Apps, Secrets(p, a)
    PROVE  Passwords' /\ Keeping
<1> USE DEF SecretStep, Quiet
<1>1. CASE StoreInputs(p, a)
  BY <1>1, Walking, WalkKeeps DEF StoreInputs
<1>2. CASE FindPassword(p, a)
  <2>1. Walked(p) /\ pc'[p] = IF password[a] # 0 THEN "reference" ELSE "create"
    BY <1>2, Walking DEF FindPassword
  <2> QED
    BY <1>2, <2>1, WalkKeeps DEF FindPassword
<1>3. CASE CreatePassword(p, a)
  BY <1>3, Walking, WalkKeeps DEF CreatePassword
<1>4. CASE ReferencePassword(p, a)
  <2>1. Walked(p) /\ pc'[p] = IF a \in WordPressApps THEN "secrets" ELSE "generic_services"
    BY <1>4, Walking DEF ReferencePassword
  <2> QED
    BY <1>4, <2>1, WalkKeeps DEF ReferencePassword
<1>5. CASE WritePassword(p, a)
  <2>1. Walked(p) /\ pc'[p] = "reference" /\ op' = op /\ pc[p] = "write" /\ op[p].app = a
    BY <1>5, Walking DEF WritePassword
  <2>2. /\ password' \in [Apps -> Nat] /\ generated' \in [Apps -> Nat]
        /\ \A b \in Apps \ {a} : password'[b] = password[b]
    BY <1>5 DEF WritePassword, Passwords
  <2>3. a # "none"
    BY RecipesAssumption DEF Apps
  <2>4. Keeping
    BY <2>1, <2>2, <2>3 DEF Keeping, Passwords, Solitary
  <2>5. ASSUME NEW q \in Procs
        PROVE  Solitary(q)'
    BY <2>1, <2>2, <2>3, <2>5 DEF Passwords, Walked, Solitary
  <2> QED
    BY <2>1, <2>2, <2>4, <2>5 DEF Passwords, Walked
<1> QED
  BY <1>1, <1>2, <1>3, <1>4, <1>5 DEF Secrets

\* A command begins.
LEMMA BeginningKeeps ==
    ASSUME Passwords, NEW p \in Procs, NEW a \in Apps, NEW env,
           NEW step \in {"application", "generic", "remove"}, Begin(p, a, env, step),
           UNCHANGED <<password, generated>>
    PROVE  Passwords' /\ Keeping
<1> DEFINE o == [ app |-> a, env |-> env, loaded |-> recipes, version |-> catalogue,
                  previous |-> 0 ]
           others == { q \in Procs \ {p} : op[q].app = a }
<1>1. DOMAIN o = Fields /\ o.app = a
  BY DEF Fields
<1>2. /\ op' = [op EXCEPT ![p] = o] /\ pc' = [pc EXCEPT ![p] = step]
      /\ met' = IF others = {} THEN met \ {p} ELSE met \cup {p} \cup others
  BY DEF Begin
<1> HIDE DEF o
<1>3. /\ pc' = [ q \in Procs |-> pc'[q] ] /\ op' = [ q \in Procs |-> op'[q] ]
      /\ \A q \in Procs \ {p} : pc'[q] = pc[q] /\ op'[q] = op[q]
      /\ op'[p] = o /\ pc'[p] = step
  BY <1>2 DEF Passwords
<1>4. \A q \in Procs : DOMAIN op'[q] = Fields /\ op'[q].app \in Apps \cup {"none"}
  BY <1>1, <1>3 DEF Passwords
<1>5. ASSUME NEW q \in Procs, q # p
      PROVE  Solitary(q)'
  <2>1. q \notin met' => q \notin met /\ op[q].app # a
    BY <1>2, <1>5
  <2> QED
    BY <1>1, <1>3, <1>5, <2>1 DEF Passwords, Solitary
<1>6. Solitary(p)'
  <2>1. p \notin met' => \A q \in Procs \ {p} : op[q].app # a
    BY <1>2
  <2> QED
    BY <1>1, <1>3, <2>1 DEF Solitary
<1> QED
  BY <1>3, <1>4, <1>5, <1>6 DEF Passwords, Keeping

\* Every step but a write and an uninstall leaves a stored password alone.
LEMMA PasswordStep ==
    ASSUME Passwords, Next
    PROVE  Passwords' /\ Keeping
<1> USE DEF world, Quiet
<1>0. Apps = WordPressApps \cup GenericApps
  BY DEF Apps
<1>1. ASSUME NEW p \in Procs, NEW a \in WordPressApps, WordPress(p, a)
      PROVE  Passwords' /\ Keeping
  <2>1. CASE Secrets(p, a)
    BY <1>0, <2>1, SecretsKeep
  <2>2. CASE WordPressActivate(p, a)
    <3>1. pc'[p] = "configure" /\ Walked(p)
      BY <2>2 DEF WordPressActivate, Walked, Passwords, Goto, Fields
    <3> QED
      BY <2>2, <3>1, WalkKeeps DEF WordPressActivate
  <2>3. ASSUME NEW step \in {"inputs", "service", "user", "database", "runtime", "activate",
                             "wordpress", "health", "commit", "failed", "idle"},
               Goto(p, step), UNCHANGED <<password, generated, met>>,
               op' = op \/ op' = [op EXCEPT ![p] = Idle]
        PROVE  Passwords' /\ Keeping
    BY <2>3, Walking, WalkKeeps
  <2> USE DEF WordPressStep
  <2>4. CASE WordPressApplication(p, a)
    BY <2>3, <2>4 DEF WordPressApplication
  <2>5. CASE WordPressSecrets(p, a)
    BY <2>3, <2>5 DEF WordPressSecrets
  <2>6. CASE WordPressService(p, a)
    BY <2>3, <2>6 DEF WordPressService
  <2>7. CASE WordPressUserSecret(p, a)
    BY <2>3, <2>7 DEF WordPressUserSecret
  <2>8. CASE WordPressDatabase(p, a)
    BY <2>3, <2>8 DEF WordPressDatabase
  <2>9. CASE WordPressRuntime(p, a)
    BY <2>3, <2>9 DEF WordPressRuntime
  <2>10. CASE WordPressConfigure(p, a)
    BY <2>3, <2>10 DEF WordPressConfigure
  <2>11. CASE WordPressPersist(p, a)
    BY <2>3, <2>11 DEF WordPressPersist
  <2>12. CASE WordPressHealth(p, a)
    BY <2>3, <2>12 DEF WordPressHealth
  <2>13. CASE WordPressCommit(p, a)
    BY <2>3, <2>13 DEF WordPressCommit
  <2>14. CASE WordPressFails(p, a)
    BY <2>3, <2>14 DEF WordPressFails
  <2>15. CASE RecordFailure(p, a)
    BY <2>3, <2>15 DEF RecordFailure
  <2> QED
    BY <1>1, <2>1, <2>2, <2>4, <2>5, <2>6, <2>7, <2>8, <2>9, <2>10, <2>11, <2>12, <2>13,
       <2>14, <2>15 DEF WordPress
<1>2. ASSUME NEW p \in Procs, NEW a \in GenericApps, Generic(p, a)
      PROVE  Passwords' /\ Keeping
  <2>1. CASE Secrets(p, a)
    BY <1>0, <2>1, SecretsKeep
  <2>2. ASSUME NEW step \in {"inputs", "generic_save", "idle"},
               Goto(p, step), UNCHANGED <<password, generated, met>>,
               op' = op \/ op' = [op EXCEPT ![p] = Idle]
        PROVE  Passwords' /\ Keeping
    BY <2>2, Walking, WalkKeeps
  <2>3. CASE GenericApplication(p, a)
    BY <2>2, <2>3 DEF GenericApplication
  <2>4. CASE GenericServices(p, a)
    BY <2>2, <2>4 DEF GenericServices
  <2>5. CASE GenericSave(p, a)
    BY <2>2, <2>5 DEF GenericSave, SaveLoaded
  <2>6. CASE GenericFails(p, a)
    BY <2>2, <2>6 DEF GenericFails
  <2> QED
    BY <1>2, <2>1, <2>3, <2>4, <2>5, <2>6 DEF Generic
<1>3. ASSUME NEW p \in Procs, NEW a \in Apps, Removal(p, a)
      PROVE  Passwords' /\ Keeping
  <2>1. ASSUME NEW step \in {"remove_secrets", "remove_save", "idle"},
               Goto(p, step), UNCHANGED <<password, generated, met>>,
               op' = op \/ op' = [op EXCEPT ![p] = Idle]
        PROVE  Passwords' /\ Keeping
    BY <2>1, Walking, WalkKeeps
  <2>2. CASE UninstallSecrets(p, a)
    <3>1. /\ Walked(p) /\ pc'[p] = "remove_bindings" /\ op' = op
          /\ pc[p] = "remove_secrets" /\ op[p].app = a
      BY <2>2, Walking DEF UninstallSecrets
    <3>2. /\ password' \in [Apps -> Nat] /\ generated' \in [Apps -> Nat]
          /\ \A b \in Apps \ {a} : password'[b] = password[b]
      BY <2>2 DEF UninstallSecrets, Passwords
    <3>3. a # "none"
      BY RecipesAssumption DEF Apps
    <3>4. Keeping
      BY <3>1, <3>2 DEF Keeping
    <3>5. ASSUME NEW q \in Procs
          PROVE  Solitary(q)'
      BY <3>1, <3>2, <3>3, <3>5 DEF Passwords, Walked, Solitary
    <3> QED
      BY <3>1, <3>2, <3>4, <3>5 DEF Passwords, Walked
  <2>3. CASE UninstallApplication(p, a)
    BY <2>1, <2>3 DEF UninstallApplication
  <2>4. CASE UninstallCleanup(p, a)
    BY <2>1, <2>4 DEF UninstallCleanup
  <2>5. CASE UninstallSave(p, a)
    BY <2>1, <2>5 DEF UninstallSave, SaveLoaded
  <2> QED
    BY <1>3, <2>2, <2>3, <2>4, <2>5 DEF Removal
<1>4. CASE NewCatalogue
  BY <1>4 DEF NewCatalogue, Passwords, Solitary, Keeping
<1>5. ASSUME NEW p \in Procs, Crash(p)
      PROVE  Passwords' /\ Keeping
  <2>1. Walked(p) /\ pc'[p] = "idle"
    BY <1>5, Walking DEF Crash, Goto
  <2> QED
    BY <1>5, <2>1, WalkKeeps DEF Crash
<1>6. ASSUME NEW p \in Procs, NEW a \in Apps, Uninstall(p, a)
      PROVE  Passwords' /\ Keeping
  BY <1>6, BeginningKeeps DEF Uninstall
<1>7. ASSUME NEW p \in Procs, NEW env \in BOOLEAN, NEW a \in WordPressApps,
             InstallWordPress(p, a, env)
      PROVE  Passwords' /\ Keeping
  BY <1>0, <1>7, BeginningKeeps DEF InstallWordPress
<1>8. ASSUME NEW p \in Procs, NEW env \in BOOLEAN, NEW a \in GenericApps,
             InstallGeneric(p, a, env)
      PROVE  Passwords' /\ Keeping
  BY <1>0, <1>8, BeginningKeeps DEF InstallGeneric
<1> QED
  BY <1>1, <1>2, <1>3, <1>4, <1>5, <1>6, <1>7, <1>8 DEF Next

(* A retry keeps the administrator password that the site was set up with: a   *)
(* stored one goes with an uninstall of the application, or is written over by *)
(* a command on whose application another worked in the meantime; a command    *)
(* that has the application to itself never replaces one, whatever the others  *)
(* do elsewhere, and whatever fails or dies (PasswordKept).                    *)
THEOREM RetriesKeepPasswords == Spec => PasswordKept
<1>1. Init => Passwords
  BY RecipesAssumption DEF Init, Passwords, Solitary, Idle, Fields
<1>2. Passwords /\ [Next]_vars => Passwords'
  <2>1. Passwords /\ UNCHANGED vars => Passwords'
    BY DEF vars, world, Passwords, Solitary
  <2> QED
    BY <2>1, PasswordStep
<1>3. Passwords /\ [Next]_vars =>
        [\A a \in Apps : password[a] # 0 /\ password'[a] # password[a] =>
            \E p \in Procs : op[p].app = a /\ (pc[p] = "remove_secrets" \/ p \in met)]_vars
  BY PasswordStep DEF Keeping
<1> QED
  BY <1>1, <1>2, <1>3, PTL DEF Spec, PasswordKept

-----------------------------------------------------------------------------
(* The invariant.                                                           *)

\* A command works on the application.
Undertaken(a) == \E p \in Procs : op[p].app = a

\* Commands on one application follow each other.
Alone == \A p, q \in Procs : op[p].app = op[q].app => p = q \/ op[p].app = "none"

InstallPCs == WordPressPCs \cup {"failed"}
GenericPCs == SecretPCs \cup {"generic", "generic_services", "generic_save"}
RemovalPCs == {"remove", "remove_secrets", "remove_bindings", "remove_save"}

Operations ==
    [ app : Apps \cup {"none"}, env : BOOLEAN, loaded : [Apps -> Installations],
      version : 0..MaxVersion, previous : 0..MaxVersion ]

\* What a command is at fits what it is doing.
Commanded(p) ==
    /\ pc[p] = "idle" => op[p].app = "none"
    /\ pc[p] \in InstallPCs \ SecretPCs => op[p].app \in WordPressApps
    /\ pc[p] \in GenericPCs \ SecretPCs => op[p].app \in GenericApps
    /\ pc[p] \in RemovalPCs \cup SecretPCs => op[p].app \in Apps
    /\ pc[p] # "idle" => op[p].version # 0

Commands ==
    /\ pc \in [Procs -> {"idle"} \cup InstallPCs \cup GenericPCs \cup RemovalPCs]
    /\ op \in [Procs -> Operations]
    /\ \A p \in Procs : Commanded(p)

Hosts ==
    /\ catalogue \in 1..MaxVersion
    /\ recipes \in [Apps -> Installations]
    /\ listed \subseteq Apps /\ configured \subseteq listed /\ inputs \subseteq Apps
    /\ service \subseteq Apps /\ dbUser \subseteq dbSecret
    /\ bound \subseteq Apps
    /\ password \in [Apps -> Nat] /\ generated \in [Apps -> Nat]
    /\ current \in [Apps -> 0..MaxVersion]
    /\ \A a \in GenericApps : current[a] = 0
    /\ wpConfig \in [Apps -> SUBSET Nat] /\ site \in [Apps -> Nat]
    /\ stale \in BOOLEAN

\* The generations of the secrets are within their bound.
Numbered(a) == password[a] <= generated[a] /\ generated[a] <= MaxSecrets

AfterApplication == SecretPCs \cup {"secrets", "service", "user", "database", "runtime",
                                    "activate", "configure", "wordpress", "health", "commit"}
AfterInputs == AfterApplication \ {"inputs"}
AfterPassword == AfterInputs \ {"password", "create", "write"}
AfterSecrets == AfterPassword \ {"reference", "secrets"}
AfterService == AfterSecrets \ {"service"}
AfterUser == AfterService \ {"user"}
AfterDatabase == AfterUser \ {"database"}
AfterRuntime == AfterDatabase \ {"runtime"}
AfterConfigure == {"wordpress", "health", "commit"}

\* What an install has already done to the host.
Staged(p, a) ==
    /\ pc[p] \in AfterApplication \cup {"generic_services", "generic_save"} => a \in listed
    /\ pc[p] \in AfterInputs \cup {"generic_services", "generic_save"} => a \in inputs
    /\ pc[p] \in AfterPassword \cup {"generic_services", "generic_save"} => password[a] # 0
    /\ pc[p] \in AfterService \cup {"generic_save"} => a \in service
    /\ pc[p] \in AfterUser => a \in dbSecret
    /\ pc[p] \in AfterDatabase => a \in dbUser
    /\ pc[p] \in AfterRuntime \cup {"generic_save"} => a \in configured
    /\ pc[p] = "configure" =>
         current[a] # 0 /\ (a \notin torn /\ op[p].previous # 0 => op[p].previous \in wpConfig[a])
    /\ pc[p] \in AfterConfigure => IsInstalled(a)
    /\ pc[p] \in RemovalPCs \ {"remove"} => a \notin listed
    /\ pc[p] = "remove_save" => a \notin bound

\* The current release is configured, but for a command that has just activated
\* it, or died there; and only a listed application has one.
Working(a) ==
    /\ current[a] # 0 => a \in listed
    /\ current[a] # 0 /\ a \notin torn /\ (\A p \in Procs : op[p].app = a => pc[p] # "configure") =>
         current[a] \in wpConfig[a]

\* How much of the journal each stage has.
Journalled(step) ==
    CASE step = "application" -> 0
      [] step \in SecretPCs \cup {"secrets"} -> 1
      [] step \in {"service", "user", "database"} -> 2
      [] step = "runtime" -> 3
      [] step \in {"activate", "configure", "wordpress"} -> 4
      [] step = "health" -> 5
      [] step = "commit" -> 6

Effective(a, n) ==
    /\ n >= 2 => a \in inputs /\ password[a] # 0
    /\ n >= 3 => a \in service /\ a \in dbUser
    /\ n >= 4 => a \in configured
    /\ n >= 5 => IsInstalled(a)

Taken(a) == \E p \in Procs : op[p].app = a /\ pc[p] \in RemovalPCs \ {"remove"}

\* The entry of a WordPress application.
Entered(a) ==
    LET n == Len(recipes[a].done) IN
    /\ recipes[a].status = "absent" =>
         a \notin listed /\ a \notin bound /\ ~Undertaken(a) /\ n = 0
    /\ recipes[a].status = "installed" => n = 7 /\ recipes[a].secrets
    /\ ~Taken(a) /\ a \in listed => Effective(a, n)
    /\ ~Taken(a) /\ a \notin torn /\ n >= 1 => a \in listed
    /\ \A p \in Procs : op[p].app = a /\ pc[p] \in WordPressPCs =>
         n = Journalled(pc[p]) /\ recipes[a].status = "updating"
    /\ \A p \in Procs : op[p].app = a /\ pc[p] = "failed" => recipes[a].status = "updating"

\* The entry of any other application.
Kept(a) ==
    /\ recipes[a].status \in {"absent", "installed"}
    /\ recipes[a].status = "installed" => recipes[a].secrets
    /\ recipes[a].status = "installed" /\ a \notin torn /\ ~Undertaken(a) =>
         a \in configured /\ a \in inputs /\ password[a] # 0 /\ a \in service

Honest(a) ==
    /\ Numbered(a) /\ Working(a)
    /\ \A p \in Procs : op[p].app = a => Staged(p, a)
    /\ ~stale => /\ a \in WordPressApps => Entered(a)
                 /\ a \in GenericApps => Kept(a)

HonestInv == Commands /\ Hosts /\ \A a \in Apps : Honest(a)

-----------------------------------------------------------------------------
(* The journal.                                                             *)

Index(step) == CHOOSE i \in DOMAIN WordPressSteps : WordPressSteps[i] = step

Steps == {WordPressSteps[i] : i \in 1..7}

Named(i) ==
    \/ i = 1 /\ WordPressSteps[i] = "application"
    \/ i = 2 /\ WordPressSteps[i] = "secrets"
    \/ i = 3 /\ WordPressSteps[i] = "database"
    \/ i = 4 /\ WordPressSteps[i] = "runtime"
    \/ i = 5 /\ WordPressSteps[i] = "wordpress"
    \/ i = 6 /\ WordPressSteps[i] = "health"
    \/ i = 7 /\ WordPressSteps[i] = "commit"

LEMMA StepNames ==
    /\ Len(WordPressSteps) = 7 /\ DOMAIN WordPressSteps = 1..7
    /\ \A i \in 1..7 : Named(i)
<1>1. Len(WordPressSteps) = 7
  BY DEF WordPressSteps
<1>2. DOMAIN WordPressSteps = 1..7
  BY DEF WordPressSteps
<1>3. /\ WordPressSteps[1] = "application" /\ WordPressSteps[2] = "secrets"
      /\ WordPressSteps[3] = "database" /\ WordPressSteps[4] = "runtime"
      /\ WordPressSteps[5] = "wordpress" /\ WordPressSteps[6] = "health"
      /\ WordPressSteps[7] = "commit"
  BY DEF WordPressSteps
<1>4. ASSUME NEW i \in 1..7
      PROVE  Named(i)
  <2>1. i = 1 \/ i = 2 \/ i = 3 \/ i = 4 \/ i = 5 \/ i = 6 \/ i = 7
    OBVIOUS
  <2> QED
    BY <1>3, <2>1 DEF Named
<1> QED
  BY <1>1, <1>2, <1>4

LEMMA PrefixIs ==
    ASSUME NEW n \in 0..7
    PROVE  /\ SubSeq(WordPressSteps, 1, n) \in Journal
           /\ Len(SubSeq(WordPressSteps, 1, n)) = n
           /\ \A i \in 1..n : SubSeq(WordPressSteps, 1, n)[i] = WordPressSteps[i]
<1>1. \A i \in 1..n : WordPressSteps[i] \in Steps
  BY DEF Steps
<1>2. /\ SubSeq(WordPressSteps, 1, n) \in Seq(Steps)
      /\ Len(SubSeq(WordPressSteps, 1, n)) = IF 1 <= n THEN n - 1 + 1 ELSE 0
      /\ \A i \in 1..(n - 1 + 1) : SubSeq(WordPressSteps, 1, n)[i] = WordPressSteps[1 + i - 1]
  BY <1>1, SubSeqProperties
<1>3. Len(WordPressSteps) = 7
  BY StepNames DEF Named
<1> QED
  BY <1>2, <1>3 DEF Journal

LEMMA JournalIsPrefix ==
    ASSUME NEW done \in Journal
    PROVE  /\ Len(done) \in 0..7 /\ DOMAIN done = 1..Len(done)
           /\ \A i \in 1..Len(done) : done[i] = WordPressSteps[i]
<1>1. Len(WordPressSteps) = 7
  BY StepNames DEF Named
<1>2. PICK n \in 0..7 : done = SubSeq(WordPressSteps, 1, n)
  BY <1>1 DEF Journal
<1>3. \A i \in 1..n : WordPressSteps[i] \in Steps
  BY DEF Steps
<1>4. done \in Seq(Steps)
  BY <1>2, <1>3, SubSeqProperties
<1> QED
  BY <1>2, <1>4, PrefixIs

LEMMA Indices ==
    /\ Index("application") = 1 /\ Index("secrets") = 2 /\ Index("database") = 3
    /\ Index("runtime") = 4 /\ Index("wordpress") = 5 /\ Index("health") = 6
<1>3. ASSUME NEW n \in 1..7
      PROVE  Index(WordPressSteps[n]) = n
  <2>1. \E i \in DOMAIN WordPressSteps : WordPressSteps[i] = WordPressSteps[n]
    BY StepNames DEF Named
  <2>2. /\ Index(WordPressSteps[n]) \in DOMAIN WordPressSteps
        /\ WordPressSteps[Index(WordPressSteps[n])] = WordPressSteps[n]
    BY <2>1 DEF Index
  <2> QED
    BY StepNames, <2>2 DEF Named
<1>4. /\ WordPressSteps[1] = "application" /\ WordPressSteps[2] = "secrets"
      /\ WordPressSteps[3] = "database" /\ WordPressSteps[4] = "runtime"
      /\ WordPressSteps[5] = "wordpress" /\ WordPressSteps[6] = "health"
  BY DEF WordPressSteps
<1>5. /\ Index(WordPressSteps[1]) = 1 /\ Index(WordPressSteps[2]) = 2
      /\ Index(WordPressSteps[3]) = 3 /\ Index(WordPressSteps[4]) = 4
      /\ Index(WordPressSteps[5]) = 5 /\ Index(WordPressSteps[6]) = 6
  BY <1>3
<1> QED
  BY <1>4, <1>5

\* The journal is shorter than a step when it does not list it.
LEMMA Listing ==
    ASSUME NEW done \in Journal, NEW n \in 1..7,
           \E i \in DOMAIN done : done[i] = WordPressSteps[n]
    PROVE  Len(done) >= n
<1>1. PICK i \in 1..Len(done) : WordPressSteps[i] = WordPressSteps[n]
  BY JournalIsPrefix
<1>2. i = n
  BY <1>1, JournalIsPrefix, StepNames DEF Named
<1> QED
  BY <1>2, JournalIsPrefix

-----------------------------------------------------------------------------
(* A step of one command leaves the other applications as they are.          *)

Apart(p, a) ==
    /\ op[p].app \in {a, "none"} /\ op'[p].app \in {a, "none"}
    /\ \A q \in Procs \ {p} : pc'[q] = pc[q] /\ op'[q] = op[q]
    /\ \A b \in Apps \ {a} :
         /\ b \in listed' <=> b \in listed
         /\ b \in configured' <=> b \in configured
         /\ b \in inputs' <=> b \in inputs
         /\ b \in service' <=> b \in service
         /\ b \in dbSecret' <=> b \in dbSecret
         /\ b \in dbUser' <=> b \in dbUser
         /\ b \in bound' <=> b \in bound
         /\ b \in torn' <=> b \in torn
         /\ password'[b] = password[b] /\ generated'[b] = generated[b]
         /\ current'[b] = current[b] /\ wpConfig'[b] = wpConfig[b] /\ site'[b] = site[b]
    /\ stale => stale'
    /\ ~stale' => \A b \in Apps \ {a} : recipes'[b] = recipes[b]

LEMMA Others ==
    ASSUME HonestInv, NEW p \in Procs, NEW a \in Apps, Apart(p, a), NEW b \in Apps \ {a}
    PROVE  Honest(b)'
<1>1. b # "none"
  BY RecipesAssumption DEF Apps
<1>2. \A q \in Procs : op[q].app = b \/ op'[q].app = b => pc'[q] = pc[q] /\ op'[q] = op[q]
  BY <1>1 DEF Apart
<1>3. Honest(b)
  BY DEF HonestInv
<1>4. Numbered(b)'
  BY <1>2, <1>3 DEF Honest, Numbered, Apart
<1>5. Working(b)'
  BY <1>2, <1>3 DEF Honest, Working, Apart
<1>6. \A q \in Procs : op'[q].app = b => Staged(q, b)'
  BY <1>2, <1>3 DEF Honest, Staged, Apart, IsInstalled
<1>7. Undertaken(b)' <=> Undertaken(b)
  BY <1>2 DEF Undertaken
<1>8. Taken(b)' <=> Taken(b)
  BY <1>2 DEF Taken
<1>9. ASSUME ~stale', b \in WordPressApps
      PROVE  Entered(b)'
  <2>1. Entered(b) /\ recipes'[b] = recipes[b]
    BY <1>3, <1>9 DEF Honest, Apart
  <2>2. \A n : Effective(b, n)' <=> Effective(b, n)
    BY DEF Effective, Apart, IsInstalled
  <2>3. Effective(b, Len(recipes[b].done))' <=> Effective(b, Len(recipes[b].done))
    BY <2>1, <2>2 DEF Effective, Apart, IsInstalled
  <2>4. \A q \in Procs : op'[q].app = b /\ pc'[q] \in WordPressPCs =>
          Len(recipes'[b].done) = Journalled(pc'[q]) /\ recipes'[b].status = "updating"
    BY <1>2, <2>1 DEF Entered
  <2>5. \A q \in Procs : op'[q].app = b /\ pc'[q] = "failed" => recipes'[b].status = "updating"
    BY <1>2, <2>1 DEF Entered
  <2> QED
    BY <1>7, <1>8, <2>1, <2>3, <2>4, <2>5 DEF Entered, Apart
<1>10. ASSUME ~stale', b \in GenericApps
       PROVE  Kept(b)'
  BY <1>3, <1>7, <1>10 DEF Honest, Kept, Apart
<1> QED
  BY <1>4, <1>5, <1>6, <1>9, <1>10 DEF Honest

LEMMA Combined ==
    ASSUME HonestInv, NEW p \in Procs, NEW a \in Apps, Apart(p, a),
           Commands', Hosts', Honest(a)'
    PROVE  HonestInv'
BY Others DEF HonestInv

-----------------------------------------------------------------------------
(* The command that works on an application.                                 *)

Labels == {"idle"} \cup InstallPCs \cup GenericPCs \cup RemovalPCs

\* A command that is at x and does y.
Fits(x, y) ==
    /\ x \in Labels /\ y \in Operations
    /\ x = "idle" => y.app = "none"
    /\ x \in InstallPCs \ SecretPCs => y.app \in WordPressApps
    /\ x \in GenericPCs \ SecretPCs => y.app \in GenericApps
    /\ x \in RemovalPCs \cup SecretPCs => y.app \in Apps
    /\ x # "idle" => y.version # 0

LEMMA Going ==
    ASSUME Commands, NEW p \in Procs, NEW x, NEW y, Fits(x, y),
           pc' = [pc EXCEPT ![p] = x], op' = [op EXCEPT ![p] = y]
    PROVE  /\ Commands'
           /\ pc'[p] = x /\ op'[p] = y
           /\ \A q \in Procs \ {p} : pc'[q] = pc[q] /\ op'[q] = op[q]
<1>1. /\ pc'[p] = x /\ op'[p] = y
      /\ \A q \in Procs \ {p} : pc'[q] = pc[q] /\ op'[q] = op[q]
  BY DEF Commands
<1>2. pc' \in [Procs -> Labels] /\ op' \in [Procs -> Operations]
  BY DEF Commands, Fits, Labels
<1>3. \A q \in Procs : Commanded(q)'
  BY <1>1 DEF Commands, Commanded, Fits
<1> QED
  BY <1>1, <1>2, <1>3 DEF Commands, Labels

\* What is known of an application that a command works on.
LEMMA Mine ==
    ASSUME HonestInv, Alone, NEW p \in Procs, NEW a \in Apps, op[p].app = a
    PROVE  /\ Numbered(a) /\ Working(a) /\ Staged(p, a)
           /\ ~stale /\ a \in WordPressApps => Entered(a)
           /\ ~stale /\ a \in GenericApps => Kept(a)
           /\ \A q \in Procs : op[q].app = a => q = p
           /\ a # "none" /\ pc[p] # "idle" /\ op[p] \in Operations /\ op[p].version # 0
           /\ Undertaken(a) /\ (Taken(a) <=> pc[p] \in RemovalPCs \ {"remove"})
<1>1. a # "none"
  BY RecipesAssumption DEF Apps
<1>2. \A q \in Procs : op[q].app = a => q = p
  BY <1>1 DEF Alone
<1>3. pc[p] # "idle" /\ op[p] \in Operations /\ op[p].version # 0
  BY <1>1 DEF HonestInv, Commands, Commanded
<1> QED
  BY <1>1, <1>2, <1>3 DEF HonestInv, Honest, Undertaken, Taken

LEMMA Completing ==
    ASSUME Hosts, NEW a \in Apps, NEW step, Index(step) \in 1..7, CompleteStep(a, step)
    PROVE  /\ recipes' \in [Apps -> Installations]
           /\ Len(recipes'[a].done) = Index(step)
           /\ recipes[a].status # "absent"
           /\ recipes'[a].status = recipes[a].status
           /\ recipes'[a].secrets = recipes[a].secrets
           /\ \A b \in Apps \ {a} : recipes'[b] = recipes[b]
<1> DEFINE done == SubSeq(WordPressSteps, 1, Index(step))
<1>1. recipes' = [recipes EXCEPT ![a].done = done]
  BY DEF CompleteStep, Index
<1>2. done \in Journal /\ Len(done) = Index(step)
  BY PrefixIs
<1> HIDE DEF done
<1>3. recipes \in [Apps -> Installations]
  BY DEF Hosts
<1>4. recipes' \in [Apps -> Installations]
  BY <1>1, <1>2, <1>3 DEF Installations
<1>5. recipes[a].status # "absent"
  BY DEF CompleteStep
<1> QED
  BY <1>1, <1>2, <1>3, <1>4, <1>5 DEF Installations

-----------------------------------------------------------------------------
(* The WordPress recipe.                                                     *)

\* What a step of a command that stays at its task leaves as it was.
Moved(p, a, next) ==
    /\ Commands'
    /\ pc'[p] = next /\ op'[p].app = a /\ op'[p].version = op[p].version
    /\ op'[p].env = op[p].env /\ op'[p].loaded = op[p].loaded
    /\ \A q \in Procs \ {p} : pc'[q] = pc[q] /\ op'[q] = op[q]
    /\ \A q \in Procs : op'[q].app = a => q = p

LEMMA Moves ==
    ASSUME HonestInv, Alone, NEW p \in Procs, NEW a \in Apps, op[p].app = a,
           NEW next, \/ a \in WordPressApps /\ next \in InstallPCs
                     \/ a \in GenericApps /\ next \in GenericPCs
                     \/ next \in RemovalPCs,
           Goto(p, next), op' = op
    PROVE  Moved(p, a, next)
<1>1. Fits(next, op[p])
  BY Mine, RecipesAssumption
     DEF Fits, Labels, InstallPCs, WordPressPCs, SecretPCs, JournalPCs, GenericPCs, RemovalPCs, Apps
<1>2. op' = [op EXCEPT ![p] = op[p]]
  BY DEF HonestInv, Commands
<1>3. /\ Commands' /\ pc'[p] = next /\ op'[p] = op[p]
      /\ \A q \in Procs \ {p} : pc'[q] = pc[q] /\ op'[q] = op[q]
  BY <1>1, <1>2, Going DEF HonestInv, Goto
<1> QED
  BY <1>3, Mine DEF Moved

\* A step that ends with its journal entry.
Entry(a, n) ==
    /\ recipes' \in [Apps -> Installations]
    /\ Len(recipes'[a].done) = n
    /\ recipes[a].status # "absent"
    /\ recipes'[a].status = recipes[a].status
    /\ recipes'[a].secrets = recipes[a].secrets
    /\ \A b \in Apps \ {a} : recipes'[b] = recipes[b]

LEMMA Journaling ==
    ASSUME HonestInv, Alone, NEW p \in Procs, NEW a \in WordPressApps,
           NEW step, Index(step) \in 1..7, NEW next \in InstallPCs,
           WordPressStep(p, a, step, next)
    PROVE  Moved(p, a, next) /\ Entry(a, Index(step))
<1>1. a \in Apps /\ Hosts /\ op[p].app = a /\ Goto(p, next) /\ op' = op
  BY DEF Apps, HonestInv, WordPressStep
<1>2. CompleteStep(a, step)
  BY DEF WordPressStep
<1>3. Moved(p, a, next)
  BY <1>1, Moves
<1>4. Entry(a, Index(step))
  BY <1>1, <1>2, Completing DEF Entry
<1> QED
  BY <1>3, <1>4

LEMMA StageNumbers ==
    /\ Journalled("application") = 0 /\ (\A step \in SecretPCs : Journalled(step) = 1)
    /\ Journalled("inputs") = 1 /\ Journalled("secrets") = 1 /\ Journalled("service") = 2
    /\ Journalled("user") = 2 /\ Journalled("database") = 2 /\ Journalled("runtime") = 3
    /\ Journalled("activate") = 4 /\ Journalled("configure") = 4 /\ Journalled("wordpress") = 4
    /\ Journalled("health") = 5 /\ Journalled("commit") = 6
BY DEF Journalled, SecretPCs

\* What an install has done is what the journal of its stage promises.
LEMMA StageIsEffective ==
    ASSUME NEW p \in Procs, NEW a \in Apps, Staged(p, a)', NEW next \in AfterApplication,
           pc'[p] = next
    PROVE  Effective(a, Journalled(next))'
<1> USE DEF Staged, AfterApplication, SecretPCs, AfterInputs, AfterPassword, AfterSecrets, AfterService, AfterUser, AfterDatabase,
            AfterRuntime, AfterConfigure
<1>1. CASE next \in SecretPCs \cup {"secrets"}
  <2>1. Journalled(next) = 1
    BY <1>1, StageNumbers
  <2> QED
    BY <2>1 DEF Effective
<1>2. CASE next \in {"service", "user", "database"}
  <2>1. Journalled(next) = 2
    BY <1>2, StageNumbers
  <2>2. a \in inputs' /\ password'[a] # 0
    BY <1>2
  <2> QED
    BY <2>1, <2>2 DEF Effective
<1>3. CASE next \in {"runtime"}
  <2>1. Journalled(next) = 3
    BY <1>3, StageNumbers
  <2>2. a \in inputs' /\ password'[a] # 0 /\ a \in service' /\ a \in dbUser'
    BY <1>3
  <2> QED
    BY <2>1, <2>2 DEF Effective
<1>4. CASE next \in {"activate", "configure", "wordpress"}
  <2>1. Journalled(next) = 4
    BY <1>4, StageNumbers
  <2>2. a \in inputs' /\ password'[a] # 0 /\ a \in service' /\ a \in dbUser' /\ a \in configured'
    BY <1>4
  <2> QED
    BY <2>1, <2>2 DEF Effective
<1>5. CASE next \in {"health", "commit"}
  <2>1. Journalled(next) \in {5, 6}
    BY <1>5, StageNumbers
  <2>2. /\ a \in inputs' /\ password'[a] # 0 /\ a \in service' /\ a \in dbUser'
        /\ a \in configured' /\ IsInstalled(a)'
    BY <1>5
  <2> QED
    BY <2>1, <2>2 DEF Effective
<1> QED
  BY <1>1, <1>2, <1>3, <1>4, <1>5

\* The entry of an application whose install has just reached a stage.
LEMMA EntryAtStage ==
    ASSUME NEW p \in Procs, NEW a \in Apps, NEW next \in AfterApplication,
           Moved(p, a, next), Staged(p, a)',
           Len(recipes'[a].done) = Journalled(next), recipes'[a].status = "updating"
    PROVE  Entered(a)'
<1>1. pc'[p] = next /\ op'[p].app = a /\ \A q \in Procs : op'[q].app = a => q = p
  BY DEF Moved
<1>2. Effective(a, Journalled(next))'
  BY <1>1, StageIsEffective
<1>3. Effective(a, Len(recipes[a].done))'
  BY <1>2 DEF Effective, IsInstalled
<1>4. a \in listed'
  BY <1>1 DEF Staged
<1>5. next # "failed"
  BY DEF AfterApplication, SecretPCs
<1> QED
  BY <1>1, <1>3, <1>4, <1>5 DEF Entered

-----------------------------------------------------------------------------
(* The WordPress recipe.                                                     *)

LEMMA HonestApplication ==
    ASSUME HonestInv, Alone, NEW p \in Procs, NEW a \in WordPressApps,
           WordPressApplication(p, a)
    PROVE  HonestInv'
<1> USE DEF WordPressApplication
<1>0. /\ a \in Apps /\ op[p].app = a /\ pc[p] = "application" /\ Hosts
      /\ UNCHANGED <<catalogue, stale, torn>>
  BY DEF Apps, HonestInv, WordPressStep, Quiet
<1>1. Moved(p, a, "inputs") /\ Entry(a, 1)
  BY Journaling, Indices DEF InstallPCs, WordPressPCs, SecretPCs, JournalPCs
<1>2. Hosts'
  BY <1>0, <1>1, Mine DEF Hosts, Entry, Staged, Numbered, AfterApplication, SecretPCs, AfterInputs, AfterPassword, AfterSecrets,
         AfterService, AfterUser, AfterDatabase, AfterRuntime
<1>3. Apart(p, a)
  BY <1>0, <1>1 DEF Apart, Moved, Entry, Hosts
<1>4. Numbered(a)'
  BY <1>0, <1>1, Mine DEF Numbered, Moved, Hosts
<1>5. Working(a)'
  BY <1>0, <1>1, Mine DEF Working, Moved, Hosts, Staged, AfterApplication, SecretPCs, AfterConfigure
<1>6. Staged(p, a)'
  BY <1>0, <1>1, Mine
     DEF Moved, Staged, AfterApplication, SecretPCs, AfterInputs, AfterPassword, AfterSecrets, AfterService, AfterUser, AfterDatabase,
         AfterRuntime, AfterConfigure, RemovalPCs, Hosts, IsInstalled
<1>7. ASSUME ~stale'
      PROVE  Entered(a)'
  <2>1. Entered(a)
    BY <1>0, <1>7, Mine
  <2>2. Len(recipes'[a].done) = Journalled("inputs") /\ recipes'[a].status = "updating"
    BY <1>0, <1>1, <2>1, StageNumbers DEF Entered, WordPressPCs, SecretPCs, JournalPCs, Entry
  <2> QED
    BY <1>0, <1>1, <1>6, <2>2, EntryAtStage DEF AfterApplication, SecretPCs
<1>8. Honest(a)'
  BY <1>0, <1>1, <1>4, <1>5, <1>6, <1>7, RecipesAssumption DEF Honest, Moved
<1> QED
  BY <1>0, <1>1, <1>2, <1>3, <1>8, Combined DEF Moved

\* A step on the secrets, of either kind of recipe.
LEMMA HonestSecretStep ==
    ASSUME HonestInv, Alone, NEW p \in Procs, NEW a \in Apps, NEW step \in SecretPCs, NEW next,
           \/ next \in SecretPCs \ {"inputs"}
           \/ next = "secrets" /\ a \in WordPressApps
           \/ next = "generic_services" /\ a \in GenericApps,
           SecretStep(p, a, step, next),
           inputs' \subseteq Apps, \A b \in Apps \ {a} : b \in inputs' <=> b \in inputs, a \in inputs',
           password' \in [Apps -> Nat], generated' \in [Apps -> Nat],
           \A b \in Apps \ {a} : password'[b] = password[b] /\ generated'[b] = generated[b],
           Numbered(a)',
           next \in {"reference", "secrets", "generic_services"} => password'[a] # 0
    PROVE  HonestInv'
<1>0. /\ op[p].app = a /\ pc[p] = step /\ Hosts /\ Goto(p, next) /\ op' = op
      /\ UNCHANGED <<recipes, catalogue, stale, torn, listed, configured, service, dbSecret, dbUser,
                     current, wpConfig, site, bound>>
  BY DEF HonestInv, SecretStep, Quiet
<1>1. Moved(p, a, next)
  BY <1>0, Moves DEF InstallPCs, WordPressPCs, SecretPCs, JournalPCs, GenericPCs, Apps
<1>2. Hosts'
  BY <1>0 DEF Hosts
<1>3. Apart(p, a)
  BY <1>0, <1>1 DEF Apart, Moved
<1>4. Working(a)'
  <2>1. Working(a) /\ step # "configure"
    BY <1>0, Mine DEF SecretPCs
  <2> QED
    BY <1>0, <1>1, <2>1 DEF Working, Moved
<1>5. Staged(p, a)'
  <2>1. a \in listed
    BY <1>0, Mine DEF Staged, AfterApplication
  <2> QED
    BY <1>0, <1>1, <2>1
       DEF Moved, Staged, AfterApplication, SecretPCs, AfterInputs, AfterPassword, AfterSecrets,
           AfterService, AfterUser, AfterDatabase, AfterRuntime, AfterConfigure, RemovalPCs
<1>6. ASSUME ~stale'
      PROVE  /\ a \in WordPressApps => Entered(a)'
             /\ a \in GenericApps => Kept(a)'
  <2>1. ASSUME a \in WordPressApps
        PROVE  Entered(a)'
    <3>1. Entered(a)
      BY <1>0, <1>6, <2>1, Mine
    <3>2. next \in SecretPCs \cup {"secrets"}
      BY <2>1, RecipesAssumption
    <3>3. Len(recipes'[a].done) = Journalled(next) /\ recipes'[a].status = "updating"
      BY <1>0, <3>1, <3>2, StageNumbers DEF Entered, WordPressPCs
    <3> QED
      BY <1>1, <1>5, <3>2, <3>3, EntryAtStage DEF AfterApplication
  <2>2. ASSUME a \in GenericApps
        PROVE  Kept(a)'
    BY <1>0, <1>1, <1>6, <2>2, Mine DEF Kept, Undertaken, Moved
  <2> QED
    BY <2>1, <2>2
<1>7. Honest(a)'
  BY <1>0, <1>1, <1>4, <1>5, <1>6 DEF Honest, Moved
<1> QED
  BY <1>0, <1>1, <1>2, <1>3, <1>7, Combined DEF Moved

LEMMA HonestSecretSteps ==
    ASSUME HonestInv, Alone, NEW p \in Procs, NEW a \in Apps, Secrets(p, a)
    PROVE  HonestInv'
<1>0. /\ inputs \subseteq Apps /\ password \in [Apps -> Nat] /\ generated \in [Apps -> Nat]
      /\ op[p].app = a /\ MaxSecrets \in Nat
  BY RecipesAssumption
     DEF HonestInv, Hosts, Secrets, StoreInputs, FindPassword, CreatePassword, WritePassword,
         ReferencePassword, SecretStep
<1>1. Numbered(a) /\ Staged(p, a)
  BY <1>0, Mine
<1>2. pc[p] \in SecretPCs \ {"inputs"} => a \in inputs
  BY <1>1 DEF Staged, AfterInputs, AfterApplication
<1>3. CASE StoreInputs(p, a)
  <2>1. SecretStep(p, a, "inputs", "password") /\ Numbered(a)'
    BY <1>1, <1>3 DEF StoreInputs, Numbered
  <2> QED
    BY <1>0, <1>3, <2>1, HonestSecretStep DEF StoreInputs, SecretPCs
<1>4. CASE FindPassword(p, a)
  <2>1. Numbered(a)' /\ a \in inputs
    BY <1>1, <1>2, <1>4 DEF FindPassword, SecretStep, Numbered, SecretPCs
  <2>2. CASE password[a] # 0
    <3>1. SecretStep(p, a, "password", "reference")
      BY <1>4, <2>2 DEF FindPassword
    <3> QED
      BY <1>0, <1>4, <2>1, <2>2, <3>1, HonestSecretStep DEF FindPassword, SecretPCs
  <2>3. CASE password[a] = 0
    <3>1. SecretStep(p, a, "password", "create")
      BY <1>4, <2>3 DEF FindPassword
    <3> QED
      BY <1>0, <1>4, <2>1, <2>3, <3>1, HonestSecretStep DEF FindPassword, SecretPCs
  <2> QED
    BY <2>2, <2>3
<1>5. CASE CreatePassword(p, a)
  <2>1. Numbered(a)' /\ a \in inputs /\ SecretStep(p, a, "create", "write")
    BY <1>1, <1>2, <1>5 DEF CreatePassword, SecretStep, Numbered, SecretPCs
  <2> QED
    BY <1>0, <1>5, <2>1, HonestSecretStep DEF CreatePassword, SecretPCs
<1>6. CASE WritePassword(p, a)
  <2>1. a \in inputs /\ SecretStep(p, a, "write", "reference") /\ generated[a] < MaxSecrets
    BY <1>2, <1>6 DEF WritePassword, SecretStep, SecretPCs
  <2>2. /\ password' \in [Apps -> Nat] /\ generated' \in [Apps -> Nat]
        /\ password'[a] = generated[a] + 1 /\ generated'[a] = generated[a] + 1
        /\ \A b \in Apps \ {a} : password'[b] = password[b] /\ generated'[b] = generated[b]
        /\ inputs' = inputs
    BY <1>0, <1>6 DEF WritePassword
  <2>3. Numbered(a)' /\ password'[a] # 0
    BY <1>0, <2>1, <2>2 DEF Numbered
  <2> QED
    BY <1>0, <2>1, <2>2, <2>3, HonestSecretStep DEF SecretPCs
<1>7. CASE ReferencePassword(p, a)
  <2>1. Numbered(a)' /\ a \in inputs /\ password[a] # 0
    BY <1>1, <1>2, <1>7 DEF ReferencePassword, SecretStep, Numbered, SecretPCs
  <2>2. CASE a \in WordPressApps
    <3>1. SecretStep(p, a, "reference", "secrets")
      BY <1>7, <2>2 DEF ReferencePassword
    <3> QED
      BY <1>0, <1>7, <2>1, <2>2, <3>1, HonestSecretStep DEF ReferencePassword, SecretPCs
  <2>3. CASE a \notin WordPressApps
    <3>1. SecretStep(p, a, "reference", "generic_services") /\ a \in GenericApps
      BY <1>7, <2>3 DEF ReferencePassword, Apps
    <3> QED
      BY <1>0, <1>7, <2>1, <3>1, HonestSecretStep DEF ReferencePassword, SecretPCs
  <2> QED
    BY <2>2, <2>3
<1> QED
  BY <1>3, <1>4, <1>5, <1>6, <1>7 DEF Secrets

LEMMA HonestSecrets ==
    ASSUME HonestInv, Alone, NEW p \in Procs, NEW a \in WordPressApps,
           WordPressSecrets(p, a)
    PROVE  HonestInv'
<1> USE DEF WordPressSecrets, world
<1>0. /\ a \in Apps /\ op[p].app = a /\ pc[p] = "secrets" /\ Hosts
      /\ UNCHANGED <<catalogue, stale, torn>>
  BY DEF Apps, HonestInv, WordPressStep, Quiet
<1>1. Moved(p, a, "service") /\ Entry(a, 2)
  BY Journaling, Indices DEF InstallPCs, WordPressPCs, SecretPCs, JournalPCs
<1>2. Hosts'
  BY <1>0, <1>1, Mine DEF Hosts, Entry, Staged, Numbered, AfterApplication, SecretPCs, AfterInputs, AfterPassword, AfterSecrets,
         AfterService, AfterUser, AfterDatabase, AfterRuntime
<1>3. Apart(p, a)
  BY <1>0, <1>1 DEF Apart, Moved, Entry, Hosts
<1>4. Numbered(a)'
  BY <1>0, <1>1, Mine DEF Numbered, Moved, Hosts
<1>5. Working(a)'
  BY <1>0, <1>1, Mine DEF Working, Moved, Hosts, Staged, AfterApplication, SecretPCs, AfterConfigure
<1>6. Staged(p, a)'
  BY <1>0, <1>1, Mine
     DEF Moved, Staged, AfterApplication, SecretPCs, AfterInputs, AfterPassword, AfterSecrets, AfterService, AfterUser, AfterDatabase,
         AfterRuntime, AfterConfigure, RemovalPCs, Hosts, IsInstalled
<1>7. ASSUME ~stale'
      PROVE  Entered(a)'
  <2>1. Entered(a)
    BY <1>0, <1>7, Mine
  <2>2. Len(recipes'[a].done) = Journalled("service") /\ recipes'[a].status = "updating"
    BY <1>0, <1>1, <2>1, StageNumbers DEF Entered, WordPressPCs, SecretPCs, JournalPCs, Entry
  <2> QED
    BY <1>0, <1>1, <1>6, <2>2, EntryAtStage DEF AfterApplication, SecretPCs
<1>8. Honest(a)'
  BY <1>0, <1>1, <1>4, <1>5, <1>6, <1>7, RecipesAssumption DEF Honest, Moved
<1> QED
  BY <1>0, <1>1, <1>2, <1>3, <1>8, Combined DEF Moved

LEMMA HonestService ==
    ASSUME HonestInv, Alone, NEW p \in Procs, NEW a \in WordPressApps,
           WordPressService(p, a)
    PROVE  HonestInv'
<1> USE DEF WordPressService
<1>0. /\ a \in Apps /\ op[p].app = a /\ pc[p] = "service" /\ Hosts
      /\ UNCHANGED <<catalogue, stale, torn>>
  BY DEF Apps, HonestInv, WordPressStep, Quiet
<1>1. Moved(p, a, "user")
  BY <1>0, Moves DEF InstallPCs, WordPressPCs, SecretPCs, JournalPCs
<1>2. Hosts'
  BY <1>0, <1>1, Mine DEF Hosts, Entry, Staged, Numbered, AfterApplication, SecretPCs, AfterInputs, AfterPassword, AfterSecrets,
         AfterService, AfterUser, AfterDatabase, AfterRuntime
<1>3. Apart(p, a)
  BY <1>0, <1>1 DEF Apart, Moved, Entry, Hosts
<1>4. Numbered(a)'
  BY <1>0, <1>1, Mine DEF Numbered, Moved, Hosts
<1>5. Working(a)'
  BY <1>0, <1>1, Mine DEF Working, Moved, Hosts, Staged, AfterApplication, SecretPCs, AfterConfigure
<1>6. Staged(p, a)'
  BY <1>0, <1>1, Mine
     DEF Moved, Staged, AfterApplication, SecretPCs, AfterInputs, AfterPassword, AfterSecrets, AfterService, AfterUser, AfterDatabase,
         AfterRuntime, AfterConfigure, RemovalPCs, Hosts, IsInstalled
<1>7. ASSUME ~stale'
      PROVE  Entered(a)'
  <2>1. Entered(a)
    BY <1>0, <1>7, Mine
  <2>2. Len(recipes'[a].done) = Journalled("user") /\ recipes'[a].status = "updating"
    BY <1>0, <1>1, <2>1, StageNumbers DEF Entered, WordPressPCs, SecretPCs, JournalPCs, Entry
  <2> QED
    BY <1>0, <1>1, <1>6, <2>2, EntryAtStage DEF AfterApplication, SecretPCs
<1>8. Honest(a)'
  BY <1>0, <1>1, <1>4, <1>5, <1>6, <1>7, RecipesAssumption DEF Honest, Moved
<1> QED
  BY <1>0, <1>1, <1>2, <1>3, <1>8, Combined DEF Moved

LEMMA HonestUser ==
    ASSUME HonestInv, Alone, NEW p \in Procs, NEW a \in WordPressApps,
           WordPressUserSecret(p, a)
    PROVE  HonestInv'
<1> USE DEF WordPressUserSecret
<1>0. /\ a \in Apps /\ op[p].app = a /\ pc[p] = "user" /\ Hosts
      /\ UNCHANGED <<catalogue, stale, torn>>
  BY DEF Apps, HonestInv, WordPressStep, Quiet
<1>1. Moved(p, a, "database")
  BY <1>0, Moves DEF InstallPCs, WordPressPCs, SecretPCs, JournalPCs
<1>2. Hosts'
  BY <1>0, <1>1, Mine DEF Hosts, Entry, Staged, Numbered, AfterApplication, SecretPCs, AfterInputs, AfterPassword, AfterSecrets,
         AfterService, AfterUser, AfterDatabase, AfterRuntime
<1>3. Apart(p, a)
  BY <1>0, <1>1 DEF Apart, Moved, Entry, Hosts
<1>4. Numbered(a)'
  BY <1>0, <1>1, Mine DEF Numbered, Moved, Hosts
<1>5. Working(a)'
  BY <1>0, <1>1, Mine DEF Working, Moved, Hosts, Staged, AfterApplication, SecretPCs, AfterConfigure
<1>6. Staged(p, a)'
  BY <1>0, <1>1, Mine
     DEF Moved, Staged, AfterApplication, SecretPCs, AfterInputs, AfterPassword, AfterSecrets, AfterService, AfterUser, AfterDatabase,
         AfterRuntime, AfterConfigure, RemovalPCs, Hosts, IsInstalled
<1>7. ASSUME ~stale'
      PROVE  Entered(a)'
  <2>1. Entered(a)
    BY <1>0, <1>7, Mine
  <2>2. Len(recipes'[a].done) = Journalled("database") /\ recipes'[a].status = "updating"
    BY <1>0, <1>1, <2>1, StageNumbers DEF Entered, WordPressPCs, SecretPCs, JournalPCs, Entry
  <2> QED
    BY <1>0, <1>1, <1>6, <2>2, EntryAtStage DEF AfterApplication, SecretPCs
<1>8. Honest(a)'
  BY <1>0, <1>1, <1>4, <1>5, <1>6, <1>7, RecipesAssumption DEF Honest, Moved
<1> QED
  BY <1>0, <1>1, <1>2, <1>3, <1>8, Combined DEF Moved

LEMMA HonestDatabase ==
    ASSUME HonestInv, Alone, NEW p \in Procs, NEW a \in WordPressApps,
           WordPressDatabase(p, a)
    PROVE  HonestInv'
<1> USE DEF WordPressDatabase
<1>0. /\ a \in Apps /\ op[p].app = a /\ pc[p] = "database" /\ Hosts
      /\ UNCHANGED <<catalogue, stale, torn>>
  BY DEF Apps, HonestInv, WordPressStep, Quiet
<1>1. Moved(p, a, "runtime") /\ Entry(a, 3)
  BY Journaling, Indices DEF InstallPCs, WordPressPCs, SecretPCs, JournalPCs
<1>2. Hosts'
  BY <1>0, <1>1, Mine DEF Hosts, Entry, Staged, Numbered, AfterApplication, SecretPCs, AfterInputs, AfterPassword, AfterSecrets,
         AfterService, AfterUser, AfterDatabase, AfterRuntime
<1>3. Apart(p, a)
  BY <1>0, <1>1 DEF Apart, Moved, Entry, Hosts
<1>4. Numbered(a)'
  BY <1>0, <1>1, Mine DEF Numbered, Moved, Hosts
<1>5. Working(a)'
  BY <1>0, <1>1, Mine DEF Working, Moved, Hosts, Staged, AfterApplication, SecretPCs, AfterConfigure
<1>6. Staged(p, a)'
  BY <1>0, <1>1, Mine
     DEF Moved, Staged, AfterApplication, SecretPCs, AfterInputs, AfterPassword, AfterSecrets, AfterService, AfterUser, AfterDatabase,
         AfterRuntime, AfterConfigure, RemovalPCs, Hosts, IsInstalled
<1>7. ASSUME ~stale'
      PROVE  Entered(a)'
  <2>1. Entered(a)
    BY <1>0, <1>7, Mine
  <2>2. Len(recipes'[a].done) = Journalled("runtime") /\ recipes'[a].status = "updating"
    BY <1>0, <1>1, <2>1, StageNumbers DEF Entered, WordPressPCs, SecretPCs, JournalPCs, Entry
  <2> QED
    BY <1>0, <1>1, <1>6, <2>2, EntryAtStage DEF AfterApplication, SecretPCs
<1>8. Honest(a)'
  BY <1>0, <1>1, <1>4, <1>5, <1>6, <1>7, RecipesAssumption DEF Honest, Moved
<1> QED
  BY <1>0, <1>1, <1>2, <1>3, <1>8, Combined DEF Moved

LEMMA HonestRuntime ==
    ASSUME HonestInv, Alone, NEW p \in Procs, NEW a \in WordPressApps,
           WordPressRuntime(p, a)
    PROVE  HonestInv'
<1> USE DEF WordPressRuntime
<1>0. /\ a \in Apps /\ op[p].app = a /\ pc[p] = "runtime" /\ Hosts
      /\ UNCHANGED <<catalogue, stale, torn>>
  BY DEF Apps, HonestInv, WordPressStep, Quiet
<1>1. Moved(p, a, "activate") /\ Entry(a, 4)
  BY Journaling, Indices DEF InstallPCs, WordPressPCs, SecretPCs, JournalPCs
<1>2. Hosts'
  BY <1>0, <1>1, Mine DEF Hosts, Entry, Staged, Numbered, AfterApplication, SecretPCs, AfterInputs, AfterPassword, AfterSecrets,
         AfterService, AfterUser, AfterDatabase, AfterRuntime
<1>3. Apart(p, a)
  BY <1>0, <1>1 DEF Apart, Moved, Entry, Hosts
<1>4. Numbered(a)'
  BY <1>0, <1>1, Mine DEF Numbered, Moved, Hosts
<1>5. Working(a)'
  BY <1>0, <1>1, Mine DEF Working, Moved, Hosts, Staged, AfterApplication, SecretPCs, AfterConfigure
<1>6. Staged(p, a)'
  BY <1>0, <1>1, Mine
     DEF Moved, Staged, AfterApplication, SecretPCs, AfterInputs, AfterPassword, AfterSecrets, AfterService, AfterUser, AfterDatabase,
         AfterRuntime, AfterConfigure, RemovalPCs, Hosts, IsInstalled
<1>7. ASSUME ~stale'
      PROVE  Entered(a)'
  <2>1. Entered(a)
    BY <1>0, <1>7, Mine
  <2>2. Len(recipes'[a].done) = Journalled("activate") /\ recipes'[a].status = "updating"
    BY <1>0, <1>1, <2>1, StageNumbers DEF Entered, WordPressPCs, SecretPCs, JournalPCs, Entry
  <2> QED
    BY <1>0, <1>1, <1>6, <2>2, EntryAtStage DEF AfterApplication, SecretPCs
<1>8. Honest(a)'
  BY <1>0, <1>1, <1>4, <1>5, <1>6, <1>7, RecipesAssumption DEF Honest, Moved
<1> QED
  BY <1>0, <1>1, <1>2, <1>3, <1>8, Combined DEF Moved

LEMMA HonestConfigure ==
    ASSUME HonestInv, Alone, NEW p \in Procs, NEW a \in WordPressApps,
           WordPressConfigure(p, a)
    PROVE  HonestInv'
<1> USE DEF WordPressConfigure
<1>0. /\ a \in Apps /\ op[p].app = a /\ pc[p] = "configure" /\ Hosts
      /\ UNCHANGED <<catalogue, stale, torn>>
  BY DEF Apps, HonestInv, WordPressStep, Quiet
<1>1. Moved(p, a, "wordpress")
  BY <1>0, Moves DEF InstallPCs, WordPressPCs, SecretPCs, JournalPCs
<1>2. Hosts'
  BY <1>0, <1>1, Mine DEF Hosts, Entry, Staged, Numbered, AfterApplication, SecretPCs, AfterInputs, AfterPassword, AfterSecrets,
         AfterService, AfterUser, AfterDatabase, AfterRuntime
<1>3. Apart(p, a)
  BY <1>0, <1>1 DEF Apart, Moved, Entry, Hosts
<1>4. Numbered(a)'
  BY <1>0, <1>1, Mine DEF Numbered, Moved, Hosts
<1>5. Working(a)'
  BY <1>0, <1>1, Mine DEF Working, Moved, Hosts, Staged, AfterApplication, SecretPCs, AfterConfigure
<1>6. Staged(p, a)'
  BY <1>0, <1>1, Mine
     DEF Moved, Staged, AfterApplication, SecretPCs, AfterInputs, AfterPassword, AfterSecrets, AfterService, AfterUser, AfterDatabase,
         AfterRuntime, AfterConfigure, RemovalPCs, Hosts, IsInstalled
<1>7. ASSUME ~stale'
      PROVE  Entered(a)'
  <2>1. Entered(a)
    BY <1>0, <1>7, Mine
  <2>2. Len(recipes'[a].done) = Journalled("wordpress") /\ recipes'[a].status = "updating"
    BY <1>0, <1>1, <2>1, StageNumbers DEF Entered, WordPressPCs, SecretPCs, JournalPCs, Entry
  <2> QED
    BY <1>0, <1>1, <1>6, <2>2, EntryAtStage DEF AfterApplication, SecretPCs
<1>8. Honest(a)'
  BY <1>0, <1>1, <1>4, <1>5, <1>6, <1>7, RecipesAssumption DEF Honest, Moved
<1> QED
  BY <1>0, <1>1, <1>2, <1>3, <1>8, Combined DEF Moved

LEMMA HonestPersist ==
    ASSUME HonestInv, Alone, NEW p \in Procs, NEW a \in WordPressApps,
           WordPressPersist(p, a)
    PROVE  HonestInv'
<1> USE DEF WordPressPersist
<1>0. /\ a \in Apps /\ op[p].app = a /\ pc[p] = "wordpress" /\ Hosts
      /\ UNCHANGED <<catalogue, stale, torn>>
  BY DEF Apps, HonestInv, WordPressStep, Quiet
<1>1. Moved(p, a, "health") /\ Entry(a, 5)
  BY Journaling, Indices DEF InstallPCs, WordPressPCs, SecretPCs, JournalPCs
<1>2. Hosts'
  BY <1>0, <1>1, Mine DEF Hosts, Entry, Staged, Numbered, AfterApplication, SecretPCs, AfterInputs, AfterPassword, AfterSecrets,
         AfterService, AfterUser, AfterDatabase, AfterRuntime
<1>3. Apart(p, a)
  BY <1>0, <1>1 DEF Apart, Moved, Entry, Hosts
<1>4. Numbered(a)'
  BY <1>0, <1>1, Mine DEF Numbered, Moved, Hosts
<1>5. Working(a)'
  BY <1>0, <1>1, Mine DEF Working, Moved, Hosts, Staged, AfterApplication, SecretPCs, AfterConfigure
<1>6. Staged(p, a)'
  BY <1>0, <1>1, Mine
     DEF Moved, Staged, AfterApplication, SecretPCs, AfterInputs, AfterPassword, AfterSecrets, AfterService, AfterUser, AfterDatabase,
         AfterRuntime, AfterConfigure, RemovalPCs, Hosts, IsInstalled
<1>7. ASSUME ~stale'
      PROVE  Entered(a)'
  <2>1. Entered(a)
    BY <1>0, <1>7, Mine
  <2>2. Len(recipes'[a].done) = Journalled("health") /\ recipes'[a].status = "updating"
    BY <1>0, <1>1, <2>1, StageNumbers DEF Entered, WordPressPCs, SecretPCs, JournalPCs, Entry
  <2> QED
    BY <1>0, <1>1, <1>6, <2>2, EntryAtStage DEF AfterApplication, SecretPCs
<1>8. Honest(a)'
  BY <1>0, <1>1, <1>4, <1>5, <1>6, <1>7, RecipesAssumption DEF Honest, Moved
<1> QED
  BY <1>0, <1>1, <1>2, <1>3, <1>8, Combined DEF Moved

LEMMA HonestHealth ==
    ASSUME HonestInv, Alone, NEW p \in Procs, NEW a \in WordPressApps,
           WordPressHealth(p, a)
    PROVE  HonestInv'
<1> USE DEF WordPressHealth, world
<1>0. /\ a \in Apps /\ op[p].app = a /\ pc[p] = "health" /\ Hosts
      /\ UNCHANGED <<catalogue, stale, torn>>
  BY DEF Apps, HonestInv, WordPressStep, Quiet
<1>1. Moved(p, a, "commit") /\ Entry(a, 6)
  BY Journaling, Indices DEF InstallPCs, WordPressPCs, SecretPCs, JournalPCs
<1>2. Hosts'
  BY <1>0, <1>1, Mine DEF Hosts, Entry, Staged, Numbered, AfterApplication, SecretPCs, AfterInputs, AfterPassword, AfterSecrets,
         AfterService, AfterUser, AfterDatabase, AfterRuntime
<1>3. Apart(p, a)
  BY <1>0, <1>1 DEF Apart, Moved, Entry, Hosts
<1>4. Numbered(a)'
  BY <1>0, <1>1, Mine DEF Numbered, Moved, Hosts
<1>5. Working(a)'
  BY <1>0, <1>1, Mine DEF Working, Moved, Hosts, Staged, AfterApplication, SecretPCs, AfterConfigure
<1>6. Staged(p, a)'
  BY <1>0, <1>1, Mine
     DEF Moved, Staged, AfterApplication, SecretPCs, AfterInputs, AfterPassword, AfterSecrets, AfterService, AfterUser, AfterDatabase,
         AfterRuntime, AfterConfigure, RemovalPCs, Hosts, IsInstalled
<1>7. ASSUME ~stale'
      PROVE  Entered(a)'
  <2>1. Entered(a)
    BY <1>0, <1>7, Mine
  <2>2. Len(recipes'[a].done) = Journalled("commit") /\ recipes'[a].status = "updating"
    BY <1>0, <1>1, <2>1, StageNumbers DEF Entered, WordPressPCs, SecretPCs, JournalPCs, Entry
  <2> QED
    BY <1>0, <1>1, <1>6, <2>2, EntryAtStage DEF AfterApplication, SecretPCs
<1>8. Honest(a)'
  BY <1>0, <1>1, <1>4, <1>5, <1>6, <1>7, RecipesAssumption DEF Honest, Moved
<1> QED
  BY <1>0, <1>1, <1>2, <1>3, <1>8, Combined DEF Moved

LEMMA HonestActivate ==
    ASSUME HonestInv, Alone, NEW p \in Procs, NEW a \in WordPressApps,
           WordPressActivate(p, a)
    PROVE  HonestInv'
<1> USE DEF WordPressActivate
<1>0. /\ a \in Apps /\ op[p].app = a /\ pc[p] = "activate" /\ Hosts
      /\ UNCHANGED <<catalogue, stale, torn>>
  BY DEF Apps, HonestInv, Quiet
<1>1. Moved(p, a, "configure") /\ op'[p].previous = current[a]
  <2> DEFINE o == [op[p] EXCEPT !.previous = current[a]]
  <2>1. op[p] \in Operations /\ op[p].version # 0
    BY <1>0, Mine
  <2>2. /\ o.app = a /\ o.version = op[p].version /\ o.env = op[p].env
        /\ o.loaded = op[p].loaded /\ o.previous = current[a] /\ o \in Operations
    BY <1>0, <2>1 DEF Operations, Hosts
  <2>3. op' = [op EXCEPT ![p] = o]
    BY DEF HonestInv, Commands
  <2> HIDE DEF o
  <2>4. Fits("configure", o)
    BY <1>0, <2>1, <2>2
       DEF Fits, Labels, InstallPCs, WordPressPCs, SecretPCs, JournalPCs, GenericPCs, RemovalPCs
  <2>5. pc' = [pc EXCEPT ![p] = "configure"]
    BY DEF Goto
  <2>6. /\ Commands' /\ pc'[p] = "configure" /\ op'[p] = o
        /\ \A q \in Procs \ {p} : pc'[q] = pc[q] /\ op'[q] = op[q]
    BY <2>3, <2>4, <2>5, Going DEF HonestInv
  <2> QED
    BY <1>0, <2>2, <2>6, Mine DEF Moved
<1>2. /\ current' \in [Apps -> 0..MaxVersion] /\ current'[a] = op[p].version /\ op[p].version # 0
      /\ \A b \in Apps \ {a} : current'[b] = current[b]
  BY <1>0, Mine DEF Hosts, Operations
<1>3. Hosts'
  <2>1. \A b \in GenericApps : b \in Apps \ {a}
    BY RecipesAssumption DEF Apps
  <2>2. \A b \in GenericApps : current'[b] = 0
    BY <1>0, <1>2, <2>1 DEF Hosts
  <2> QED
    BY <1>0, <1>2, <2>2 DEF Hosts
<1>4. Apart(p, a)
  BY <1>0, <1>1, <1>2 DEF Apart, Moved
<1>5. Numbered(a)'
  BY <1>0, <1>1, Mine DEF Numbered, Moved
<1>6. Working(a)'
  BY <1>0, <1>1, Mine DEF Working, Moved, Staged, AfterApplication, SecretPCs
<1>7. Staged(p, a)'
  <2>1. a \notin torn /\ current[a] # 0 => current[a] \in wpConfig[a]
    BY <1>0, Mine DEF Working
  <2> QED
    BY <1>0, <1>1, <1>2, <2>1, Mine
       DEF Moved, Staged, AfterApplication, SecretPCs, AfterInputs, AfterPassword, AfterSecrets, AfterService, AfterUser, AfterDatabase,
           AfterRuntime, AfterConfigure, RemovalPCs
<1>8. ASSUME ~stale'
      PROVE  Entered(a)'
  <2>1. Len(recipes'[a].done) = Journalled("configure") /\ recipes'[a].status = "updating"
    BY <1>0, <1>8, Mine, StageNumbers DEF Entered, WordPressPCs, SecretPCs, JournalPCs
  <2> QED
    BY <1>0, <1>1, <1>7, <2>1, EntryAtStage DEF AfterApplication, SecretPCs
<1>9. Honest(a)'
  BY <1>0, <1>1, <1>5, <1>6, <1>7, <1>8, RecipesAssumption DEF Honest, Moved
<1> QED
  BY <1>0, <1>1, <1>3, <1>4, <1>9, Combined DEF Moved

-----------------------------------------------------------------------------
(* The end of a command.                                                     *)

LEMMA NothingRecorded ==
    /\ <<>> \in Journal /\ Len(<<>>) = 0
    /\ NoInstallation \in Installations /\ NoInstallation.status = "absent"
    /\ NoInstallation.done = <<>>
    /\ Idle \in Operations /\ Idle.app = "none"
<1>1. SubSeq(WordPressSteps, 1, 0) = <<>>
  BY SubSeqEmpty
<1>2. <<>> \in Journal
  <2>1. 0 \in 0..7
    OBVIOUS
  <2> QED
    BY <1>1, <2>1, PrefixIs
<1>3. NoInstallation \in Installations /\ NoInstallation.status = "absent" /\ NoInstallation.done = <<>>
  BY <1>2, RecipesAssumption DEF NoInstallation, Installations
<1>4. Idle \in Operations /\ Idle.app = "none"
  BY <1>3, RecipesAssumption DEF Idle, Operations
<1> QED
  BY <1>2, <1>3, <1>4

Ended(p, a) ==
    /\ Commands'
    /\ pc'[p] = "idle" /\ op'[p].app = "none"
    /\ \A q \in Procs \ {p} : pc'[q] = pc[q] /\ op'[q] = op[q]
    /\ \A q \in Procs : op'[q].app # a

LEMMA Ends ==
    ASSUME HonestInv, Alone, NEW p \in Procs, NEW a \in Apps, op[p].app = a,
           Goto(p, "idle"), op' = [op EXCEPT ![p] = Idle]
    PROVE  Ended(p, a)
<1>1. Fits("idle", Idle)
  BY NothingRecorded
     DEF Fits, Labels, InstallPCs, WordPressPCs, SecretPCs, JournalPCs, GenericPCs, RemovalPCs
<1>2. pc' = [pc EXCEPT ![p] = "idle"]
  BY DEF Goto
<1>b. Commands
  BY DEF HonestInv
<1>3. Commands'
  BY <1>1, <1>2, <1>b, Going
<1>4. /\ pc'[p] = "idle" /\ op'[p] = Idle
      /\ \A q \in Procs \ {p} : pc'[q] = pc[q] /\ op'[q] = op[q]
  BY <1>2, <1>b DEF Commands
<1> QED
  BY <1>3, <1>4, Mine, NothingRecorded DEF Ended

\* The parts that no ending disturbs.
LEMMA EndedParts ==
    ASSUME HonestInv, Alone, NEW p \in Procs, NEW a \in Apps, op[p].app = a, Ended(p, a),
           UNCHANGED <<password, generated, listed, wpConfig, current>>,
           a \in torn' \/ pc[p] # "configure", a \notin torn' => a \notin torn \/ current[a] \in wpConfig[a]
    PROVE  Numbered(a)' /\ Working(a)' /\ (\A q \in Procs : op'[q].app = a => Staged(q, a)')
<1>1. Numbered(a) /\ Working(a) /\ \A q \in Procs : op[q].app = a => q = p
  BY Mine
<1>2. Numbered(a)'
  BY <1>1 DEF Numbered, Ended
<1>3. Working(a)'
  BY <1>1 DEF Working, Ended
<1> QED
  BY <1>2, <1>3 DEF Ended

LEMMA Recorded ==
    ASSUME NEW f \in [Apps -> Installations], NEW a \in Apps, NEW e \in Installations,
           NEW g, g = [f EXCEPT ![a] = e]
    PROVE  g \in [Apps -> Installations] /\ g[a] = e /\ \A b \in Apps \ {a} : g[b] = f[b]
OBVIOUS

\* The entry of an installation that has just been committed.
Whole(e, w) == e \in Installations /\ e.status = "installed" /\ e.secrets = TRUE /\ e.done = w

LEMMA Committed ==
    ASSUME NEW v \in Installations, NEW b \in BOOLEAN, NEW w \in Journal, NEW e,
           e = [v EXCEPT !.status = "installed", !.secrets = TRUE, !.bindings = b, !.done = w]
    PROVE  Whole(e, w)
<1>1. e.status = "installed" /\ e.secrets = TRUE /\ e.bindings = b
  BY DEF Installations
<1>2. e.done = w /\ e.version = v.version
  BY DEF Installations
<1>3. e = [ status |-> e.status, version |-> e.version, secrets |-> e.secrets,
            bindings |-> e.bindings, done |-> e.done ]
  BY DEF Installations
<1>4. v.version \in 0..MaxVersion
  BY DEF Installations
<1>5. e \in Installations
  BY <1>1, <1>2, <1>3, <1>4 DEF Installations
<1> QED
  BY <1>1, <1>2, <1>5 DEF Whole

LEMMA HonestCommit ==
    ASSUME HonestInv, Alone, NEW p \in Procs, NEW a \in WordPressApps,
           WordPressCommit(p, a)
    PROVE  HonestInv'
<1>0. /\ a \in Apps /\ op[p].app = a /\ pc[p] = "commit" /\ Hosts
      /\ UNCHANGED <<catalogue, stale>> /\ torn' = torn \ {a}
      /\ Goto(p, "idle") /\ op' = [op EXCEPT ![p] = Idle]
      /\ UNCHANGED <<listed, configured, inputs, password, generated, service, dbSecret,
                     dbUser, current, wpConfig, site, bound>>
  BY DEF Apps, HonestInv, WordPressCommit, world
<1>1. Ended(p, a)
  BY <1>0, Ends
<1>2. WordPressSteps \in Journal /\ Len(WordPressSteps) = 7
  <2>1. Len(WordPressSteps) = 7
    BY StepNames
  <2>2. SubSeq(WordPressSteps, 1, Len(WordPressSteps)) = WordPressSteps
    <3>1. WordPressSteps \in Seq(Steps)
      BY DEF WordPressSteps, Steps
    <3> QED
      BY <3>1, SubSeqFull
  <2>3. 7 \in 0..7
    OBVIOUS
  <2> QED
    BY <2>1, <2>2, <2>3, PrefixIs
<1>3. /\ recipes' \in [Apps -> Installations]
      /\ recipes'[a].status = "installed" /\ recipes'[a].secrets
      /\ Len(recipes'[a].done) = 7
      /\ \A b \in Apps \ {a} : recipes'[b] = recipes[b]
  <2> DEFINE w == WordPressSteps
  <2>1. recipes' = [recipes EXCEPT ![a].status = "installed", ![a].secrets = TRUE,
                                  ![a].bindings = a \in bound, ![a].done = w]
    BY DEF WordPressCommit
  <2>2. recipes \in [Apps -> Installations] /\ (a \in bound) \in BOOLEAN
    BY <1>0 DEF Hosts
  <2>3. w \in Journal /\ Len(w) = 7
    BY <1>2
  <2> HIDE DEF w
  <2> DEFINE e == [recipes[a] EXCEPT !.status = "installed", !.secrets = TRUE,
                                     !.bindings = a \in bound, !.done = w]
  <2>4. recipes' = [recipes EXCEPT ![a] = e]
    BY <1>0, <2>1, <2>2
  <2> DEFINE v == recipes[a]
             b == a \in bound
  <2>5. /\ v \in Installations /\ b \in BOOLEAN
        /\ e = [v EXCEPT !.status = "installed", !.secrets = TRUE, !.bindings = b, !.done = w]
    BY <1>0, <2>2
  <2> HIDE DEF e, v, b
  <2>6. Whole(e, w)
    BY <2>3, <2>5, Committed
  <2>7. /\ recipes' \in [Apps -> Installations] /\ recipes'[a] = e
        /\ \A c \in Apps \ {a} : recipes'[c] = recipes[c]
    BY <1>0, <2>2, <2>4, <2>6, Recorded DEF Whole
  <2> QED
    BY <2>3, <2>6, <2>7 DEF Whole
<1>4. Hosts'
  BY <1>0, <1>3 DEF Hosts
<1>5. Apart(p, a)
  BY <1>0, <1>1, <1>3 DEF Apart, Ended
<1>6. Staged(p, a)
  BY <1>0, Mine
<1>7. /\ a \in listed /\ a \in inputs /\ password[a] # 0 /\ a \in service /\ a \in dbUser
      /\ a \in configured /\ IsInstalled(a)
  BY <1>0, <1>6
     DEF Staged, AfterApplication, SecretPCs, AfterInputs, AfterPassword, AfterSecrets, AfterService, AfterUser, AfterDatabase,
         AfterRuntime, AfterConfigure
<1>8. Numbered(a)' /\ Working(a)' /\ (\A q \in Procs : op'[q].app = a => Staged(q, a)')
  BY <1>0, <1>1, <1>7, EndedParts DEF IsInstalled
<1>9. Entered(a)'
  <2>1. Effective(a, Len(recipes[a].done))'
    BY <1>0, <1>3, <1>7 DEF Effective, IsInstalled
  <2> QED
    BY <1>0, <1>1, <1>3, <1>7, <2>1 DEF Entered, Ended
<1>10. Honest(a)'
  BY <1>0, <1>1, <1>8, <1>9, RecipesAssumption DEF Honest
<1> QED
  BY <1>0, <1>1, <1>4, <1>5, <1>10, Combined DEF Ended

LEMMA HonestFails ==
    ASSUME HonestInv, Alone, NEW p \in Procs, NEW a \in WordPressApps,
           WordPressFails(p, a)
    PROVE  HonestInv'
<1>0. /\ a \in Apps /\ op[p].app = a /\ pc[p] \in WordPressPCs /\ Hosts
      /\ RestoreCurrent(p, a) /\ Goto(p, "failed")
      /\ UNCHANGED <<recipes, catalogue, op, stale, torn, listed, configured, inputs,
                   password, generated, service, dbSecret, dbUser, wpConfig, site, bound>>
  BY DEF Apps, HonestInv, WordPressFails
<1>1. Moved(p, a, "failed")
  BY <1>0, Moves DEF InstallPCs
<1>2. /\ current' \in [Apps -> 0..MaxVersion]
      /\ pc[p] = "configure" => current'[a] = op[p].previous
      /\ pc[p] # "configure" => current' = current
      /\ \A b \in Apps \ {a} : current'[b] = current[b]
  <2>1. op[p].previous \in 0..MaxVersion /\ current \in [Apps -> 0..MaxVersion]
    BY <1>0, Mine DEF Operations, Hosts
  <2> QED
    BY <1>0, <2>1 DEF RestoreCurrent
<1>3. Hosts'
  <2>1. \A b \in GenericApps : b \in Apps \ {a}
    BY RecipesAssumption DEF Apps
  <2>2. \A b \in GenericApps : current'[b] = 0
    BY <1>0, <1>2, <2>1 DEF Hosts
  <2> QED
    BY <1>0, <1>2, <2>2 DEF Hosts
<1>4. Apart(p, a)
  BY <1>0, <1>1, <1>2 DEF Apart, Moved
<1>5. Numbered(a)'
  BY <1>0, <1>1, Mine DEF Numbered, Moved
<1>6. Working(a)'
  <2>1. Working(a) /\ Staged(p, a) /\ \A q \in Procs : op[q].app = a => q = p
    BY <1>0, Mine
  <2>2. CASE pc[p] = "configure"
    <3>1. a \in listed /\ (a \notin torn /\ op[p].previous # 0 => op[p].previous \in wpConfig[a])
      BY <2>1, <2>2 DEF Staged, AfterApplication, SecretPCs
    <3> QED
      BY <1>0, <1>1, <1>2, <2>2, <3>1 DEF Working, Moved
  <2>3. CASE pc[p] # "configure"
    BY <1>0, <1>1, <1>2, <2>1, <2>3 DEF Working, Moved
  <2> QED
    BY <2>2, <2>3
<1>7. Staged(p, a)'
  BY <1>1
     DEF Moved, Staged, AfterApplication, SecretPCs, AfterInputs, AfterPassword, AfterSecrets, AfterService, AfterUser, AfterDatabase,
         AfterRuntime, AfterConfigure, RemovalPCs
<1>8. ASSUME ~stale'
      PROVE  Entered(a)'
  <2>1. Entered(a)
    BY <1>0, <1>8, Mine
  <2>n. PICK n : n = Len(recipes[a].done)
    OBVIOUS
  <2>2. n = Journalled(pc[p]) /\ recipes[a].status = "updating" /\ recipes' = recipes
    BY <1>0, <2>1, <2>n DEF Entered
  <2>3. ~Taken(a) /\ (a \notin torn /\ n >= 1 => a \in listed) /\ (a \in listed => Effective(a, n))
    <3>1. ~Taken(a)
      BY <1>0, Mine DEF RemovalPCs, WordPressPCs, SecretPCs, JournalPCs
    <3> QED
      BY <2>1, <2>n, <3>1 DEF Entered
  <2>4. a \in listed => Effective(a, n)'
    <3>1. CASE pc[p] = "configure"
      <4>1. n = 4
        BY <2>2, <3>1, StageNumbers
      <4> QED
        BY <1>0, <2>2, <2>3, <4>1 DEF Effective
    <3>2. CASE pc[p] # "configure"
      <4> QED
        BY <1>0, <1>2, <2>3, <3>2 DEF Effective, IsInstalled
    <3> QED
      BY <3>1, <3>2
  <2>5. Effective(a, n)' => Effective(a, Len(recipes[a].done))'
    BY <2>2, <2>n DEF Effective, IsInstalled
  <2>6. "failed" \notin WordPressPCs
    BY DEF WordPressPCs, SecretPCs, JournalPCs
  <2> QED
    BY <1>0, <1>1, <2>n, <2>2, <2>3, <2>4, <2>5, <2>6 DEF Entered, Moved
<1>9. Honest(a)'
  BY <1>0, <1>1, <1>5, <1>6, <1>7, <1>8, RecipesAssumption DEF Honest, Moved
<1> QED
  BY <1>0, <1>1, <1>3, <1>4, <1>9, Combined DEF Moved

LEMMA HonestRecordFailure ==
    ASSUME HonestInv, Alone, NEW p \in Procs, NEW a \in WordPressApps,
           RecordFailure(p, a)
    PROVE  HonestInv'
<1>0. /\ a \in Apps /\ op[p].app = a /\ pc[p] = "failed" /\ Hosts
      /\ Goto(p, "idle") /\ op' = [op EXCEPT ![p] = Idle]
      /\ UNCHANGED <<catalogue, stale, torn>>
      /\ UNCHANGED <<listed, configured, inputs, password, generated, service, dbSecret,
                     dbUser, current, wpConfig, site, bound>>
  BY DEF Apps, HonestInv, RecordFailure, world, Quiet
<1>1. Ended(p, a)
  BY <1>0, Ends
<1>2. /\ recipes' \in [Apps -> Installations]
      /\ recipes'[a].done = recipes[a].done
      /\ recipes[a].status # "absent" => recipes'[a].status = "failed"
      /\ \A b \in Apps \ {a} : recipes'[b] = recipes[b]
  <2> DEFINE e == [recipes[a] EXCEPT !.status = "failed"]
  <2>1. recipes \in [Apps -> Installations] /\ recipes[a] \in Installations
    BY <1>0 DEF Hosts
  <2>2. e \in Installations /\ e.done = recipes[a].done /\ e.status = "failed"
    BY <2>1 DEF Installations
  <2>3. recipes' = recipes \/ recipes' = [recipes EXCEPT ![a] = e]
    BY <1>0, <2>1 DEF RecordFailure
  <2>4. recipes[a].status # "absent" => recipes' = [recipes EXCEPT ![a] = e]
    BY <1>0, <2>1 DEF RecordFailure
  <2> HIDE DEF e
  <2> QED
    BY <1>0, <2>1, <2>2, <2>3, <2>4
<1>3. Hosts'
  BY <1>0, <1>2 DEF Hosts
<1>4. Apart(p, a)
  BY <1>0, <1>1, <1>2 DEF Apart, Ended
<1>5. Numbered(a)' /\ Working(a)' /\ (\A q \in Procs : op'[q].app = a => Staged(q, a)')
  BY <1>0, <1>1, EndedParts
<1>6. ASSUME ~stale'
      PROVE  Entered(a)'
  <2>1. Entered(a) /\ Undertaken(a) /\ ~Taken(a)
    BY <1>0, <1>6, Mine DEF RemovalPCs
  <2>2. recipes'[a].status = "failed"
    BY <1>0, <1>2, <2>1 DEF Entered
  <2>3. Effective(a, Len(recipes[a].done)) => Effective(a, Len(recipes[a].done))'
    BY <1>0, <1>2 DEF Effective, IsInstalled
  <2> QED
    BY <1>0, <1>1, <1>2, <2>1, <2>2, <2>3 DEF Entered, Ended
<1>7. Honest(a)'
  BY <1>0, <1>1, <1>5, <1>6, RecipesAssumption DEF Honest
<1> QED
  BY <1>0, <1>1, <1>3, <1>4, <1>7, Combined DEF Ended

-----------------------------------------------------------------------------
(* Every other recipe.                                                       *)

LEMMA HonestGenericApplication ==
    ASSUME HonestInv, Alone, NEW p \in Procs, NEW a \in GenericApps,
           GenericApplication(p, a)
    PROVE  HonestInv'
<1> USE DEF GenericApplication
<1>0. /\ a \in Apps /\ op[p].app = a /\ pc[p] = "generic" /\ Hosts
      /\ UNCHANGED <<catalogue, stale, torn>>
  BY DEF Apps, HonestInv, Quiet
<1>1. Moved(p, a, "inputs")
  BY <1>0, Moves DEF GenericPCs, SecretPCs
<1>2. Hosts'
  BY <1>0 DEF Hosts
<1>3. Apart(p, a)
  BY <1>0, <1>1 DEF Apart, Moved
<1>4. Numbered(a)'
  BY <1>0, <1>1, Mine DEF Numbered, Moved
<1>5. Working(a)'
  BY <1>0, <1>1, Mine DEF Working, Moved
<1>6. Staged(p, a)'
  BY <1>0, <1>1, Mine
     DEF Moved, Staged, AfterApplication, SecretPCs, AfterInputs, AfterPassword, AfterSecrets, AfterService, AfterUser, AfterDatabase,
         AfterRuntime, AfterConfigure, RemovalPCs
<1>7. ASSUME ~stale'
      PROVE  Kept(a)'
  BY <1>0, <1>1, <1>7, Mine DEF Kept, Undertaken, Moved
<1>8. Honest(a)'
  BY <1>0, <1>1, <1>4, <1>5, <1>6, <1>7, RecipesAssumption DEF Honest, Moved
<1> QED
  BY <1>0, <1>1, <1>2, <1>3, <1>8, Combined DEF Moved

LEMMA HonestGenericServices ==
    ASSUME HonestInv, Alone, NEW p \in Procs, NEW a \in GenericApps,
           GenericServices(p, a)
    PROVE  HonestInv'
<1> USE DEF GenericServices
<1>0. /\ a \in Apps /\ op[p].app = a /\ pc[p] = "generic_services" /\ Hosts
      /\ UNCHANGED <<catalogue, stale, torn>>
  BY DEF Apps, HonestInv, Quiet
<1>1. Moved(p, a, "generic_save")
  BY <1>0, Moves DEF GenericPCs, SecretPCs
<1>2. Hosts'
  BY <1>0 DEF Hosts
<1>3. Apart(p, a)
  BY <1>0, <1>1 DEF Apart, Moved
<1>4. Numbered(a)'
  BY <1>0, <1>1, Mine DEF Numbered, Moved
<1>5. Working(a)'
  BY <1>0, <1>1, Mine DEF Working, Moved
<1>6. Staged(p, a)'
  BY <1>0, <1>1, Mine
     DEF Moved, Staged, AfterApplication, SecretPCs, AfterInputs, AfterPassword, AfterSecrets, AfterService, AfterUser, AfterDatabase,
         AfterRuntime, AfterConfigure, RemovalPCs
<1>7. ASSUME ~stale'
      PROVE  Kept(a)'
  BY <1>0, <1>1, <1>7, Mine DEF Kept, Undertaken, Moved
<1>8. Honest(a)'
  BY <1>0, <1>1, <1>4, <1>5, <1>6, <1>7, RecipesAssumption DEF Honest, Moved
<1> QED
  BY <1>0, <1>1, <1>2, <1>3, <1>8, Combined DEF Moved

\* What the save of a loaded state leaves.
LEMMA Saving ==
    ASSUME HonestInv, Alone, NEW p \in Procs, NEW a \in Apps, op[p].app = a,
           NEW entry \in Installations, SaveLoaded(p, a, entry)
    PROVE  /\ recipes' \in [Apps -> Installations] /\ recipes'[a] = entry
           /\ stale' \in BOOLEAN /\ (stale => stale')
           /\ ~stale' => \A b \in Apps \ {a} : recipes'[b] = recipes[b]
           /\ Ended(p, a) /\ UNCHANGED catalogue
<1>1. op[p].loaded \in [Apps -> Installations]
  BY Mine DEF Operations
<1>2. /\ recipes' \in [Apps -> Installations] /\ recipes'[a] = entry
      /\ \A b \in Apps \ {a} : recipes'[b] = op[p].loaded[b]
  BY <1>1, Recorded DEF SaveLoaded
<1>3. stale \in BOOLEAN
  BY DEF HonestInv, Hosts
<1>4. stale' = (stale \/ \E b \in Apps \ {a} : op[p].loaded[b] # recipes[b])
  BY DEF SaveLoaded
<1>5. Ended(p, a)
  BY Ends DEF SaveLoaded
<1>6. UNCHANGED catalogue
  BY DEF SaveLoaded
<1> QED
  BY <1>2, <1>3, <1>4, <1>5, <1>6

LEMMA HonestGenericSave ==
    ASSUME HonestInv, Alone, NEW p \in Procs, NEW a \in GenericApps,
           GenericSave(p, a)
    PROVE  HonestInv'
<1> DEFINE entry == [ status |-> "installed", version |-> op[p].version, secrets |-> TRUE,
                      bindings |-> FALSE, done |-> <<>> ]
<1>0. /\ a \in Apps /\ op[p].app = a /\ pc[p] = "generic_save" /\ Hosts
      /\ torn' = torn \ {a}
      /\ UNCHANGED <<listed, configured, inputs, password, generated, service, dbSecret,
                     dbUser, current, wpConfig, site, bound>>
  BY DEF Apps, HonestInv, GenericSave, world
<1>a. entry \in Installations /\ entry.status = "installed" /\ entry.secrets
  <2>1. op[p].version \in 0..MaxVersion
    BY <1>0, Mine DEF Operations
  <2> QED
    BY <2>1, NothingRecorded DEF Installations
<1>b. SaveLoaded(p, a, entry)
  BY DEF GenericSave
<1> HIDE DEF entry
<1>1. /\ recipes' \in [Apps -> Installations] /\ recipes'[a] = entry
      /\ stale' \in BOOLEAN /\ (stale => stale')
      /\ ~stale' => \A b \in Apps \ {a} : recipes'[b] = recipes[b]
      /\ Ended(p, a) /\ UNCHANGED catalogue
  BY <1>0, <1>a, <1>b, Saving
<1>2. Hosts'
  BY <1>0, <1>1 DEF Hosts
<1>3. Apart(p, a)
  BY <1>0, <1>1 DEF Apart, Ended
<1>4. /\ a \in listed /\ a \in inputs /\ password[a] # 0 /\ a \in service /\ a \in configured
  <2>1. Staged(p, a)
    BY <1>0, Mine
  <2> QED
    BY <1>0, <2>1
       DEF Staged, AfterApplication, SecretPCs, AfterInputs, AfterPassword, AfterSecrets, AfterService, AfterUser, AfterDatabase,
           AfterRuntime, AfterConfigure
<1>5. current[a] = 0
  BY <1>0 DEF Hosts
<1>6. Numbered(a)'
  BY <1>0, <1>1, Mine DEF Numbered, Ended
<1>7. Working(a)'
  BY <1>0, <1>5 DEF Working
<1>8. ASSUME ~stale'
      PROVE  Kept(a)'
  BY <1>0, <1>a, <1>1, <1>4 DEF Kept
<1>9. Honest(a)'
  BY <1>0, <1>1, <1>6, <1>7, <1>8, RecipesAssumption DEF Honest, Ended
<1> QED
  BY <1>0, <1>1, <1>2, <1>3, <1>9, Combined DEF Ended

LEMMA HonestGenericFails ==
    ASSUME HonestInv, Alone, NEW p \in Procs, NEW a \in GenericApps,
           GenericFails(p, a)
    PROVE  HonestInv'
<1>0. /\ a \in Apps /\ op[p].app = a /\ Hosts /\ torn' = torn \cup {a}
      /\ Goto(p, "idle") /\ op' = [op EXCEPT ![p] = Idle]
      /\ UNCHANGED <<recipes, catalogue, stale>>
      /\ UNCHANGED <<listed, configured, inputs, password, generated, service, dbSecret,
                     dbUser, current, wpConfig, site, bound>>
  BY DEF Apps, HonestInv, GenericFails, world
<1>1. Ended(p, a)
  BY <1>0, Ends
<1>2. Hosts'
  BY <1>0 DEF Hosts
<1>3. Apart(p, a)
  BY <1>0, <1>1 DEF Apart, Ended
<1>4. Numbered(a)' /\ Working(a)' /\ (\A q \in Procs : op'[q].app = a => Staged(q, a)')
  BY <1>0, <1>1, EndedParts
<1>5. ASSUME ~stale'
      PROVE  Kept(a)'
  BY <1>0, <1>5, Mine DEF Kept
<1>6. Honest(a)'
  BY <1>0, <1>1, <1>4, <1>5, RecipesAssumption DEF Honest
<1> QED
  BY <1>0, <1>1, <1>2, <1>3, <1>6, Combined DEF Ended

-----------------------------------------------------------------------------
(* Uninstall.                                                                *)

LEMMA HonestUninstallApplication ==
    ASSUME HonestInv, Alone, NEW p \in Procs, NEW a \in Apps,
           UninstallApplication(p, a)
    PROVE  HonestInv'
<1>0. /\ op[p].app = a /\ pc[p] = "remove" /\ Hosts /\ Goto(p, "remove_secrets")
      /\ listed' = listed \ {a} /\ configured' = configured \ {a}
      /\ UNCHANGED <<catalogue, stale, torn, recipes, op, inputs, password, generated, service,
                     dbSecret, dbUser, site, bound>>
  BY DEF HonestInv, Quiet, UninstallApplication
<1>1. Moved(p, a, "remove_secrets")
  BY <1>0, Moves DEF RemovalPCs
<1>2. /\ current' \in [Apps -> 0..MaxVersion] /\ wpConfig' \in [Apps -> SUBSET Nat]
      /\ \A b \in Apps \ {a} : current'[b] = current[b] /\ wpConfig'[b] = wpConfig[b]
      /\ current'[a] = IF a \in listed THEN 0 ELSE current[a]
  BY <1>0, RecipesAssumption DEF UninstallApplication, Hosts
<1>3. current'[a] = 0
  BY <1>0, <1>2, Mine DEF Working
<1>4. Hosts'
  <2>1. \A b \in GenericApps : current'[b] = 0
    BY <1>0, <1>2, <1>3 DEF Hosts, Apps
  <2> QED
    BY <1>0, <1>2, <2>1 DEF Hosts
<1>5. Apart(p, a)
  BY <1>0, <1>1, <1>2 DEF Apart, Moved
<1>6. Numbered(a)'
  BY <1>0, <1>1, Mine DEF Numbered, Moved
<1>7. Working(a)'
  BY <1>3 DEF Working
<1>8. Staged(p, a)'
  BY <1>0, <1>1, Mine
     DEF Moved, Staged, AfterApplication, SecretPCs, AfterInputs, AfterPassword, AfterSecrets, AfterService, AfterUser, AfterDatabase,
         AfterRuntime, AfterConfigure, RemovalPCs
<1>9. ASSUME ~stale'
      PROVE  /\ a \in WordPressApps => Entered(a)'
             /\ a \in GenericApps => Kept(a)'
  <2>1. Taken(a)' /\ Undertaken(a)'
    BY <1>1 DEF Taken, Undertaken, Moved, RemovalPCs
  <2>2. ASSUME a \in WordPressApps
        PROVE  Entered(a)'
    <3>1. Entered(a) /\ Undertaken(a)
      BY <1>0, <1>9, <2>2, Mine
    <3>2. "remove_secrets" \notin WordPressPCs \cup {"failed"}
      BY DEF WordPressPCs, SecretPCs, JournalPCs
    <3> QED
      BY <1>0, <1>1, <2>1, <3>1, <3>2 DEF Entered, Moved
  <2>3. ASSUME a \in GenericApps
        PROVE  Kept(a)'
    BY <1>0, <1>9, <2>1, <2>3, Mine DEF Kept
  <2> QED
    BY <2>2, <2>3
<1>10. Honest(a)'
  BY <1>0, <1>1, <1>6, <1>7, <1>8, <1>9 DEF Honest, Moved
<1> QED
  BY <1>0, <1>1, <1>4, <1>5, <1>10, Combined DEF Moved

\* Both later steps of an uninstall.
LEMMA HonestRemoving ==
    ASSUME HonestInv, Alone, NEW p \in Procs, NEW a \in Apps, NEW next \in RemovalPCs \ {"remove"},
           op[p].app = a, pc[p] \in RemovalPCs \ {"remove"},
           Goto(p, next), Apart(p, a), next = "remove_save" => a \notin bound',
           UNCHANGED <<catalogue, stale, torn, recipes, op, listed, configured, generated, service,
                       dbSecret, dbUser, current, wpConfig, site>>,
           password' \in [Apps -> Nat], password'[a] \in {0, password[a]},
           inputs' \subseteq Apps, bound' \subseteq Apps
    PROVE  HonestInv'
<1>1. Moved(p, a, next)
  BY Moves
<1>2. Hosts /\ Hosts'
  BY DEF Hosts, HonestInv
<1>3. Numbered(a)'
  <2>1. generated[a] \in Nat /\ password[a] <= generated[a] /\ generated[a] <= MaxSecrets
    BY <1>2, Mine DEF Hosts, Numbered
  <2> QED
    BY <2>1 DEF Numbered
<1>4. Working(a)'
  <2>1. Working(a) /\ \A q \in Procs : op[q].app = a => q = p
    BY Mine
  <2>2. pc[p] # "configure"
    BY DEF RemovalPCs
  <2> QED
    BY <1>1, <2>1, <2>2 DEF Working, Moved
<1>5. Staged(p, a)'
  <2>1. a \notin listed
    BY Mine DEF Staged
  <2> QED
    BY <1>1, <2>1
       DEF Moved, Staged, AfterApplication, SecretPCs, AfterInputs, AfterPassword, AfterSecrets, AfterService, AfterUser, AfterDatabase,
           AfterRuntime, AfterConfigure, RemovalPCs
<1>6. ASSUME ~stale'
      PROVE  /\ a \in WordPressApps => Entered(a)'
             /\ a \in GenericApps => Kept(a)'
  <2>1. Taken(a)' /\ Undertaken(a)'
    BY <1>1 DEF Taken, Undertaken, Moved
  <2>2. ASSUME a \in WordPressApps
        PROVE  Entered(a)'
    <3>1. Entered(a) /\ Undertaken(a)
      BY <1>6, <2>2, Mine
    <3>2. next \notin WordPressPCs \cup {"failed"}
      BY DEF WordPressPCs, SecretPCs, JournalPCs, RemovalPCs
    <3> QED
      BY <1>1, <2>1, <3>1, <3>2 DEF Entered, Moved
  <2>3. ASSUME a \in GenericApps
        PROVE  Kept(a)'
    BY <1>6, <2>1, <2>3, Mine DEF Kept
  <2> QED
    BY <2>2, <2>3
<1>7. Honest(a)'
  BY <1>1, <1>3, <1>4, <1>5, <1>6 DEF Honest, Moved
<1> QED
  BY <1>1, <1>2, <1>7, Combined DEF Moved

LEMMA HonestUninstallSecrets ==
    ASSUME HonestInv, Alone, NEW p \in Procs, NEW a \in Apps,
           UninstallSecrets(p, a)
    PROVE  HonestInv'
<1>0. /\ op[p].app = a /\ pc[p] = "remove_secrets" /\ Hosts /\ Goto(p, "remove_bindings")
      /\ UNCHANGED <<catalogue, stale, torn, recipes, op, listed, configured, generated, service,
                     dbSecret, dbUser, current, wpConfig, site, bound>>
  BY DEF HonestInv, Quiet, UninstallSecrets
<1>1. /\ password' \in [Apps -> Nat] /\ password'[a] \in {0, password[a]}
      /\ \A b \in Apps \ {a} : password'[b] = password[b] /\ (b \in inputs' <=> b \in inputs)
      /\ inputs' \subseteq Apps /\ bound' \subseteq Apps
  BY <1>0 DEF Hosts, UninstallSecrets
<1>2. Moved(p, a, "remove_bindings")
  BY <1>0, Moves DEF RemovalPCs
<1>3. Apart(p, a)
  BY <1>0, <1>1, <1>2 DEF Apart, Moved
<1> DEFINE next == "remove_bindings"
<1>4. next \in RemovalPCs \ {"remove"} /\ next # "remove_save" /\ Goto(p, next)
  BY <1>0 DEF RemovalPCs
<1>5. pc[p] \in RemovalPCs \ {"remove"}
  BY <1>0 DEF RemovalPCs
<1> HIDE DEF next
<1> QED
  BY <1>0, <1>1, <1>3, <1>4, <1>5, HonestRemoving

LEMMA HonestUninstallCleanup ==
    ASSUME HonestInv, Alone, NEW p \in Procs, NEW a \in Apps,
           UninstallCleanup(p, a)
    PROVE  HonestInv'
<1>0. /\ op[p].app = a /\ pc[p] = "remove_bindings" /\ Hosts /\ Goto(p, "remove_save")
      /\ bound' = bound \ {a}
      /\ UNCHANGED <<catalogue, stale, torn, recipes, op, listed, configured, inputs, password,
                     generated, service, dbSecret, dbUser, current, wpConfig, site>>
  BY DEF HonestInv, Quiet, UninstallCleanup
<1>1. /\ password' \in [Apps -> Nat] /\ password'[a] \in {0, password[a]}
      /\ inputs' \subseteq Apps /\ bound' \subseteq Apps /\ a \notin bound'
  BY <1>0 DEF Hosts
<1>2. Moved(p, a, "remove_save")
  BY <1>0, Moves DEF RemovalPCs
<1>3. Apart(p, a)
  BY <1>0, <1>2 DEF Apart, Moved
<1> DEFINE next == "remove_save"
<1>4. next \in RemovalPCs \ {"remove"} /\ Goto(p, next)
  BY <1>0 DEF RemovalPCs
<1>5. pc[p] \in RemovalPCs \ {"remove"}
  BY <1>0 DEF RemovalPCs
<1> HIDE DEF next
<1> QED
  BY <1>0, <1>1, <1>3, <1>4, <1>5, HonestRemoving

LEMMA HonestUninstallSave ==
    ASSUME HonestInv, Alone, NEW p \in Procs, NEW a \in Apps,
           UninstallSave(p, a)
    PROVE  HonestInv'
<1>0. /\ op[p].app = a /\ pc[p] = "remove_save" /\ Hosts
      /\ torn' = torn \ {a} /\ SaveLoaded(p, a, NoInstallation)
      /\ UNCHANGED <<listed, configured, inputs, password, generated, service, dbSecret,
                     dbUser, current, wpConfig, site, bound>>
  BY DEF HonestInv, UninstallSave, world
<1>1. /\ recipes' \in [Apps -> Installations] /\ recipes'[a] = NoInstallation
      /\ stale' \in BOOLEAN /\ (stale => stale')
      /\ ~stale' => \A b \in Apps \ {a} : recipes'[b] = recipes[b]
      /\ Ended(p, a) /\ UNCHANGED catalogue
  BY <1>0, NothingRecorded, Saving
<1>2. Hosts'
  BY <1>0, <1>1 DEF Hosts
<1>3. Apart(p, a)
  BY <1>0, <1>1 DEF Apart, Ended
<1>4. a \notin listed /\ a \notin bound
  BY <1>0, Mine DEF Staged, RemovalPCs
<1>5. Numbered(a)'
  BY <1>0, <1>1, Mine DEF Numbered, Ended
<1>6. Working(a)'
  BY <1>0, <1>4, Mine DEF Working
<1>7. ASSUME ~stale'
      PROVE  /\ Entered(a)'
             /\ Kept(a)'
  <2>1. recipes'[a].status = "absent" /\ Len(recipes'[a].done) = 0
    BY <1>1, NothingRecorded
  <2> QED
    BY <1>0, <1>1, <1>4, <2>1 DEF Entered, Kept, Ended, Undertaken
<1>8. Honest(a)'
  BY <1>0, <1>1, <1>5, <1>6, <1>7 DEF Honest, Ended
<1> QED
  BY <1>0, <1>1, <1>2, <1>3, <1>8, Combined DEF Ended

-----------------------------------------------------------------------------
(* A command begins, dies, or the catalogue changes.                         *)

Begun(p, a, step) ==
    /\ Commands'
    /\ pc'[p] = step /\ op'[p].app = a /\ op[p].app = "none"
    /\ \A q \in Procs \ {p} : pc'[q] = pc[q] /\ op'[q] = op[q]
    /\ \A q \in Procs : op[q].app # a /\ (op'[q].app = a => q = p)

LEMMA Beginning ==
    ASSUME HonestInv, Alone', NEW p \in Procs, NEW a \in Apps, NEW env \in BOOLEAN,
           NEW step, \/ a \in WordPressApps /\ step \in InstallPCs
                     \/ a \in GenericApps /\ step \in GenericPCs
                     \/ step \in RemovalPCs,
           Begin(p, a, env, step)
    PROVE  Begun(p, a, step)
<1> DEFINE o == [ app |-> a, env |-> env, loaded |-> recipes, version |-> catalogue,
                  previous |-> 0 ]
<1>1. /\ Commands /\ recipes \in [Apps -> Installations] /\ catalogue \in 1..MaxVersion
      /\ MaxVersion \in Nat \ {0} /\ a # "none"
  BY RecipesAssumption DEF HonestInv, Hosts, Apps
<1>2. o \in Operations /\ o.app = a /\ o.version # 0
  BY <1>1 DEF Operations
<1>3. /\ op' = [op EXCEPT ![p] = o] /\ pc' = [pc EXCEPT ![p] = step] /\ pc[p] = "idle"
  BY DEF Begin
<1> HIDE DEF o
<1>4. Fits(step, o)
  BY <1>2, RecipesAssumption
     DEF Fits, Labels, InstallPCs, WordPressPCs, SecretPCs, JournalPCs, GenericPCs, RemovalPCs, Apps
<1>5. /\ Commands' /\ pc'[p] = step /\ op'[p] = o
      /\ \A q \in Procs \ {p} : pc'[q] = pc[q] /\ op'[q] = op[q]
  BY <1>1, <1>3, <1>4, Going
<1>6. op[p].app = "none"
  BY <1>1, <1>3 DEF Commands, Commanded
<1>7. \A q \in Procs : op'[q].app = a => q = p
  BY <1>1, <1>2, <1>5 DEF Alone
<1>8. \A q \in Procs : op[q].app # a
  BY <1>1, <1>5, <1>6, <1>7
<1> QED
  BY <1>2, <1>3, <1>5, <1>6, <1>7, <1>8 DEF Begun

\* The parts that no beginning disturbs.
LEMMA BegunParts ==
    ASSUME HonestInv, NEW p \in Procs, NEW a \in Apps,
           NEW step \in {"application", "generic", "remove"}, Begun(p, a, step),
           UNCHANGED <<catalogue, world, stale, torn>>
    PROVE  Numbered(a)' /\ Working(a)' /\ (\A q \in Procs : op'[q].app = a => Staged(q, a)')
<1>1. Numbered(a) /\ Working(a)
  BY DEF HonestInv, Honest
<1>2. Numbered(a)'
  BY <1>1 DEF Numbered, Begun, world
<1>3. Working(a)'
  BY <1>1 DEF Working, Begun, world
<1>4. Staged(p, a)'
  BY DEF Begun, Staged, AfterApplication, SecretPCs, AfterInputs, AfterPassword, AfterSecrets, AfterService, AfterUser, AfterDatabase,
         AfterRuntime, AfterConfigure, RemovalPCs
<1> QED
  BY <1>2, <1>3, <1>4 DEF Begun

LEMMA HonestInstallWordPress ==
    ASSUME HonestInv, Alone', NEW p \in Procs, NEW a \in WordPressApps, NEW env \in BOOLEAN,
           InstallWordPress(p, a, env)
    PROVE  HonestInv'
<1>0. /\ a \in Apps /\ Hosts /\ Begin(p, a, env, "application")
      /\ UNCHANGED <<catalogue, world, stale, torn>>
  BY DEF Apps, HonestInv, InstallWordPress
<1>1. Begun(p, a, "application")
  BY <1>0, Beginning DEF InstallPCs, WordPressPCs, SecretPCs, JournalPCs
<1>2. /\ recipes' \in [Apps -> Installations]
      /\ recipes'[a].status = "updating" /\ recipes'[a].done = <<>>
      /\ \A b \in Apps \ {a} : recipes'[b] = recipes[b]
  <2> DEFINE e == [recipes[a] EXCEPT !.status = "updating", !.version = catalogue, !.done = <<>>]
  <2>1. recipes \in [Apps -> Installations] /\ catalogue \in 0..MaxVersion
    BY <1>0, RecipesAssumption DEF Hosts
  <2>2. e \in Installations /\ e.status = "updating" /\ e.done = <<>>
    <3>1. recipes[a] \in Installations /\ <<>> \in Journal
      BY <1>0, <2>1, NothingRecorded
    <3> QED
      BY <2>1, <3>1 DEF Installations
  <2>3. recipes' = [recipes EXCEPT ![a] = e]
    BY <1>0, <2>1 DEF InstallWordPress
  <2> HIDE DEF e
  <2> QED
    BY <1>0, <2>1, <2>2, <2>3, Recorded
<1>3. Hosts'
  BY <1>0, <1>2 DEF Hosts, world
<1>4. Apart(p, a)
  BY <1>0, <1>1, <1>2 DEF Apart, Begun, world
<1>5. Numbered(a)' /\ Working(a)' /\ (\A q \in Procs : op'[q].app = a => Staged(q, a)')
  BY <1>0, <1>1, BegunParts
<1>6. ASSUME ~stale'
      PROVE  Entered(a)'
  <2>1. Len(recipes'[a].done) = 0
    BY <1>2, NothingRecorded
  <2>2. Effective(a, Len(recipes[a].done))'
    BY <2>1 DEF Effective
  <2>3. \A q \in Procs : op'[q].app = a => pc'[q] = "application"
    BY <1>1 DEF Begun
  <2> QED
    BY <1>2, <2>1, <2>2, <2>3, StageNumbers DEF Entered
<1>7. Honest(a)'
  BY <1>0, <1>5, <1>6, RecipesAssumption DEF Honest
<1> QED
  BY <1>0, <1>1, <1>3, <1>4, <1>7, Combined DEF Begun

LEMMA HonestInstallGeneric ==
    ASSUME HonestInv, Alone', NEW p \in Procs, NEW a \in GenericApps, NEW env \in BOOLEAN,
           InstallGeneric(p, a, env)
    PROVE  HonestInv'
<1>0. /\ a \in Apps /\ Hosts /\ Begin(p, a, env, "generic")
      /\ UNCHANGED <<recipes, catalogue, world, stale, torn>>
  BY DEF Apps, HonestInv, InstallGeneric
<1>1. Begun(p, a, "generic")
  BY <1>0, Beginning DEF GenericPCs, SecretPCs
<1>2. Hosts'
  BY <1>0 DEF Hosts, world
<1>3. Apart(p, a)
  BY <1>0, <1>1 DEF Apart, Begun, world
<1>4. Numbered(a)' /\ Working(a)' /\ (\A q \in Procs : op'[q].app = a => Staged(q, a)')
  BY <1>0, <1>1, BegunParts
<1>5. ASSUME ~stale'
      PROVE  Kept(a)'
  <2>1. Kept(a) /\ Undertaken(a)'
    BY <1>0, <1>1, <1>5 DEF HonestInv, Honest, Undertaken, Begun
  <2> QED
    BY <1>0, <2>1 DEF Kept
<1>6. Honest(a)'
  BY <1>0, <1>4, <1>5, RecipesAssumption DEF Honest
<1> QED
  BY <1>0, <1>1, <1>2, <1>3, <1>6, Combined DEF Begun

LEMMA HonestUninstall ==
    ASSUME HonestInv, Alone', NEW p \in Procs, NEW a \in Apps, Uninstall(p, a)
    PROVE  HonestInv'
<1>0. /\ Hosts /\ Begin(p, a, FALSE, "remove") /\ recipes[a].status # "absent"
      /\ UNCHANGED <<recipes, catalogue, world, stale, torn>>
  BY DEF HonestInv, Uninstall
<1>1. Begun(p, a, "remove")
  BY <1>0, Beginning DEF RemovalPCs
<1>2. Hosts'
  BY <1>0 DEF Hosts, world
<1>3. Apart(p, a)
  BY <1>0, <1>1 DEF Apart, Begun, world
<1>4. Numbered(a)' /\ Working(a)' /\ (\A q \in Procs : op'[q].app = a => Staged(q, a)')
  BY <1>0, <1>1, BegunParts
<1>5. ASSUME ~stale'
      PROVE  /\ a \in WordPressApps => Entered(a)'
             /\ a \in GenericApps => Kept(a)'
  <2>1. Undertaken(a)' /\ ~Taken(a)' /\ ~Taken(a)
    BY <1>1 DEF Undertaken, Taken, Begun
  <2>2. ASSUME a \in WordPressApps
        PROVE  Entered(a)'
    <3>1. Entered(a)
      BY <1>0, <1>5, <2>2 DEF HonestInv, Honest
    <3>2. \A q \in Procs : op'[q].app = a => pc'[q] \notin WordPressPCs \cup {"failed"}
      BY <1>1 DEF Begun, WordPressPCs, SecretPCs, JournalPCs
    <3>3. Effective(a, Len(recipes[a].done)) => Effective(a, Len(recipes[a].done))'
      BY <1>0 DEF Effective, IsInstalled, world
    <3> QED
      BY <1>0, <2>1, <3>1, <3>2, <3>3 DEF Entered, world
  <2>3. ASSUME a \in GenericApps
        PROVE  Kept(a)'
    BY <1>0, <1>5, <2>1, <2>3 DEF HonestInv, Honest, Kept
  <2> QED
    BY <2>2, <2>3
<1>6. Honest(a)'
  BY <1>0, <1>4, <1>5 DEF Honest
<1> QED
  BY <1>0, <1>1, <1>2, <1>3, <1>6, Combined DEF Begun

LEMMA HonestCrash ==
    ASSUME HonestInv, Alone, NEW p \in Procs, Crash(p)
    PROVE  HonestInv'
<1> DEFINE a == op[p].app
<1>0. /\ pc[p] # "idle" /\ Hosts /\ Commands /\ torn' = torn \cup {a}
      /\ Goto(p, "idle") /\ op' = [op EXCEPT ![p] = Idle]
      /\ UNCHANGED <<recipes, catalogue, world, stale>>
  BY DEF HonestInv, Crash, Goto
<1>1. a \in Apps
  <2>1. /\ pc[p] \in {"idle"} \cup InstallPCs \cup GenericPCs \cup RemovalPCs
        /\ Commanded(p)
    BY <1>0 DEF Commands
  <2> QED
    BY <1>0, <2>1 DEF Commanded, Apps
<1>2. op[p].app = a
  OBVIOUS
<1>c. PICK c \in Apps : c = a
  BY <1>1
<1>3. Ended(p, c)
  BY <1>0, <1>c, Ends
<1>4. Hosts'
  BY <1>0 DEF Hosts, world
<1>5. Apart(p, c)
  BY <1>0, <1>c, <1>3 DEF Apart, Ended, world
<1>6. Numbered(c)' /\ Working(c)' /\ (\A q \in Procs : op'[q].app = c => Staged(q, c)')
  BY <1>0, <1>c, <1>3, EndedParts DEF world
<1>7. ASSUME ~stale'
      PROVE  /\ c \in WordPressApps => Entered(c)'
             /\ c \in GenericApps => Kept(c)'
  <2>1. ASSUME c \in WordPressApps
        PROVE  Entered(c)'
    <3>1. Entered(c) /\ Undertaken(c) /\ Staged(p, c) /\ (Taken(c) <=> pc[p] \in RemovalPCs \ {"remove"})
      BY <1>0, <1>c, <1>7, <2>1, Mine
    <3>2. Effective(c, Len(recipes[c].done)) => Effective(c, Len(recipes[c].done))'
      BY <1>0 DEF Effective, IsInstalled, world
    <3>3. c \in listed => Effective(c, Len(recipes[c].done))
      BY <3>1 DEF Entered, Staged
    <3>4. recipes[c].status # "absent"
      BY <3>1 DEF Entered
    <3> QED
      BY <1>0, <1>c, <1>3, <3>1, <3>2, <3>3, <3>4 DEF Entered, Ended, world
  <2>2. ASSUME c \in GenericApps
        PROVE  Kept(c)'
    BY <1>0, <1>c, <1>7, <2>2, Mine DEF Kept
  <2> QED
    BY <2>1, <2>2
<1>8. Honest(c)'
  BY <1>0, <1>6, <1>7 DEF Honest
<1> QED
  BY <1>0, <1>c, <1>3, <1>4, <1>5, <1>8, Combined DEF Ended

LEMMA HonestCatalogue ==
    ASSUME HonestInv, NewCatalogue
    PROVE  HonestInv'
<1> USE DEF NewCatalogue, world
<1>1. Commands'
  BY DEF HonestInv, Commands, Commanded
<1>2. Hosts'
  BY RecipesAssumption DEF HonestInv, Hosts
<1>3. ASSUME NEW a \in Apps
      PROVE  Honest(a)'
  <2>1. Honest(a)
    BY <1>3 DEF HonestInv
  <2>2. Effective(a, Len(recipes[a].done)) => Effective(a, Len(recipes[a].done))'
    BY DEF Effective, IsInstalled
  <2>3. Entered(a) => Entered(a)'
    BY <2>2 DEF Entered, Taken, Undertaken
  <2>4. Kept(a) => Kept(a)'
    BY DEF Kept, Undertaken
  <2>5. \A p \in Procs : Staged(p, a) => Staged(p, a)'
    BY DEF Staged, IsInstalled
  <2>6. Numbered(a) /\ Working(a) => Numbered(a)' /\ Working(a)'
    BY DEF Numbered, Working
  <2> QED
    BY <2>1, <2>3, <2>4, <2>5, <2>6 DEF Honest
<1> QED
  BY <1>1, <1>2, <1>3 DEF HonestInv

-----------------------------------------------------------------------------
(* The theorem.                                                              *)

LEMMA HonestInit ==
    ASSUME Init
    PROVE  HonestInv
<1> USE DEF Init
<1>1. Commands
  <2>1. pc \in [Procs -> {"idle"} \cup InstallPCs \cup GenericPCs \cup RemovalPCs]
    OBVIOUS
  <2>2. op \in [Procs -> Operations]
    BY NothingRecorded
  <2>3. \A p \in Procs : Commanded(p)
    BY NothingRecorded DEF Commanded, InstallPCs, WordPressPCs, SecretPCs, JournalPCs, GenericPCs, RemovalPCs
  <2> QED
    BY <2>1, <2>2, <2>3 DEF Commands
<1>2. Hosts
  <2>1. recipes \in [Apps -> Installations]
    BY NothingRecorded
  <2>2. catalogue \in 1..MaxVersion
    BY RecipesAssumption
  <2>3. current \in [Apps -> 0..MaxVersion] /\ \A a \in GenericApps : current[a] = 0
    BY RecipesAssumption DEF Apps
  <2> QED
    BY <2>1, <2>2, <2>3 DEF Hosts
<1>3. ASSUME NEW a \in Apps
      PROVE  Honest(a)
  <2>1. \A p \in Procs : op[p].app # a
    BY NothingRecorded, RecipesAssumption DEF Apps
  <2>2. recipes[a] = NoInstallation
    OBVIOUS
  <2>3. Numbered(a) /\ Working(a)
    BY <2>1, RecipesAssumption DEF Numbered, Working
  <2>4. recipes[a].status = "absent" /\ Len(recipes[a].done) = 0
    BY <2>2, NothingRecorded
  <2>5. Entered(a) /\ Kept(a)
    BY <2>1, <2>4 DEF Entered, Kept, Undertaken
  <2> QED
    BY <2>1, <2>3, <2>5 DEF Honest
<1> QED
  BY <1>1, <1>2, <1>3 DEF HonestInv

LEMMA HonestWordPress ==
    ASSUME HonestInv, Alone, NEW p \in Procs, NEW a \in WordPressApps, WordPress(p, a)
    PROVE  HonestInv'
<1>0. CASE Secrets(p, a)
  BY <1>0, HonestSecretSteps DEF Apps
<1>1. CASE WordPressApplication(p, a)
  BY <1>1, HonestApplication
<1>2. CASE WordPressSecrets(p, a)
  BY <1>2, HonestSecrets
<1>3. CASE WordPressService(p, a)
  BY <1>3, HonestService
<1>4. CASE WordPressUserSecret(p, a)
  BY <1>4, HonestUser
<1>5. CASE WordPressDatabase(p, a)
  BY <1>5, HonestDatabase
<1>6. CASE WordPressRuntime(p, a)
  BY <1>6, HonestRuntime
<1>7. CASE WordPressActivate(p, a)
  BY <1>7, HonestActivate
<1>8. CASE WordPressConfigure(p, a)
  BY <1>8, HonestConfigure
<1>9. CASE WordPressPersist(p, a)
  BY <1>9, HonestPersist
<1>10. CASE WordPressHealth(p, a)
  BY <1>10, HonestHealth
<1>11. CASE WordPressCommit(p, a)
  BY <1>11, HonestCommit
<1>12. CASE WordPressFails(p, a)
  BY <1>12, HonestFails
<1>13. CASE RecordFailure(p, a)
  BY <1>13, HonestRecordFailure
<1> QED
  BY <1>0, <1>1, <1>2, <1>3, <1>4, <1>5, <1>6, <1>7, <1>8, <1>9, <1>10, <1>11, <1>12, <1>13
     DEF WordPress

LEMMA HonestStep ==
    ASSUME HonestInv, Alone, Alone', [Next]_vars
    PROVE  HonestInv'
<1>1. ASSUME NEW p \in Procs, NEW a \in WordPressApps, WordPress(p, a)
      PROVE  HonestInv'
  BY <1>1, HonestWordPress
<1>2. ASSUME NEW p \in Procs, NEW a \in GenericApps, Generic(p, a)
      PROVE  HonestInv'
  BY <1>2, HonestGenericApplication, HonestGenericServices, HonestGenericSave,
     HonestGenericFails, HonestSecretSteps DEF Generic, Apps
<1>3. ASSUME NEW p \in Procs, NEW a \in Apps, Removal(p, a)
      PROVE  HonestInv'
  BY <1>3, HonestUninstallApplication, HonestUninstallSecrets, HonestUninstallCleanup,
     HonestUninstallSave DEF Removal
<1>4. ASSUME NEW p \in Procs, NEW a \in Apps, Uninstall(p, a)
      PROVE  HonestInv'
  BY <1>4, HonestUninstall
<1>5. ASSUME NEW p \in Procs, NEW a \in WordPressApps, NEW env \in BOOLEAN,
             InstallWordPress(p, a, env)
      PROVE  HonestInv'
  BY <1>5, HonestInstallWordPress
<1>6. ASSUME NEW p \in Procs, NEW a \in GenericApps, NEW env \in BOOLEAN,
             InstallGeneric(p, a, env)
      PROVE  HonestInv'
  BY <1>6, HonestInstallGeneric
<1>7. ASSUME NEW p \in Procs, Crash(p)
      PROVE  HonestInv'
  BY <1>7, HonestCrash
<1>8. CASE NewCatalogue
  BY <1>8, HonestCatalogue
<1>9. CASE UNCHANGED vars
  <2> USE <1>9 DEF vars, world
  <2>1. Commands' /\ Hosts'
    BY DEF HonestInv, Commands, Commanded, Hosts
  <2>2. ASSUME NEW a \in Apps
        PROVE  Honest(a)'
    <3>1. Honest(a)
      BY <2>2 DEF HonestInv
    <3>2. Effective(a, Len(recipes[a].done)) => Effective(a, Len(recipes[a].done))'
      BY DEF Effective, IsInstalled
    <3>3. Entered(a) => Entered(a)'
      BY <3>2 DEF Entered, Taken, Undertaken
    <3>4. Kept(a) => Kept(a)'
      BY DEF Kept, Undertaken
    <3>5. \A p \in Procs : Staged(p, a) => Staged(p, a)'
      BY DEF Staged, IsInstalled
    <3>6. Numbered(a) /\ Working(a) => Numbered(a)' /\ Working(a)'
      BY DEF Numbered, Working
    <3> QED
      BY <3>1, <3>3, <3>4, <3>5, <3>6 DEF Honest
  <2> QED
    BY <2>1, <2>2 DEF HonestInv
<1>10. CASE Next
  BY <1>1, <1>2, <1>3, <1>4, <1>5, <1>6, <1>7, <1>8, <1>10 DEF Next
<1> QED
  BY <1>9, <1>10

LEMMA HonestIsEnough ==
    ASSUME HonestInv
    PROVE  InstallationsHonest
<1>1. Hosts /\ \A a \in Apps : Honest(a)
  BY DEF HonestInv
<1>2. TypeOK
  <2>1. \A a \in Apps : password[a] \in 0..MaxSecrets /\ generated[a] \in 0..MaxSecrets
    BY <1>1, RecipesAssumption DEF Hosts, Honest, Numbered
  <2>2. password \in [Apps -> 0..MaxSecrets] /\ generated \in [Apps -> 0..MaxSecrets]
    BY <1>1, <2>1 DEF Hosts
  <2> QED
    BY <1>1, <2>2 DEF TypeOK, Hosts
<1>3. InstalledIsWhole
  <2> SUFFICES ASSUME NEW a \in Apps, recipes[a].status = "installed", ~Disturbed(a)
               PROVE  /\ a \in configured /\ a \in inputs /\ password[a] # 0 /\ a \in service
                      /\ recipes[a].secrets
                      /\ a \in WordPressApps => IsInstalled(a) /\ a \in dbUser
    BY DEF InstalledIsWhole
  <2>1. ~stale /\ a \notin torn /\ ~Undertaken(a) /\ ~Taken(a)
    BY DEF Disturbed, Undertaken, Taken
  <2>2. CASE a \in WordPressApps
    <3>1. Entered(a)
      BY <1>1, <2>1, <2>2 DEF Honest
    <3>2. Len(recipes[a].done) = 7 /\ recipes[a].secrets
      BY <3>1 DEF Entered
    <3>3. a \in listed
      BY <2>1, <3>1, <3>2 DEF Entered
    <3>4. Effective(a, Len(recipes[a].done))
      BY <2>1, <3>1, <3>3 DEF Entered
    <3>5. Effective(a, 7)
      BY <3>2, <3>4
    <3> QED
      BY <3>2, <3>5 DEF Effective
  <2>3. CASE a \in GenericApps
    <3>1. Kept(a)
      BY <1>1, <2>1, <2>3 DEF Honest
    <3> QED
      BY <2>1, <2>3, <3>1, RecipesAssumption DEF Kept
  <2> QED
    BY <2>2, <2>3 DEF Apps
<1>4. JournalHonest
  <2> SUFFICES ASSUME NEW a \in WordPressApps, ~stale,
                      ~(\E p \in Procs : op[p].app = a /\ pc[p] \notin WordPressPCs \cup {"failed"}),
                      a \in torn => a \in listed
               PROVE  LET done(step) == \E i \in DOMAIN recipes[a].done : recipes[a].done[i] = step
                      IN  /\ done("application") => a \in listed
                          /\ done("secrets") => a \in inputs /\ password[a] # 0
                          /\ done("database") => a \in service /\ a \in dbUser
                          /\ done("runtime") => a \in configured
                          /\ done("wordpress") => IsInstalled(a)
    BY DEF JournalHonest
  <2> DEFINE n == Len(recipes[a].done)
             listing == { recipes[a].done[i] : i \in DOMAIN recipes[a].done }
  <2>1. a \in Apps /\ recipes[a].done \in Journal
    BY <1>1 DEF Apps, Hosts, Installations
  <2>2. Entered(a)
    BY <1>1, <2>1 DEF Honest
  <2>3. ~Taken(a)
    BY DEF Taken, RemovalPCs, WordPressPCs, SecretPCs, JournalPCs
  <2>4. n \in Nat
    BY <2>1, JournalIsPrefix
  <2>5. n >= 1 => a \in listed /\ Effective(a, n)
    BY <2>2, <2>3, <2>4 DEF Entered
  <2>6. /\ WordPressSteps[1] = "application" /\ WordPressSteps[2] = "secrets"
        /\ WordPressSteps[3] = "database" /\ WordPressSteps[4] = "runtime"
        /\ WordPressSteps[5] = "wordpress"
    BY DEF WordPressSteps
  <2>7. \A k \in 1..7 : WordPressSteps[k] \in listing => n >= k
    BY <2>1, Listing
  <2> HIDE DEF n, listing
  <2>8. /\ "application" \in listing => n >= 1
        /\ "secrets" \in listing => n >= 2
        /\ "database" \in listing => n >= 3
        /\ "runtime" \in listing => n >= 4
        /\ "wordpress" \in listing => n >= 5
    BY <2>6, <2>7
  <2>9. /\ "application" \in listing => a \in listed
        /\ "secrets" \in listing => a \in inputs /\ password[a] # 0
        /\ "database" \in listing => a \in service /\ a \in dbUser
        /\ "runtime" \in listing => a \in configured
        /\ "wordpress" \in listing => IsInstalled(a)
    BY <2>4, <2>5, <2>8 DEF Effective
  <2> USE DEF listing
  <2> QED
    BY <2>9
<1>5. UninstallResumable
  <2> SUFFICES ASSUME NEW a \in WordPressApps, ~stale, recipes[a].status = "absent"
               PROVE  a \notin listed /\ current[a] = 0 /\ a \notin bound
    BY DEF UninstallResumable
  <2>1. Entered(a) /\ Working(a)
    BY <1>1 DEF Honest, Apps
  <2> QED
    BY <2>1 DEF Entered, Working
<1>6. WorkingSiteKept
  <2> SUFFICES ASSUME NEW a \in WordPressApps, current[a] # 0, a \notin torn,
                      ~(\E p \in Procs : op[p].app = a)
               PROVE  current[a] \in wpConfig[a]
    BY DEF WorkingSiteKept
  <2>1. Working(a)
    BY <1>1 DEF Honest, Apps
  <2> QED
    BY <2>1 DEF Working
<1> QED
  BY <1>2, <1>3, <1>4, <1>5, <1>6 DEF InstallationsHonest

\* While the commands on one application follow each other, recipes.json
\* never promises more than the host holds (recipe.rs: apply_wordpress,
\* complete_wordpress_step, install, uninstall): an installation it calls
\* installed is whole, a step its journal lists has its effect, nothing that
\* is left of an application is forgotten and a failed activation takes no
\* working site down, whatever step fails and wherever a command dies.
THEOREM InstallationsAreHonest == Spec /\ []Alone => []InstallationsHonest
<1>1. Init => HonestInv
  BY HonestInit
<1>2. HonestInv /\ Alone /\ Alone' /\ [Next]_vars => HonestInv'
  BY HonestStep
<1>3. HonestInv => InstallationsHonest
  BY HonestIsEnough
<1> QED
  BY <1>1, <1>2, <1>3, PTL DEF Spec

=============================================================================
