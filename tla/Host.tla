-------------------------------- MODULE Host --------------------------------
(* What a node keeps for its applications, in one instance: the hosted        *)
(* repositories, the nginx web host and the managed services, the latter two  *)
(* with the part of resources.json they keep.  They share no state in the     *)
(* model, so a behaviour is about one of them.                                *)
EXTENDS Repositories

CONSTANTS Ports, Operators, Services, Kind, MaxConfig
VARIABLES
    file, link, loaded, unit, cert, fw, webLock, webPc, webJob, webFaults, webCrashes,
    clobbered,
    resources, host, secrets, dumps, app, servicePc, serviceJob, serviceCrashes, dirty,
    about       \* the part of this behaviour

S == INSTANCE Services WITH Procs <- Operators, pc <- servicePc, job <- serviceJob,
        crashes <- serviceCrashes
W == INSTANCE WebHost WITH lock <- webLock, pc <- webPc, job <- webJob,
        faults <- webFaults, crashes <- webCrashes

ASSUME HostConstants == S!ServicesAssumption /\ W!HostAssumption

web == <<file, link, loaded, unit, cert, fw, webLock, webPc, webJob, webFaults, webCrashes,
         clobbered>>
services == <<resources, host, secrets, dumps, app, servicePc, serviceJob, serviceCrashes,
              dirty>>

OnlyWeb == about = "web" /\ UNCHANGED <<about, vars, services>>
OnlyServices == about = "services" /\ UNCHANGED <<about, vars, web>>
OnlyGit == about = "git" /\ UNCHANGED <<about, web, services>>

HostInit ==
    /\ Init /\ W!Init /\ S!Init /\ about \in {"git", "web", "services"}
    /\ unit.active => about = "web"

HostNext ==
    \/ \E p \in Procs :
         \/ \E r \in Repos :
              \/ OnlyGit /\ Create(p, r)
              \/ OnlyGit /\ Import(p, r)
              \/ OnlyGit /\ RegisterExternal(p, r)
              \/ OnlyGit /\ Adopt(p, r)
              \/ OnlyGit /\ Delete(p, r)
              \/ OnlyGit /\ ConfigureDeployment(p, r)
              \/ OnlyGit /\ RemoteOperation(p, r)
              \/ \E m \in Remotes :
                   \/ OnlyGit /\ AddRemote(p, r, m)
                   \/ OnlyGit /\ RemoveRemote(p, r, m)
         \/ OnlyGit /\ TakeLock(p)
         \/ OnlyGit /\ Refused(p)
         \/ OnlyGit /\ GitInit(p)
         \/ OnlyGit /\ GitInitFails(p)
         \/ OnlyGit /\ GitClone(p)
         \/ OnlyGit /\ GitCloneFails(p)
         \/ OnlyGit /\ GitSettings(p)
         \/ OnlyGit /\ GitSettingsFail(p)
         \/ OnlyGit /\ Transfer(p)
         \/ OnlyGit /\ PersistLoad(p)
         \/ OnlyGit /\ PersistSave(p)
         \/ OnlyGit /\ PersistFails(p)
         \/ OnlyGit /\ TrashStorage(p)
         \/ OnlyGit /\ TrashFails(p)
         \/ OnlyGit /\ DeleteLoad(p)
         \/ OnlyGit /\ DeleteSave(p)
         \/ OnlyGit /\ DeleteFails(p)
         \/ OnlyGit /\ Crash(p)
    \/ \E p \in Procs :
         \/ \E port \in Ports : OnlyWeb /\ W!ConfigureWrite(p, port)
         \/ OnlyWeb /\ W!ConfigureLink(p)
         \/ OnlyWeb /\ W!ConfigureLinkFails(p)
         \/ OnlyWeb /\ W!ConfigureCheck(p)
         \/ OnlyWeb /\ W!ConfigureCheckFails(p)
         \/ OnlyWeb /\ W!ConfigureActivate(p)
         \/ OnlyWeb /\ W!ConfigureActivateFails(p)
         \/ OnlyWeb /\ W!ConfigurePersist(p)
         \/ OnlyWeb /\ W!ConfigurePersistFails(p)
         \/ OnlyWeb /\ W!RemoveLink(p)
         \/ OnlyWeb /\ W!RemoveFile(p)
         \/ OnlyWeb /\ W!EnsureLoad(p)
         \/ OnlyWeb /\ W!EnsureSave(p)
         \/ OnlyWeb /\ W!IssueBegin(p)
         \/ OnlyWeb /\ W!IssueCertificate(p)
         \/ OnlyWeb /\ W!IssueCertificateFails(p)
         \/ OnlyWeb /\ W!IssueAttach(p)
         \/ OnlyWeb /\ W!IssueAttachFails(p)
         \/ OnlyWeb /\ W!IssuePersist(p)
         \/ OnlyWeb /\ W!IssuePersistFails(p)
         \/ \E op \in {"renew", "detach"} : OnlyWeb /\ W!ReadPrevious(p, op)
         \/ OnlyWeb /\ W!Refused(p)
         \/ OnlyWeb /\ W!RenewCertificate(p)
         \/ OnlyWeb /\ W!RenewCertificateFails(p)
         \/ OnlyWeb /\ W!RenewAttach(p)
         \/ OnlyWeb /\ W!RenewAttachFails(p)
         \/ OnlyWeb /\ W!RenewPersist(p)
         \/ OnlyWeb /\ W!DetachWrite(p)
         \/ OnlyWeb /\ W!DetachWriteFails(p)
         \/ OnlyWeb /\ W!DetachCertificate(p)
         \/ OnlyWeb /\ W!DetachCertificateFails(p)
         \/ OnlyWeb /\ W!DetachForget(p)
         \/ OnlyWeb /\ W!Crash(p)
    \/ \E p \in Operators :
         \/ \E s \in Services :
              \/ OnlyServices /\ S!StartInstall(p, s)
              \/ \E config \in S!Configs : OnlyServices /\ S!StartConfigure(p, s, config)
              \/ \E stop \in BOOLEAN : OnlyServices /\ S!Lifecycle(p, s, stop)
              \/ OnlyServices /\ S!Update(p, s)
              \/ OnlyServices /\ S!StartRemove(p, s)
              \/ OnlyServices /\ S!StartDatabase(p, s)
              \/ OnlyServices /\ S!StartUser(p, s)
              \/ OnlyServices /\ S!StartGrant(p, s)
              \/ OnlyServices /\ S!Backup(p, s)
              \/ \E content \in S!Contents : OnlyServices /\ S!StartRestore(p, s, content)
              \/ \E full \in BOOLEAN : OnlyServices /\ S!StartAttach(p, s, full)
         \/ OnlyServices /\ S!InstallPackage(p)
         \/ OnlyServices /\ S!CreateMissingServiceSecrets(p)
         \/ OnlyServices /\ S!WriteConfiguration(p)
         \/ OnlyServices /\ S!RestartInstalled(p)
         \/ OnlyServices /\ S!LoadView(p)
         \/ OnlyServices /\ S!SaveView(p)
         \/ OnlyServices /\ S!RestartConfigured(p)
         \/ OnlyServices /\ S!RemovePackage(p)
         \/ OnlyServices /\ S!RunSql(p)
         \/ OnlyServices /\ S!ReplaceData(p)
         \/ OnlyServices /\ S!StartRestored(p)
         \/ OnlyServices /\ S!LoadDump(p)
         \/ OnlyServices /\ S!RecoverRestore(p)
         \/ OnlyServices /\ S!Refer(p)
         \/ OnlyServices /\ S!Crash(p)
    \/ \E s \in Services : OnlyServices /\ S!WriteData(s)

HostSpec == HostInit /\ [][HostNext]_<<vars, web, services, about>>

\* Web hosts: between operations every site is recorded and no site names a
\* certificate that is gone.
SitesConsistent == W!SitesConsistent

\* Web hosts: a change that fails leaves the site as it was and nginx serving it.
FailedChangeIsUndone == W!FailedChangeIsUndone

\* Services: what resources.json records of a service, its credentials and its
\* configuration, is so on the host, what an application refers to stays, and a
\* restored cache is never a mixture.
ServicesKept == S!ServicesKept
=============================================================================
