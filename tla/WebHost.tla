------------------------------ MODULE WebHost ------------------------------
(***************************************************************************)
(* The nginx site of one application, its certificate, and what the        *)
(* framework state records of both (web.rs, certificate.rs).  Several      *)
(* processes of the host change them; each step that writes a file, calls  *)
(* nginx, systemctl or certbot, or saves the framework state is an action, *)
(* with the failures the code handles, and the undo that follows.          *)
(***************************************************************************)
EXTENDS Naturals, FiniteSets

CONSTANTS
    Procs,          \* processes that administer the host
    Ports,          \* loopback ports the site may forward to
    NoProc,
    MaxFaults,      \* bound on failing steps
    MaxCrashes      \* bound on processes that die

HostAssumption ==
    /\ NoProc \notin Procs
    /\ Ports # {} /\ IsFiniteSet(Ports) /\ Ports \subseteq Nat \ {0}
    /\ MaxFaults \in Nat /\ MaxCrashes \in Nat

VARIABLES
    file,       \* sites-available/lumic-<application>.conf
    link,       \* its symlink in sites-enabled exists
    loaded,     \* what nginx last loaded of the site
    unit,       \* nginx.service: active, enabled
    cert,       \* certbot holds the named certificate
    fw,         \* resources.json: the nginx service, the web host, the attachment
    lock,       \* the host-wide nginx lock
    pc, job,    \* per process: the next step, and the values its call holds
    faults, crashes,
    clobbered   \* history: a stale save has overwritten the framework state

site == <<file, link, loaded, unit, cert>>
vars == <<file, link, loaded, unit, cert, fw, lock, pc, job,
          faults, crashes, clobbered>>

-----------------------------------------------------------------------------
NoFile == [port |-> 0, tls |-> FALSE]
Unset == [port |-> 0, tls |-> TRUE]     \* no previous configuration recorded

\* render_nginx_config_with_node_port always renders a plain HTTP site, and
\* render_tls_configuration adds the TLS listener unless it is there.
Http(port) == [port |-> port, tls |-> FALSE]
Tls(config) == [config EXCEPT !.tls = TRUE]

Content == {NoFile} \cup [port : Ports, tls : BOOLEAN]

\* nginx -t: the site is loadable when the certificate it names is there.
Valid(config, present) == config.tls => present

SiteValid == link => Valid(file, cert)

\* What nginx serves of the site.
Enabled(config, linked) == IF linked THEN config ELSE NoFile

Served == IF unit.active THEN loaded ELSE NoFile

\* The recorded configuration, what the call created or enabled, whether nginx
\* is reloaded or started, and the site as the call found it under the lock.
NoJob == [op |-> "none"]
Failed == [op |-> "failed"]

Found == [file |-> file, link |-> link, served |-> Served]

Init ==
    /\ file = NoFile /\ link = FALSE /\ loaded = NoFile
    /\ \E active \in BOOLEAN : unit = [active |-> active, enabled |-> active]
    /\ cert = FALSE
    /\ fw = [nginx |-> FALSE, host |-> FALSE, attached |-> Unset]
    /\ lock = NoProc
    /\ pc = [p \in Procs |-> "idle"]
    /\ job = [p \in Procs |-> NoJob]
    /\ faults = 0 /\ crashes = 0 /\ clobbered = FALSE

Fault == faults < MaxFaults /\ faults' = faults + 1
NoFault == UNCHANGED faults

Goto(p, label) == pc' = [pc EXCEPT ![p] = label]

\* The call returns: its lock is dropped.
Return(p, failed) ==
    /\ Goto(p, "idle")
    /\ lock' = IF lock = p THEN NoProc ELSE lock
    /\ job' = [job EXCEPT ![p] = IF failed THEN Failed ELSE NoJob]

Same == UNCHANGED <<lock, clobbered, crashes>>

-----------------------------------------------------------------------------
(* NginxManager::configure and configure_node_upstream.                    *)

\* try_acquire_nginx, then write_atomic of the rendered site.
ConfigureWrite(p, port) ==
    /\ pc[p] = "idle" /\ lock = NoProc
    /\ lock' = p
    /\ job' = [job EXCEPT ![p] = [op |-> "configure", linked |-> FALSE,
                   turnedOn |-> FALSE, reload |-> TRUE, start |-> Found]]
    /\ file' = Http(port)
    /\ Goto(p, "link")
    /\ UNCHANGED <<link, loaded, unit, cert, fw, faults, crashes, clobbered>>

\* Mutant: the symlink this call made stays.
RestoreFileOnly(p) ==
    /\ file' = job[p].start.file
    /\ UNCHANGED link

\* restore_configuration: the backup back over the site, or the site removed,
\* and the symlink removed when this call made it.
Restore(p) ==
    /\ file' = job[p].start.file
    /\ link' = (link /\ ~job[p].linked)

ConfigureLink(p) ==
    /\ pc[p] = "link"
    /\ link' = TRUE
    /\ job' = [job EXCEPT ![p].linked = ~link]
    /\ Goto(p, "check")
    /\ UNCHANGED <<file, loaded, unit, cert, fw, faults>> /\ Same

\* create_dir_all or symlink fails.
ConfigureLinkFails(p) ==
    /\ pc[p] = "link" /\ Fault
    /\ Restore(p) /\ Return(p, TRUE)
    /\ UNCHANGED <<loaded, unit, cert, fw, crashes, clobbered>>

\* nginx -t, inspect, and enable the unit when it is not.
ConfigureCheck(p) ==
    /\ pc[p] = "check" /\ SiteValid
    /\ unit' = [unit EXCEPT !.enabled = TRUE]
    /\ job' = [job EXCEPT ![p].turnedOn = ~unit.enabled, ![p].reload = unit.active]
    /\ Goto(p, "activate")
    /\ UNCHANGED <<file, link, loaded, cert, fw, faults>> /\ Same

ConfigureCheckFails(p) ==
    /\ pc[p] = "check"
    /\ \/ ~SiteValid /\ NoFault
       \/ SiteValid /\ Fault
    /\ Restore(p) /\ Return(p, TRUE)
    /\ UNCHANGED <<loaded, unit, cert, fw, crashes, clobbered>>

\* systemctl reload when nginx is active, else start.
ConfigureActivate(p) ==
    /\ pc[p] = "activate"
    /\ loaded' = Enabled(file, link)
    /\ unit' = [unit EXCEPT !.active = TRUE]
    /\ Goto(p, "persist")
    /\ UNCHANGED <<file, link, cert, fw, job, faults>> /\ Same

\* The call fails, before or after systemd did what was asked: the files are
\* restored, the unit disabled again, and a reload, but not a start, undone.
ConfigureActivateFails(p) ==
    /\ pc[p] = "activate" /\ Fault
    /\ Restore(p) /\ Return(p, TRUE)
    /\ \E done \in BOOLEAN :
         /\ unit' = [active |-> unit.active \/ done,
                     enabled |-> unit.enabled /\ ~job[p].turnedOn]
         /\ loaded' = CASE job[p].reload /\ (link' => Valid(file', cert)) -> Enabled(file', link')
                        [] done /\ ~job[p].reload -> Enabled(file, link)
                        [] OTHER -> loaded
    /\ UNCHANGED <<cert, fw, crashes, clobbered>>

\* persist_web_host: the save is refused unless the nginx service it binds to
\* is recorded.
ConfigurePersist(p) ==
    /\ pc[p] = "persist" /\ fw.nginx
    /\ fw' = [fw EXCEPT !.host = TRUE]
    /\ Return(p, FALSE)
    /\ UNCHANGED <<site, faults, crashes, clobbered>>

ConfigurePersistFails(p) ==
    /\ pc[p] = "persist"
    /\ IF fw.nginx THEN Fault ELSE NoFault
    /\ Restore(p) /\ Return(p, TRUE)
    /\ unit' = [active |-> unit.active /\ job[p].reload,
                enabled |-> unit.enabled /\ ~job[p].turnedOn]
    /\ loaded' = IF job[p].reload /\ (link' => Valid(file', cert))
                 THEN Enabled(file', link') ELSE loaded
    /\ UNCHANGED <<cert, fw, crashes, clobbered>>

\* remove_configuration: the symlink, then the file; nginx is not reloaded.
RemoveLink(p) ==
    /\ pc[p] = "idle" /\ lock = NoProc
    /\ lock' = p
    /\ link' = FALSE
    /\ job' = [job EXCEPT ![p] = [op |-> "remove"]]
    /\ Goto(p, "unlink")
    /\ UNCHANGED <<file, loaded, unit, cert, fw, faults, crashes, clobbered>>

RemoveFile(p) ==
    /\ pc[p] = "unlink"
    /\ file' = NoFile
    /\ Return(p, FALSE)
    /\ UNCHANGED <<link, loaded, unit, cert, fw, faults, crashes, clobbered>>

\* ensure_service loads the framework state, sets the nginx service and saves
\* the whole state; no lock covers the two.
EnsureLoad(p) ==
    /\ pc[p] = "idle"
    /\ job' = [job EXCEPT ![p] = [op |-> "ensure", seen |-> fw]]
    /\ Goto(p, "ensure")
    /\ UNCHANGED <<site, fw, faults>> /\ Same

EnsureSave(p) ==
    /\ pc[p] = "ensure"
    /\ fw' = [job[p].seen EXCEPT !.nginx = TRUE]
    /\ clobbered' = (clobbered \/ fw # job[p].seen)
    /\ Return(p, FALSE)
    /\ UNCHANGED <<site, faults, crashes>>

-----------------------------------------------------------------------------
(* CertificateManager.                                                     *)

\* The request's web host must be recorded; the preflight runs nginx -t.
Consumer == fw.host
Preflight == SiteValid

\* NginxCertificateAttacher::attach on the present site: what it leaves when
\* nginx accepts it, and otherwise.  nginx must be running to be reloaded.
CanAttach == file # NoFile /\ unit.active

Attached == Tls(file)

AttachOk ==
    /\ CanAttach /\ (link => Valid(Attached, cert))
    /\ file' = Attached
    /\ loaded' = Enabled(Attached, link)

\* The earlier site is written back, validated and reloaded.
AttachUndone ==
    /\ \/ ~(CanAttach /\ (link => Valid(Attached, cert))) /\ NoFault
       \/ CanAttach /\ Fault
    /\ loaded' = IF unit.active /\ SiteValid /\ file # NoFile THEN Enabled(file, link) ELSE loaded
    /\ UNCHANGED file

\* issue takes the locks and reads the recorded previous configuration.
IssueBegin(p) ==
    /\ pc[p] = "idle" /\ lock = NoProc
    /\ Consumer /\ Preflight
    /\ lock' = p
    /\ job' = [job EXCEPT ![p] = [op |-> "issue", prev |-> fw.attached,
                   reload |-> TRUE, start |-> Found]]
    /\ Goto(p, "issue")
    /\ UNCHANGED <<site, fw, faults, crashes, clobbered>>

\* certbot certonly, then the inspection.
IssueCertificate(p) ==
    /\ pc[p] = "issue"
    /\ cert' = TRUE
    /\ Goto(p, "attach")
    /\ UNCHANGED <<file, link, loaded, unit, fw, job, faults>> /\ Same

\* certbot fails, or the inspection after it does.
IssueCertificateFails(p) ==
    /\ pc[p] = "issue" /\ Fault
    /\ \E done \in BOOLEAN : cert' = (cert \/ done)
    /\ Return(p, TRUE)
    /\ UNCHANGED <<file, link, loaded, unit, fw, crashes, clobbered>>

IssueAttach(p) ==
    /\ pc[p] = "attach"
    /\ AttachOk
    /\ Goto(p, "record")
    /\ UNCHANGED <<link, unit, cert, fw, job, faults>> /\ Same

\* Mutant: the certificate is deleted whatever was attached before.
IssueAttachFailsDeletes(p) ==
    /\ pc[p] = "attach"
    /\ AttachUndone
    /\ cert' = FALSE
    /\ Return(p, TRUE)
    /\ UNCHANGED <<link, unit, fw, crashes, clobbered>>

\* The certificate is deleted when no attachment was recorded before.
IssueAttachFails(p) ==
    /\ pc[p] = "attach"
    /\ AttachUndone
    /\ cert' = (cert /\ job[p].prev # Unset)
    /\ Return(p, TRUE)
    /\ UNCHANGED <<link, unit, fw, crashes, clobbered>>

\* persist: the attachment with the configuration to go back to.
IssuePersist(p) ==
    /\ pc[p] = "record" /\ fw.host
    /\ fw' = [fw EXCEPT !.attached =
                 IF job[p].prev # Unset THEN job[p].prev ELSE job[p].start.file]
    /\ Return(p, FALSE)
    /\ UNCHANGED <<site, faults, crashes, clobbered>>

IssuePersistFails(p) ==
    /\ pc[p] = "record"
    /\ IF fw.host THEN Fault ELSE NoFault
    /\ file' = job[p].start.file
    /\ loaded' = Enabled(job[p].start.file, link)
    /\ cert' = (cert /\ job[p].prev # Unset)
    /\ Return(p, TRUE)
    /\ UNCHANGED <<link, unit, fw, crashes, clobbered>>

\* renew and detach read the recorded configuration before they lock.
ReadPrevious(p, op) ==
    /\ pc[p] = "idle"
    /\ Consumer /\ fw.attached # Unset
    /\ job' = [job EXCEPT ![p] = [op |-> op, prev |-> fw.attached]]
    /\ Goto(p, op)
    /\ UNCHANGED <<site, fw, faults>> /\ Same

\* The lock is tried; a busy host refuses the call.
Refused(p) ==
    /\ pc[p] \in {"renew", "detach"} /\ lock # NoProc
    /\ Return(p, TRUE)
    /\ UNCHANGED <<site, fw, faults, crashes, clobbered>>

RenewCertificate(p) ==
    /\ pc[p] = "renew" /\ lock = NoProc /\ Preflight /\ cert
    /\ lock' = p
    /\ Goto(p, "reattach")
    /\ UNCHANGED <<site, fw, job, faults, crashes, clobbered>>

RenewCertificateFails(p) ==
    /\ pc[p] = "renew" /\ lock = NoProc
    /\ IF Preflight /\ cert THEN Fault ELSE NoFault
    /\ Return(p, TRUE)
    /\ UNCHANGED <<site, fw, crashes, clobbered>>

RenewAttach(p) ==
    /\ pc[p] = "reattach"
    /\ AttachOk
    /\ Goto(p, "rerecord")
    /\ UNCHANGED <<link, unit, cert, fw, job, faults>> /\ Same

RenewAttachFails(p) ==
    /\ pc[p] = "reattach"
    /\ AttachUndone
    /\ Return(p, TRUE)
    /\ UNCHANGED <<link, unit, cert, fw, crashes, clobbered>>

RenewPersist(p) ==
    /\ pc[p] = "rerecord"
    /\ \/ /\ fw.host /\ NoFault
          /\ fw' = [fw EXCEPT !.attached = job[p].prev]
          /\ Return(p, FALSE)
       \/ /\ IF fw.host THEN Fault ELSE NoFault
          /\ UNCHANGED fw
          /\ Return(p, TRUE)
    /\ UNCHANGED <<site, crashes, clobbered>>

\* detach: the recorded configuration is written, validated and reloaded.
DetachWrite(p) ==
    /\ pc[p] = "detach" /\ lock = NoProc
    /\ CanAttach /\ (link => Valid(job[p].prev, cert))
    /\ lock' = p
    /\ file' = job[p].prev
    /\ loaded' = Enabled(job[p].prev, link)
    /\ Goto(p, "delete")
    /\ UNCHANGED <<link, unit, cert, fw, job, faults, crashes, clobbered>>

\* What was there is written back.
DetachWriteFails(p) ==
    /\ pc[p] = "detach" /\ lock = NoProc
    /\ IF CanAttach /\ (link => Valid(job[p].prev, cert)) THEN Fault ELSE NoFault
    /\ loaded' = IF CanAttach /\ SiteValid THEN Enabled(file, link) ELSE loaded
    /\ Return(p, TRUE)
    /\ UNCHANGED <<file, link, unit, cert, fw, crashes, clobbered>>

DetachCertificate(p) ==
    /\ pc[p] = "delete" /\ cert
    /\ cert' = FALSE
    /\ Goto(p, "forget")
    /\ UNCHANGED <<file, link, loaded, unit, fw, job, faults>> /\ Same

\* certbot delete fails: the certificate still there is attached again.
DetachCertificateFails(p) ==
    /\ pc[p] = "delete"
    /\ \/ cert /\ Fault /\ AttachOk
       \/ ~cert /\ NoFault /\ UNCHANGED <<file, loaded>>
    /\ Return(p, TRUE)
    /\ UNCHANGED <<link, unit, cert, fw, crashes, clobbered>>

\* remove_persisted.
DetachForget(p) ==
    /\ pc[p] = "forget"
    /\ \/ /\ fw' = [fw EXCEPT !.attached = Unset]
          /\ NoFault /\ Return(p, FALSE)
       \/ /\ Fault /\ UNCHANGED fw
          /\ Return(p, TRUE)
    /\ UNCHANGED <<site, crashes, clobbered>>

-----------------------------------------------------------------------------
\* A process dies where it stands; the kernel frees its lock.
Crash(p) ==
    /\ pc[p] # "idle" /\ crashes < MaxCrashes
    /\ crashes' = crashes + 1
    /\ Goto(p, "idle")
    /\ lock' = IF lock = p THEN NoProc ELSE lock
    /\ job' = [job EXCEPT ![p] = NoJob]
    /\ UNCHANGED <<site, fw, faults, clobbered>>

Next == \E p \in Procs :
    \/ \E port \in Ports : ConfigureWrite(p, port)
    \/ ConfigureLink(p) \/ ConfigureLinkFails(p)
    \/ ConfigureCheck(p) \/ ConfigureCheckFails(p)
    \/ ConfigureActivate(p) \/ ConfigureActivateFails(p)
    \/ ConfigurePersist(p) \/ ConfigurePersistFails(p)
    \/ RemoveLink(p) \/ RemoveFile(p)
    \/ EnsureLoad(p) \/ EnsureSave(p)
    \/ IssueBegin(p)
    \/ IssueCertificate(p) \/ IssueCertificateFails(p)
    \/ IssueAttach(p) \/ IssueAttachFails(p)
    \/ IssuePersist(p) \/ IssuePersistFails(p)
    \/ \E op \in {"renew", "detach"} : ReadPrevious(p, op)
    \/ Refused(p)
    \/ RenewCertificate(p) \/ RenewCertificateFails(p)
    \/ RenewAttach(p) \/ RenewAttachFails(p)
    \/ RenewPersist(p)
    \/ DetachWrite(p) \/ DetachWriteFails(p)
    \/ DetachCertificate(p) \/ DetachCertificateFails(p)
    \/ DetachForget(p)
    \/ Crash(p)

Spec == Init /\ [][Next]_vars

-----------------------------------------------------------------------------
(* Type invariant. *)
TypeOK ==
    /\ file \in Content /\ loaded \in Content /\ link \in BOOLEAN
    /\ unit \in [active : BOOLEAN, enabled : BOOLEAN] /\ cert \in BOOLEAN
    /\ fw \in [nginx : BOOLEAN, host : BOOLEAN, attached : Content \cup {Unset}]
    /\ clobbered \in BOOLEAN
    /\ lock \in Procs \cup {NoProc}
    /\ \A p \in Procs : pc[p] = "idle" \/ "op" \in DOMAIN job[p]
    /\ faults \in 0..MaxFaults /\ crashes \in 0..MaxCrashes

(* A configuration or an issue that one failing step ends leaves the file and *)
(* the symlink as it found them, and nginx serving what it served or what the *)
(* files say, if nginx can load them (the undo in configure_with_node_port    *)
(* and issue).  A start of nginx that fails after it happened is not undone.  *)
FailedChangeIsUndone ==
    [][\A p \in Procs :
          /\ job[p].op \in {"configure", "issue"} /\ pc[p] # "idle"
          /\ job'[p] = Failed
          => LET start == job[p].start
             IN  /\ file' = start.file /\ link' = start.link
                 /\ job[p].reload /\ Valid(start.file, cert) =>
                       Served' \in {start.served, Enabled(start.file, start.link)}]_vars

(* No step of the managers deletes a certificate the site still names: nginx  *)
(* would refuse every later change of any site.  The framework state decides  *)
(* what issue and detach go back to, so this needs a state no stale save and  *)
(* no crash has cut short.                                                    *)
SiteNamesItsCertificate ==
    lock = NoProc /\ crashes = 0 /\ ~clobbered => (file.tls => cert)

(* A site on disk is recorded as a web host: certificates find it by that     *)
(* record, and a save that fails takes the site away again.                   *)
SiteIsRecorded ==
    lock = NoProc /\ crashes = 0 /\ ~clobbered /\ file # NoFile => fw.host

(* Between operations file, certificate and record agree.                     *)
SitesConsistent == TypeOK /\ SiteNamesItsCertificate /\ SiteIsRecorded

(* applications.md, of the certificate: it is persisted and bound to the web  *)
(* host.  While it is, the web host presents it.                              *)
BoundCertificateIsServed ==
    lock = NoProc /\ fw.attached # Unset /\ file # NoFile => file.tls
=============================================================================
