---------------------------- MODULE UpdateRuntime ----------------------------
(***************************************************************************)
(* The consent-gated updater: UpdateRuntimeService (update_runtime.py)     *)
(* over UpdateEngine (update_engine.py) and AtomicFileUpdateInstaller      *)
(* (platform_adapters/update_install.py), on a package that can install.   *)
(*                                                                         *)
(* HTTP handlers check, consent and start operations under one lock, which *)
(* they do not hold while they fetch a manifest or compare the version a   *)
(* user confirmed.  An operation runs in one background thread.  Journal,  *)
(* manifest and installed file are each replaced atomically; the process   *)
(* may die between any two replacements and the user then launches         *)
(* whatever the target path holds.  Versions are naturals; the bytes of an *)
(* artifact are good (as the manifest signs them) or bad.                  *)
(***************************************************************************)
EXTENDS Naturals

CONSTANTS
  Handlers,       \* HTTP handler threads
  MaxVersion,     \* newest version ever published
  Expiring,       \* versions whose manifest has an expiry time
  MaxPrepares     \* bound: updates ever prepared

ASSUME UpdateAssumption ==
  /\ MaxVersion \in Nat \ {0}
  /\ Expiring \subseteq 1 .. MaxVersion
  /\ MaxPrepares \in Nat

Versions == 1 .. MaxVersion
NoVersion == 0

VARIABLES
  published,   \* newest published version
  expired,     \* versions whose manifest has expired
  running,     \* version of the running process
  target,      \* version in the file at the target path
  backup,      \* version in the backup of the journaled update
  partial,     \* its partial download
  staged,      \* its staged artifact
  cached,      \* version of the cached authenticated manifest
  journal,     \* state and version of the update journal
  op,          \* the operation in progress and where it is
  handler,     \* what each HTTP handler is in
  prepares,    \* updates prepared so far
  consent,     \* history: the version the user confirmed for each consent
  overtaken,   \* history: handlers whose comparison a check has overtaken
  trusted      \* history: versions that ran or passed their health check

files == <<target, backup, partial, staged>>
envVars == <<published, expired, running>>
vars == <<published, expired, running, target, backup, partial, staged, cached,
          journal, op, handler, prepares, consent, overtaken, trusted>>

States == {"none", "available", "download-consented", "downloading", "verified",
           "staged", "install-consented", "installing", "health-check",
           "committed", "rolled-back", "manual-recovery"}
Terminal == {"none", "committed", "rolled-back"}
Interrupted == {"installing", "health-check"}

IdleOp == [kind |-> "none", pc |-> "idle", version |-> NoVersion]
IdleHandler == [pc |-> "idle", version |-> NoVersion]
NoConfirmation == [version |-> NoVersion, late |-> FALSE]
NoConsent == [download |-> NoConfirmation, install |-> NoConfirmation]

-----------------------------------------------------------------------------
Init ==
  /\ published = 1
  /\ expired = {}
  /\ running = 1
  /\ target = 1
  /\ backup = NoVersion
  /\ partial = "none"
  /\ staged = "none"
  /\ cached = NoVersion
  /\ journal = [state |-> "none", version |-> NoVersion]
  /\ op = IdleOp
  /\ handler = [h \in Handlers |-> IdleHandler]
  /\ prepares = 0
  /\ consent = NoConsent
  /\ overtaken = {}
  /\ trusted = {1}

\* _write: the journal file is replaced atomically.
WriteState(state) == journal' = [journal EXCEPT !.state = state]

\* The lock is free unless a check is between its two files.
LockFree == \A h \in Handlers : handler[h].pc # "prepare"

Idle == op.kind = "none"

\* A consent's version was compared and the lock is still to be taken.
Confirmed == {"confirmedDownload", "confirmedInstall"}

\* _validate_manifest_policy: newer than the running version, not expired.
PolicyAccepts(v) == running < v /\ v \notin expired

\* _match_manifest.
Matches(v) == v = journal.version /\ PolicyAccepts(v)

\* _authenticated_manifest: the parser refuses an expired manifest.
CacheReadable == cached # NoVersion /\ cached \notin expired

SetHandler(h, pc, v) == handler' = [handler EXCEPT ![h] = [pc |-> pc, version |-> v]]

-----------------------------------------------------------------------------
(* HTTP handlers.                                                          *)

\* check: idle is asserted and the lock released before the fetch.
CheckBegin(h) ==
  /\ handler[h].pc = "idle"
  /\ LockFree
  /\ Idle
  /\ SetHandler(h, "fetching", NoVersion)
  /\ UNCHANGED <<envVars, files, cached, journal, op, prepares, consent, overtaken,
                 trusted>>

\* source.check: only a newer, unexpired manifest is AVAILABLE.
CheckFetched(h) ==
  /\ handler[h].pc = "fetching"
  /\ \/ PolicyAccepts(published) /\ SetHandler(h, "fetched", published)
     \/ SetHandler(h, "idle", NoVersion)
  /\ UNCHANGED <<envVars, files, cached, journal, op, prepares, consent, overtaken,
                 trusted>>

\* Mutant: the manifest is persisted although an update is in progress.
CheckPersist_Anytime(h) ==
  /\ handler[h].pc = "fetched"
  /\ LockFree
  /\ cached' = handler[h].version
  /\ IF journal.state \in Terminal THEN SetHandler(h, "prepare", handler[h].version)
                                   ELSE SetHandler(h, "idle", NoVersion)
  /\ UNCHANGED <<envVars, files, journal, op, prepares, consent, overtaken, trusted>>

\* Under the lock again: an update in progress stays, otherwise the manifest
\* is persisted before its fingerprint is journaled.
CheckPersist(h) ==
  /\ handler[h].pc = "fetched"
  /\ LockFree
  /\ \/ /\ journal.state \notin Terminal
        /\ SetHandler(h, "idle", NoVersion)
        /\ UNCHANGED cached
     \/ /\ journal.state \in Terminal
        /\ cached' = handler[h].version
        /\ SetHandler(h, "prepare", handler[h].version)
  /\ UNCHANGED <<envVars, files, journal, op, prepares, consent, overtaken, trusted>>

\* engine.prepare: fresh file names, a new journal; or an error.
Prepare(h) ==
  /\ handler[h].pc = "prepare"
  /\ \/ /\ PolicyAccepts(handler[h].version)
        /\ prepares < MaxPrepares
        /\ prepares' = prepares + 1
        /\ journal' = [state |-> "available", version |-> handler[h].version]
        /\ backup' = NoVersion
        /\ partial' = "none"
        /\ staged' = "none"
        /\ consent' = NoConsent
        /\ overtaken' = {g \in Handlers : handler[g].pc \in Confirmed}
     \/ UNCHANGED <<prepares, journal, backup, partial, staged, consent, overtaken>>
  /\ SetHandler(h, "idle", NoVersion)
  /\ UNCHANGED <<envVars, target, cached, op, trusted>>

\* Mutant: the version the user saw is not compared.
Confirm_Unchecked(h, kind) ==
  /\ handler[h].pc = "idle"
  /\ journal.state # "none"
  /\ \E v \in 1 .. published : SetHandler(h, kind, v)
  /\ UNCHANGED <<envVars, files, cached, journal, op, prepares, consent, overtaken,
                 trusted>>

\* _require_confirmation compares the version the user saw, without the lock.
Confirm(h, kind) ==
  /\ handler[h].pc = "idle"
  /\ journal.state # "none"
  /\ SetHandler(h, kind, journal.version)
  /\ UNCHANGED <<envVars, files, cached, journal, op, prepares, consent, overtaken,
                 trusted>>

Confirmation(h) == [version |-> handler[h].version, late |-> h \in overtaken]

\* consent_download under the lock.
ConsentDownload(h) ==
  /\ handler[h].pc = "confirmedDownload"
  /\ LockFree
  /\ \/ /\ Idle
        /\ journal.state = "available"
        /\ WriteState("download-consented")
        /\ consent' = [consent EXCEPT !.download = Confirmation(h)]
     \/ /\ ~ (Idle /\ journal.state = "available")
        /\ UNCHANGED <<journal, consent>>
  /\ SetHandler(h, "idle", NoVersion)
  /\ overtaken' = overtaken \ {h}
  /\ UNCHANGED <<envVars, files, cached, op, prepares, trusted>>

CanConsentInstall ==
  /\ Idle
  /\ CacheReadable
  /\ journal.state = "staged"
  /\ Matches(cached)
  /\ staged = "good"

\* consent_install under the lock; the staged artifact is verified again.
ConsentInstall(h) ==
  /\ handler[h].pc = "confirmedInstall"
  /\ LockFree
  /\ \/ /\ CanConsentInstall
        /\ WriteState("install-consented")
        /\ consent' = [consent EXCEPT !.install = Confirmation(h)]
     \/ ~CanConsentInstall /\ UNCHANGED <<journal, consent>>
  /\ SetHandler(h, "idle", NoVersion)
  /\ overtaken' = overtaken \ {h}
  /\ UNCHANGED <<envVars, files, cached, op, prepares, trusted>>

\* start_download, start_install, resume: _begin starts the thread.
Start(kind, states) ==
  /\ LockFree
  /\ Idle
  /\ CacheReadable
  /\ journal.state \in states
  /\ cached = journal.version
  /\ op' = [kind |-> kind, pc |-> "begin", version |-> cached]
  /\ UNCHANGED <<envVars, files, cached, journal, handler, prepares, consent, overtaken,
                 trusted>>

StartDownload == Start("download", {"download-consented"})
StartInstall  == Start("install", {"install-consented"})
StartResume   == Start("resume", States \ {"none"})

-----------------------------------------------------------------------------
(* The operation thread.                                                   *)

At(kind, pc) == op.kind = kind /\ op.pc = pc
Goto(pc) == op' = [op EXCEPT !.pc = pc]
kept == <<envVars, cached, handler, prepares, consent, overtaken>>

DownloadBegin ==
  /\ At("download", "begin")
  /\ \/ /\ journal.state = "download-consented" /\ Matches(op.version)
        /\ WriteState("downloading")
        /\ Goto("fetch")
     \/ /\ ~ (journal.state = "download-consented" /\ Matches(op.version))
        /\ Goto("recover")
        /\ UNCHANGED journal
  /\ UNCHANGED <<kept, files, trusted>>

\* The partial file is created anew and grows.
Fetch ==
  /\ At("download", "fetch")
  /\ partial' = "bad"
  /\ Goto("receive")
  /\ UNCHANGED <<kept, journal, target, backup, staged, trusted>>

\* Size and hash agree, or the partial file is removed.
Receive ==
  /\ At("download", "receive")
  /\ \/ partial' = "good" /\ Goto("verify")
     \/ partial' = "none" /\ Goto("recover")
  /\ UNCHANGED <<kept, journal, target, backup, staged, trusted>>

Verify ==
  /\ At("download", "verify")
  /\ WriteState("verified")
  /\ Goto("stage")
  /\ UNCHANGED <<kept, files, trusted>>

Stage ==
  /\ At("download", "stage")
  /\ staged' = partial
  /\ partial' = "none"
  /\ Goto("staged")
  /\ UNCHANGED <<kept, journal, target, backup, trusted>>

Staged ==
  /\ At("download", "staged")
  /\ WriteState("staged")
  /\ Goto("end")
  /\ UNCHANGED <<kept, files, trusted>>

\* engine.resume for a journal that no install has touched.
ResumeJournal ==
  \/ /\ journal.state = "downloading"
     /\ partial' = "none"
     /\ WriteState("download-consented")
     /\ UNCHANGED staged
  \/ /\ journal.state = "verified"
     /\ partial' = "none"
     /\ LET candidate == IF partial # "none" THEN partial ELSE staged
        IN IF candidate = "good"
           THEN staged' = "good" /\ WriteState("staged")
           ELSE staged' = "none" /\ WriteState("download-consented")
  \/ /\ journal.state \in {"staged", "install-consented"}
     /\ IF staged = "good" THEN UNCHANGED <<journal, staged>>
        ELSE staged' = "none" /\ WriteState("download-consented")
     /\ UNCHANGED partial
  \/ /\ journal.state \notin {"downloading", "verified", "staged",
                              "install-consented"} \union Interrupted
     /\ UNCHANGED <<journal, partial, staged>>

\* Mutant: a failed download is tried again at once.
Recover_Retries ==
  /\ At("download", "recover")
  /\ \/ /\ CacheReadable /\ Matches(cached)
        /\ ResumeJournal
        /\ Goto("begin")
     \/ /\ ~ (CacheReadable /\ Matches(cached))
        /\ Goto("end")
        /\ UNCHANGED <<journal, partial, staged>>
  /\ UNCHANGED <<kept, target, backup, trusted>>

\* After a failed download: resume with the cached manifest, errors ignored.
Recover ==
  /\ At("download", "recover")
  /\ \/ /\ CacheReadable /\ Matches(cached)
        /\ ResumeJournal
     \/ /\ ~ (CacheReadable /\ Matches(cached))
        /\ UNCHANGED <<journal, partial, staged>>
  /\ Goto("end")
  /\ UNCHANGED <<kept, target, backup, trusted>>

ResumeBegin ==
  /\ At("resume", "begin")
  /\ \/ /\ Matches(op.version)
        /\ journal.state \in Interrupted
        /\ Goto("rollback")
        /\ UNCHANGED <<journal, partial, staged>>
     \/ /\ Matches(op.version)
        /\ ResumeJournal
        /\ Goto("end")
     \/ /\ ~Matches(op.version)
        /\ Goto("end")
        /\ UNCHANGED <<journal, partial, staged>>
  /\ UNCHANGED <<kept, target, backup, trusted>>

CanInstall ==
  journal.state = "install-consented" /\ Matches(op.version) /\ staged = "good"

InstallBegin ==
  /\ At("install", "begin")
  /\ \/ CanInstall /\ WriteState("installing") /\ Goto("backup")
     \/ ~CanInstall /\ Goto("end") /\ UNCHANGED journal
  /\ UNCHANGED <<kept, files, trusted>>

\* Mutant: the target is not copied.
Backup_Skipped ==
  /\ At("install", "backup")
  /\ Goto("replace")
  /\ UNCHANGED <<kept, journal, files, trusted>>

\* AtomicFileUpdateInstaller.install copies the target, then replaces it.
Backup ==
  /\ At("install", "backup")
  /\ \/ staged # "none" /\ backup' = target /\ Goto("replace")
     \/ staged = "none" /\ Goto("rollback") /\ UNCHANGED backup
  /\ UNCHANGED <<kept, journal, target, partial, staged, trusted>>

Replace ==
  /\ At("install", "replace")
  /\ \/ staged = "good" /\ target' = journal.version /\ Goto("health")
     \/ staged # "good" /\ Goto("rollback") /\ UNCHANGED target
  /\ UNCHANGED <<kept, journal, backup, partial, staged, trusted>>

EnterHealthCheck ==
  /\ At("install", "health")
  /\ WriteState("health-check")
  /\ Goto("check")
  /\ UNCHANGED <<kept, files, trusted>>

\* Mutant: the outcome of the health check is ignored.
HealthCheck_Ignored ==
  /\ At("install", "check")
  /\ \/ trusted' = trusted \union {target}
     \/ UNCHANGED trusted
  /\ Goto("commit")
  /\ UNCHANGED <<kept, journal, files>>

HealthCheck ==
  /\ At("install", "check")
  /\ \/ trusted' = trusted \union {target} /\ Goto("commit")
     \/ Goto("rollback") /\ UNCHANGED trusted
  /\ UNCHANGED <<kept, journal, files>>

Commit ==
  /\ At("install", "commit")
  /\ WriteState("committed")
  /\ Goto("end")
  /\ UNCHANGED <<kept, files, trusted>>

\* installer.rollback needs the backup.
Rollback ==
  /\ op.pc = "rollback"
  /\ \/ backup # NoVersion /\ target' = backup /\ Goto("rolledBack")
     \/ backup = NoVersion /\ Goto("manual") /\ UNCHANGED target
  /\ UNCHANGED <<kept, journal, backup, partial, staged, trusted>>

RollbackDone ==
  /\ \/ op.pc = "rolledBack" /\ WriteState("rolled-back")
     \/ op.pc = "manual" /\ WriteState("manual-recovery")
  /\ Goto("end")
  /\ UNCHANGED <<kept, files, trusted>>

\* The finally clause of _begin takes the lock.
OperationEnd ==
  /\ op.pc = "end"
  /\ LockFree
  /\ op' = IdleOp
  /\ UNCHANGED <<kept, journal, files, trusted>>

\* Where an exception of the step at pc takes the operation: a failed
\* download recovers, an installer that fails is rolled back, a rollback that
\* fails needs manual recovery, and a journal write that fails ends it.
AfterFailure ==
  CASE op.kind = "download" /\ op.pc # "recover" -> "recover"
    [] op.pc \in {"backup", "replace", "health", "check"} -> "rollback"
    [] op.pc = "rollback" -> "manual"
    [] OTHER -> "end"

\* The disk or the network fails before the step has any effect.
StepFails ==
  /\ op.pc \notin {"idle", "end"}
  /\ Goto(AfterFailure)
  /\ UNCHANGED <<kept, journal, files, trusted>>

Operation ==
  \/ DownloadBegin \/ Fetch \/ Receive \/ Verify \/ Stage \/ Staged \/ Recover
  \/ ResumeBegin
  \/ InstallBegin \/ Backup \/ Replace \/ EnterHealthCheck \/ HealthCheck \/ Commit
  \/ Rollback \/ RollbackDone \/ OperationEnd

-----------------------------------------------------------------------------
(* The environment.                                                        *)

\* The process ends; the user launches the file at the target path.
Relaunch ==
  /\ running' = target
  /\ op' = IdleOp
  /\ handler' = [h \in Handlers |-> IdleHandler]
  /\ overtaken' = {}
  /\ UNCHANGED <<published, expired, files, cached, journal, prepares, consent, trusted>>

Publish ==
  /\ published < MaxVersion
  /\ published' = published + 1
  /\ UNCHANGED <<expired, running, files, cached, journal, op, handler, prepares,
                 consent, overtaken, trusted>>

Expire ==
  /\ \E v \in Expiring \ expired : v <= published /\ expired' = expired \union {v}
  /\ UNCHANGED <<published, running, files, cached, journal, op, handler, prepares,
                 consent, overtaken, trusted>>

\* Something outside the program empties the cache directory's artifacts.
LoseStaged ==
  /\ staged # "none"
  /\ staged' = "none"
  /\ UNCHANGED <<envVars, target, backup, partial, cached, journal, op, handler,
                 prepares, consent, overtaken, trusted>>

Handle(h) ==
  \/ CheckBegin(h) \/ CheckFetched(h) \/ CheckPersist(h) \/ Prepare(h)
  \/ Confirm(h, "confirmedDownload") \/ Confirm(h, "confirmedInstall")
  \/ ConsentDownload(h) \/ ConsentInstall(h)

Next ==
  \/ \E h \in Handlers : Handle(h)
  \/ StartDownload \/ StartInstall \/ StartResume
  \/ Operation \/ StepFails
  \/ Relaunch \/ Publish \/ Expire \/ LoseStaged

Spec == Init /\ [][Next]_vars

\* The operation thread runs, and a handler that holds the lock goes on.
FairSpec ==
  /\ Spec
  /\ WF_vars(Operation)
  /\ \A h \in Handlers : WF_vars(Prepare(h))

-----------------------------------------------------------------------------
Kinds == {"none", "download", "install", "resume"}
OpPcs == {"idle", "begin", "fetch", "receive", "verify", "stage", "staged", "recover",
          "backup", "replace", "health", "check", "commit", "rollback", "rolledBack",
          "manual", "end"}
HandlerPcs == {"idle", "fetching", "fetched", "prepare", "confirmedDownload",
               "confirmedInstall"}

Confirmations == [version : Versions \union {NoVersion}, late : BOOLEAN]

UpdateTypeOK ==
  /\ published \in Versions /\ expired \subseteq Expiring
  /\ running \in Versions /\ target \in Versions
  /\ backup \in Versions \union {NoVersion}
  /\ cached \in Versions \union {NoVersion}
  /\ partial \in {"none", "bad", "good"} /\ staged \in {"none", "bad", "good"}
  /\ journal \in [state : States, version : Versions \union {NoVersion}]
  /\ op \in [kind : Kinds, pc : OpPcs, version : Versions \union {NoVersion}]
  /\ handler \in [Handlers -> [pc : HandlerPcs, version : Versions \union {NoVersion}]]
  /\ prepares \in 0 .. MaxPrepares
  /\ consent \in [download : Confirmations, install : Confirmations]
  /\ overtaken \subseteq Handlers
  /\ trusted \subseteq Versions

\* "The old artifact remains available until the new version passes health
\* checks" (operations.md): wherever the process dies, the target or its
\* backup is a version that is known to work.
OldVersionKept == target \in trusted \/ backup \in trusted

\* Every later step re-authenticates the cached manifest against the journal:
\* while an update is in progress the cache holds that update's manifest,
\* whatever checks run meanwhile and wherever one was cut short.
CachedMatchesJournal ==
  journal.state \notin Terminal => cached = journal.version

\* A finished update is what it says: committed, the target is the new
\* version and passed its health check; rolled back, it is one known to work.
TerminalIsTrue ==
  /\ journal.state = "committed" => target = journal.version /\ target \in trusted
  /\ journal.state = "rolled-back" => target \in trusted

\* The user confirmed the journaled version itself.  The exception: a check
\* prepared this update between the comparison and the lock of a confirmation
\* that was meant for the one before.
ConsentIsFor(c, v) == c.version = v \/ (c.version # NoVersion /\ c.late)

\* "Each consent is bound to the exact prepared version" (api-v1.md): the
\* target is replaced only by the version that the user confirmed for the
\* download and, again, for the installation.  No recovery, retry, restart or
\* further check carries a consent over to another update, the one race in
\* ConsentIsFor apart.
InstallsAsConsented ==
  [][target' # target /\ target' = journal.version =>
       /\ ConsentIsFor(consent.download, journal.version)
       /\ ConsentIsFor(consent.install, journal.version)]_vars

\* An operation that was begun ends, so the updater is not busy for ever.
OperationEnds == []<>(op.kind = "none")
=============================================================================
