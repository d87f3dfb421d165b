------------------------- MODULE UpdateRuntime_proofs -------------------------
(***************************************************************************)
(* Proofs about UpdateRuntime for every number of handlers and versions:   *)
(* a working version is never lost, the cache agrees with the journal, a   *)
(* finished update is what its journal says, and what is installed was     *)
(* confirmed twice.                                                        *)
(***************************************************************************)
EXTENDS UpdateRuntime, TLAPS

\* The journal state that each step of the operation thread works on.
OpInv ==
  /\ Idle => op.pc = "idle"
  /\ op.pc \in {"fetch", "receive", "verify"} => journal.state = "downloading"
  /\ op.pc \in {"stage", "staged"} => journal.state = "verified"
  /\ op.pc \in {"backup", "replace", "health"} => journal.state = "installing"
  /\ op.pc \in {"check", "commit"} => journal.state = "health-check"
  /\ op.pc \in {"rollback", "rolledBack", "manual"} => journal.state \in Interrupted

\* What is known of the files: a backup is always a version that works, and
\* it exists whenever the target may not work.
FileInv ==
  /\ backup \in trusted \union {NoVersion}
  /\ \/ target \in trusted
     \/ backup # NoVersion /\ journal.state \in Interrupted \union {"manual-recovery"}
  /\ op.pc = "backup" => target \in trusted
  /\ op.pc \in {"replace", "health", "check"} => backup # NoVersion
  /\ op.pc \in {"health", "check", "commit"} => target = journal.version
  /\ op.pc \in {"commit", "rolledBack"} => target \in trusted
  /\ journal.state = "committed" => target = journal.version
  /\ journal.state # "none" => journal.version \in Versions

\* A check between its two files holds the lock: no other one does, and no
\* update is in progress.
HandlerInv ==
  /\ \A h \in Handlers : handler[h].pc = "prepare" =>
       journal.state \in Terminal /\ cached = handler[h].version
  /\ \A h, g \in Handlers :
       handler[h].pc = "prepare" /\ handler[g].pc = "prepare" => h = g
  /\ CachedMatchesJournal

UpdateInv == UpdateTypeOK /\ OpInv /\ FileInv /\ HandlerInv

LEMMA InitUpdateInv == Init => UpdateInv
BY UpdateAssumption
   DEF Init, UpdateInv, UpdateTypeOK, OpInv, FileInv, HandlerInv, CachedMatchesJournal,
       Versions, NoVersion, IdleOp, IdleHandler, NoConsent, NoConfirmation, Confirmations, States, Terminal, Interrupted,
       Kinds, OpPcs, HandlerPcs, Idle

\* Steps of a handler that leave journal, cache and files alone.
LEMMA QuietHandlerKeeps ==
  ASSUME UpdateInv, NEW h \in Handlers,
         CheckBegin(h) \/ CheckFetched(h) \/ Confirm(h, "confirmedDownload")
           \/ Confirm(h, "confirmedInstall")
  PROVE  UpdateInv'
<1>1. PICK pc \in HandlerPcs \ {"prepare"}, v \in Versions \union {NoVersion} :
        handler' = [handler EXCEPT ![h] = [pc |-> pc, version |-> v]]
  BY DEF CheckBegin, CheckFetched, Confirm, SetHandler, UpdateInv, UpdateTypeOK, HandlerPcs
<1>2. UNCHANGED <<envVars, files, cached, journal, op, prepares, consent, overtaken, trusted>>
  BY DEF CheckBegin, CheckFetched, Confirm
<1>3. UpdateTypeOK'
  BY <1>1, <1>2 DEF UpdateInv, UpdateTypeOK, envVars, files
<1>4. OpInv' /\ FileInv'
  BY <1>2 DEF UpdateInv, OpInv, FileInv, files, Idle
<1>5. HandlerInv'
  BY <1>1, <1>2 DEF UpdateInv, UpdateTypeOK, HandlerInv, CachedMatchesJournal
<1> QED BY <1>3, <1>4, <1>5 DEF UpdateInv

\* A check that installs its manifest, and the journal it prepares.
LEMMA CheckPersistKeeps ==
  ASSUME UpdateInv, NEW h \in Handlers, CheckPersist(h)
  PROVE  UpdateInv'
<1> USE DEF CheckPersist, UpdateInv
<1>1. PICK pc \in {"idle", "prepare"}, v \in Versions \union {NoVersion} :
        /\ handler' = [handler EXCEPT ![h] = [pc |-> pc, version |-> v]]
        /\ pc = "prepare" => /\ journal.state \in Terminal
                             /\ cached' = v
        /\ pc = "idle" => UNCHANGED cached
        /\ pc = "prepare" => cached' = handler[h].version
  BY DEF SetHandler, UpdateTypeOK
<1>2. UpdateTypeOK'
  BY <1>1 DEF UpdateTypeOK, HandlerPcs, envVars, files
<1>3. OpInv' /\ FileInv'
  BY DEF OpInv, FileInv, files, Idle
<1>4. HandlerInv'
  BY <1>1 DEF UpdateTypeOK, HandlerInv, CachedMatchesJournal, LockFree
<1> QED BY <1>2, <1>3, <1>4

LEMMA PrepareKeeps ==
  ASSUME UpdateInv, NEW h \in Handlers, Prepare(h)
  PROVE  UpdateInv'
<1> USE DEF Prepare, UpdateInv
<1>1. handler' = [handler EXCEPT ![h] = [pc |-> "idle", version |-> NoVersion]]
  BY DEF SetHandler
<1>2. journal.state \in Terminal /\ cached = handler[h].version
  BY DEF HandlerInv
<1>3. target \in trusted
  BY <1>2 DEF FileInv, Terminal, Interrupted
<1>4. \A g \in Handlers : handler'[g].pc # "prepare"
  BY <1>1 DEF HandlerInv, UpdateTypeOK
<1>5. CASE UNCHANGED <<prepares, journal, backup, partial, staged, consent, overtaken>>
  <2>1. UpdateTypeOK'
    BY <1>1, <1>5 DEF UpdateTypeOK, HandlerPcs, envVars
  <2>2. OpInv' /\ FileInv'
    BY <1>5 DEF OpInv, FileInv, Idle
  <2>3. HandlerInv'
    BY <1>4, <1>5 DEF HandlerInv, CachedMatchesJournal
  <2> QED BY <2>1, <2>2, <2>3
<1>6. CASE /\ PolicyAccepts(handler[h].version)
           /\ prepares < MaxPrepares
           /\ prepares' = prepares + 1
           /\ journal' = [state |-> "available", version |-> handler[h].version]
           /\ backup' = NoVersion
           /\ partial' = "none"
           /\ staged' = "none"
           /\ consent' = NoConsent
           /\ overtaken' = {g \in Handlers : handler[g].pc \in Confirmed}
  <2>1. handler[h].version \in Versions
    BY <1>6 DEF UpdateTypeOK, PolicyAccepts, Versions, NoVersion
  <2>2. UpdateTypeOK'
    BY <1>1, <1>6, <2>1, UpdateAssumption
       DEF UpdateTypeOK, HandlerPcs, envVars, States, NoConsent, NoConfirmation, Confirmations
  <2>3. OpInv'
    BY <1>2, <1>6 DEF OpInv, Terminal, Interrupted, Idle
  <2>4. FileInv'
    BY <1>2, <1>3, <1>6, <2>1 DEF FileInv, OpInv, Terminal, Interrupted
  <2>5. HandlerInv'
    BY <1>2, <1>4, <1>6 DEF HandlerInv, CachedMatchesJournal
  <2> QED BY <2>2, <2>3, <2>4, <2>5
<1> QED BY <1>5, <1>6

LEMMA ConsentKeeps ==
  ASSUME UpdateInv, NEW h \in Handlers, ConsentDownload(h) \/ ConsentInstall(h)
  PROVE  UpdateInv'
<1> USE DEF UpdateInv
<1>1. handler' = [handler EXCEPT ![h] = [pc |-> "idle", version |-> NoVersion]]
  BY DEF ConsentDownload, ConsentInstall, SetHandler
<1>2. UNCHANGED <<envVars, files, cached, op, prepares, trusted>> /\ overtaken' = overtaken \ {h}
  BY DEF ConsentDownload, ConsentInstall
<1>3. \/ UNCHANGED <<journal, consent>>
      \/ /\ Idle
         /\ \/ journal.state = "available" /\ WriteState("download-consented")
            \/ journal.state = "staged" /\ WriteState("install-consented")
         /\ consent' \in [download : Confirmations, install : Confirmations]
  <2>1. /\ Confirmation(h) \in Confirmations
        /\ consent \in [download : Confirmations, install : Confirmations]
    BY DEF Confirmation, Confirmations, UpdateTypeOK
  <2> QED BY <2>1 DEF ConsentDownload, ConsentInstall, CanConsentInstall
<1>4. UpdateTypeOK'
  BY <1>1, <1>2, <1>3 DEF UpdateTypeOK, HandlerPcs, States, WriteState, envVars, files
<1>5. CASE UNCHANGED <<journal, consent>>
  <2>1. OpInv' /\ FileInv'
    BY <1>2, <1>5 DEF OpInv, FileInv, files, Idle
  <2>2. HandlerInv'
    BY <1>1, <1>2, <1>5 DEF UpdateTypeOK, HandlerInv, CachedMatchesJournal
  <2> QED BY <1>4, <2>1, <2>2
<1>6. CASE /\ Idle
           /\ \/ journal.state = "available" /\ WriteState("download-consented")
              \/ journal.state = "staged" /\ WriteState("install-consented")
  <2>1. OpInv'
    BY <1>2, <1>6 DEF OpInv, Idle, UpdateTypeOK
  <2>2. FileInv'
    BY <1>2, <1>6 DEF FileInv, Idle, files, WriteState, UpdateTypeOK, Interrupted
  <2>3. HandlerInv'
    BY <1>1, <1>2, <1>6 DEF UpdateTypeOK, HandlerInv, CachedMatchesJournal, WriteState,
       Terminal
  <2> QED BY <1>4, <2>1, <2>2, <2>3
<1> QED BY <1>3, <1>5, <1>6

LEMMA StartKeeps ==
  ASSUME UpdateInv, StartDownload \/ StartInstall \/ StartResume
  PROVE  UpdateInv'
<1> USE DEF UpdateInv
<1>1. PICK kind \in Kinds \ {"none"} :
        op' = [kind |-> kind, pc |-> "begin", version |-> cached]
  BY DEF StartDownload, StartInstall, StartResume, Start, Kinds
<1>2. UNCHANGED <<envVars, files, cached, journal, handler, prepares, consent, overtaken, trusted>>
  BY DEF StartDownload, StartInstall, StartResume, Start
<1>3. UpdateTypeOK'
  BY <1>1, <1>2 DEF UpdateTypeOK, OpPcs, envVars, files
<1>4. OpInv'
  BY <1>1, <1>2 DEF OpInv, Idle
<1>5. FileInv'
  BY <1>1, <1>2 DEF FileInv, files
<1>6. HandlerInv'
  BY <1>2 DEF HandlerInv, CachedMatchesJournal
<1> QED BY <1>3, <1>4, <1>5, <1>6

-----------------------------------------------------------------------------
(* The operation thread.                                                   *)

\* The download steps write the journal of a nonterminal update only.
LEMMA DownloadKeeps ==
  ASSUME UpdateInv,
         DownloadBegin \/ Fetch \/ Receive \/ Verify \/ Stage \/ Staged
  PROVE  UpdateInv'
<1> USE DEF UpdateInv
<1>1. op.kind = "download" /\ op \in [kind : Kinds, pc : OpPcs, version : Versions \union {NoVersion}]
  BY DEF DownloadBegin, Fetch, Receive, Verify, Stage, Staged, At, UpdateTypeOK
<1>2. UNCHANGED <<kept, target, backup, trusted>>
  BY DEF DownloadBegin, Fetch, Receive, Verify, Stage, Staged, files
<1>3. PICK pc \in {"fetch", "receive", "verify", "stage", "staged", "recover", "end"} :
        /\ op' = [op EXCEPT !.pc = pc]
        /\ pc \in {"fetch", "receive", "verify"} => journal'.state = "downloading"
        /\ pc \in {"stage", "staged"} => journal'.state = "verified"
  BY DEF DownloadBegin, Fetch, Receive, Verify, Stage, Staged, At, Goto, WriteState, OpInv,
     UpdateTypeOK
<1>4. \/ UNCHANGED journal
      \/ /\ journal.state \in {"download-consented", "downloading", "verified"}
         /\ \E state \in {"downloading", "verified", "staged"} : WriteState(state)
  BY DEF DownloadBegin, Fetch, Receive, Verify, Stage, Staged, At, OpInv
<1>5. partial' \in {"none", "bad", "good"} /\ staged' \in {"none", "bad", "good"}
  BY DEF DownloadBegin, Fetch, Receive, Verify, Stage, Staged, UpdateTypeOK, files
<1>6. journal' \in [state : States, version : Versions \union {NoVersion}]
      /\ journal'.version = journal.version
  BY <1>4 DEF UpdateTypeOK, WriteState, States
<1>7. UpdateTypeOK'
  <2>1. op' \in [kind : Kinds, pc : OpPcs, version : Versions \union {NoVersion}]
    BY <1>1, <1>3 DEF OpPcs
  <2> QED BY <1>2, <1>5, <1>6, <2>1 DEF UpdateTypeOK, kept, envVars
<1>8. OpInv'
  BY <1>1, <1>3 DEF OpInv, Idle
<1>9. FileInv'
  BY <1>1, <1>2, <1>3, <1>4, <1>6 DEF FileInv, Terminal, Interrupted, WriteState, UpdateTypeOK
<1>10. HandlerInv'
  BY <1>2, <1>4, <1>6 DEF HandlerInv, CachedMatchesJournal, kept, Terminal, WriteState,
     UpdateTypeOK
<1> QED BY <1>7, <1>8, <1>9, <1>10

\* What engine.resume does to a journal that no install has touched.
LEMMA ResumeJournalFacts ==
  ASSUME UpdateInv, ResumeJournal
  PROVE  /\ partial' \in {"none", "bad", "good"}
         /\ staged' \in {"none", "bad", "good"}
         /\ journal' \in [state : States, version : Versions \union {NoVersion}]
         /\ \/ UNCHANGED journal
            \/ /\ journal.state \notin Terminal \union Interrupted \union {"manual-recovery"}
               /\ journal'.state \notin Terminal \union Interrupted
               /\ journal'.version = journal.version
BY DEF UpdateInv, UpdateTypeOK, ResumeJournal, WriteState, States, Terminal, Interrupted

LEMMA RecoverKeeps ==
  ASSUME UpdateInv, Recover \/ ResumeBegin
  PROVE  UpdateInv'
<1> USE DEF UpdateInv
<1>1. UNCHANGED <<kept, target, backup, trusted>> /\ op.kind # "none"
  BY DEF Recover, ResumeBegin, At
<1>2. PICK pc \in {"rollback", "end"} :
        /\ op' = [op EXCEPT !.pc = pc]
        /\ pc = "rollback" => journal.state \in Interrupted /\ UNCHANGED journal
  BY DEF Recover, ResumeBegin, Goto
<1>3. /\ partial' \in {"none", "bad", "good"}
      /\ staged' \in {"none", "bad", "good"}
      /\ journal' \in [state : States, version : Versions \union {NoVersion}]
      /\ \/ UNCHANGED journal
         \/ /\ journal.state \notin Terminal \union Interrupted \union {"manual-recovery"}
            /\ journal'.state \notin Terminal \union Interrupted
            /\ journal'.version = journal.version
  <2>1. ResumeJournal \/ UNCHANGED <<journal, partial, staged>>
    BY DEF Recover, ResumeBegin
  <2> QED BY <2>1, ResumeJournalFacts DEF UpdateTypeOK
<1>4. UpdateTypeOK'
  <2>1. op' \in [kind : Kinds, pc : OpPcs, version : Versions \union {NoVersion}]
    BY <1>2 DEF OpPcs, UpdateTypeOK
  <2> QED BY <1>1, <1>3, <2>1 DEF UpdateTypeOK, kept, envVars
<1>5. OpInv'
  BY <1>1, <1>2 DEF OpInv, Idle, UpdateTypeOK
<1>6. FileInv'
  BY <1>1, <1>2, <1>3 DEF FileInv, UpdateTypeOK, Terminal, Interrupted
<1>7. HandlerInv'
  BY <1>1, <1>3 DEF HandlerInv, CachedMatchesJournal, kept, Terminal
<1> QED BY <1>4, <1>5, <1>6, <1>7

\* The install steps, up to the health check: the backup comes first.
LEMMA InstallKeeps ==
  ASSUME UpdateInv,
         InstallBegin \/ Backup \/ Replace \/ EnterHealthCheck \/ HealthCheck \/ Commit
  PROVE  UpdateInv'
<1> USE DEF UpdateInv
<1>1. /\ op.kind = "install" /\ UNCHANGED <<kept, partial, staged>>
      /\ op \in [kind : Kinds, pc : OpPcs, version : Versions \union {NoVersion}]
  BY DEF InstallBegin, Backup, Replace, EnterHealthCheck, HealthCheck, Commit, At, files,
     UpdateTypeOK
<1>2. CASE InstallBegin
  <2>1. UNCHANGED <<target, backup, trusted>>
    BY <1>2 DEF InstallBegin, files
  <2>2. \/ /\ journal.state = "install-consented"
           /\ journal' = [journal EXCEPT !.state = "installing"]
           /\ op' = [op EXCEPT !.pc = "backup"]
        \/ UNCHANGED journal /\ op' = [op EXCEPT !.pc = "end"]
    BY <1>2 DEF InstallBegin, CanInstall, WriteState, Goto
  <2>3. UpdateTypeOK'
    BY <1>1, <2>1, <2>2 DEF UpdateTypeOK, kept, envVars, States, OpPcs
  <2>4. OpInv'
    BY <1>1, <2>2 DEF OpInv, Idle, UpdateTypeOK
  <2>5. FileInv'
    BY <1>1, <2>1, <2>2 DEF FileInv, UpdateTypeOK, Interrupted
  <2>6. HandlerInv'
    BY <1>1, <2>2 DEF HandlerInv, CachedMatchesJournal, kept, Terminal, UpdateTypeOK
  <2> QED BY <2>3, <2>4, <2>5, <2>6
<1>3. CASE Backup
  <2>1. /\ op.pc = "backup" /\ UNCHANGED <<journal, target, trusted>>
        /\ \/ backup' = target /\ op' = [op EXCEPT !.pc = "replace"]
           \/ backup' = backup /\ op' = [op EXCEPT !.pc = "rollback"]
    BY <1>3 DEF Backup, At, Goto
  <2>2. UpdateTypeOK'
    BY <1>1, <2>1 DEF UpdateTypeOK, kept, envVars, OpPcs
  <2>3. OpInv'
    BY <1>1, <2>1 DEF OpInv, Idle, Interrupted
  <2>4. FileInv'
    BY <1>1, <2>1 DEF FileInv, UpdateTypeOK, Versions, NoVersion
  <2>5. HandlerInv'
    BY <1>1, <2>1 DEF HandlerInv, CachedMatchesJournal, kept
  <2> QED BY <2>2, <2>3, <2>4, <2>5
<1>4. CASE Replace
  <2>1. /\ op.pc = "replace" /\ UNCHANGED <<journal, backup, trusted>>
        /\ \/ target' = journal.version /\ op' = [op EXCEPT !.pc = "health"]
           \/ target' = target /\ op' = [op EXCEPT !.pc = "rollback"]
    BY <1>4 DEF Replace, At, Goto
  <2>2. journal.state = "installing" /\ journal.version \in Versions /\ backup # NoVersion
    BY <2>1 DEF OpInv, FileInv
  <2>3. UpdateTypeOK'
    BY <1>1, <2>1, <2>2 DEF UpdateTypeOK, kept, envVars, OpPcs
  <2>4. OpInv'
    BY <1>1, <2>1 DEF OpInv, Idle, Interrupted
  <2>5. FileInv'
    BY <1>1, <2>1, <2>2 DEF FileInv, Interrupted
  <2>6. HandlerInv'
    BY <1>1, <2>1 DEF HandlerInv, CachedMatchesJournal, kept
  <2> QED BY <2>3, <2>4, <2>5, <2>6
<1>5. CASE EnterHealthCheck
  <2>1. /\ op.pc = "health" /\ UNCHANGED <<target, backup, trusted>>
        /\ journal' = [journal EXCEPT !.state = "health-check"]
        /\ op' = [op EXCEPT !.pc = "check"]
    BY <1>5 DEF EnterHealthCheck, At, Goto, WriteState, files
  <2>2. UpdateTypeOK'
    BY <1>1, <2>1 DEF UpdateTypeOK, kept, envVars, OpPcs, States
  <2>3. OpInv'
    BY <1>1, <2>1 DEF OpInv, Idle, UpdateTypeOK
  <2>4. FileInv'
    BY <1>1, <2>1 DEF FileInv, OpInv, UpdateTypeOK, Interrupted
  <2>5. HandlerInv'
    BY <1>1, <2>1 DEF HandlerInv, OpInv, CachedMatchesJournal, kept, Terminal, UpdateTypeOK
  <2> QED BY <2>2, <2>3, <2>4, <2>5
<1>6. CASE HealthCheck
  <2>1. /\ op.pc = "check" /\ UNCHANGED <<journal, target, backup>>
        /\ \/ trusted' = trusted \union {target} /\ op' = [op EXCEPT !.pc = "commit"]
           \/ trusted' = trusted /\ op' = [op EXCEPT !.pc = "rollback"]
    BY <1>6 DEF HealthCheck, At, Goto, files
  <2>2. UpdateTypeOK'
    BY <1>1, <2>1 DEF UpdateTypeOK, kept, envVars, OpPcs
  <2>3. OpInv'
    BY <1>1, <2>1 DEF OpInv, Idle, Interrupted
  <2>4. FileInv'
    BY <1>1, <2>1 DEF FileInv
  <2>5. HandlerInv'
    BY <1>1, <2>1 DEF HandlerInv, CachedMatchesJournal, kept
  <2> QED BY <2>2, <2>3, <2>4, <2>5
<1>7. CASE Commit
  <2>1. /\ op.pc = "commit" /\ UNCHANGED <<target, backup, trusted>>
        /\ journal' = [journal EXCEPT !.state = "committed"]
        /\ op' = [op EXCEPT !.pc = "end"]
    BY <1>7 DEF Commit, At, Goto, WriteState, files
  <2>2. UpdateTypeOK'
    BY <1>1, <2>1 DEF UpdateTypeOK, kept, envVars, OpPcs, States
  <2>3. OpInv'
    BY <1>1, <2>1 DEF OpInv, Idle
  <2>4. FileInv'
    BY <1>1, <2>1 DEF FileInv, OpInv, UpdateTypeOK
  <2>5. HandlerInv'
    BY <1>1, <2>1 DEF HandlerInv, OpInv, CachedMatchesJournal, kept, Terminal, UpdateTypeOK
  <2> QED BY <2>2, <2>3, <2>4, <2>5
<1> QED BY <1>2, <1>3, <1>4, <1>5, <1>6, <1>7

LEMMA RollbackKeeps ==
  ASSUME UpdateInv, Rollback \/ RollbackDone \/ OperationEnd
  PROVE  UpdateInv'
<1> USE DEF UpdateInv
<1>1. UNCHANGED <<kept, backup, partial, staged, trusted>>
  BY DEF Rollback, RollbackDone, OperationEnd, files
<1>2. CASE Rollback
  <2>1. /\ op.pc = "rollback" /\ UNCHANGED journal
        /\ \/ backup # NoVersion /\ target' = backup /\ op' = [op EXCEPT !.pc = "rolledBack"]
           \/ target' = target /\ op' = [op EXCEPT !.pc = "manual"]
    BY <1>2 DEF Rollback, Goto
  <2>2. UpdateTypeOK'
    BY <1>1, <2>1 DEF UpdateTypeOK, kept, envVars, OpPcs
  <2>3. OpInv'
    BY <1>1, <2>1 DEF OpInv, Idle, UpdateTypeOK
  <2>4. FileInv'
    BY <1>1, <2>1 DEF FileInv, OpInv, Interrupted, UpdateTypeOK
  <2>5. HandlerInv'
    BY <1>1, <2>1 DEF HandlerInv, CachedMatchesJournal, kept
  <2> QED BY <2>2, <2>3, <2>4, <2>5
<1>3. CASE RollbackDone
  <2>1. /\ UNCHANGED target /\ op' = [op EXCEPT !.pc = "end"]
        /\ \/ op.pc = "rolledBack" /\ journal' = [journal EXCEPT !.state = "rolled-back"]
           \/ op.pc = "manual" /\ journal' = [journal EXCEPT !.state = "manual-recovery"]
    BY <1>3 DEF RollbackDone, Goto, WriteState, files
  <2>2. UpdateTypeOK'
    BY <1>1, <2>1 DEF UpdateTypeOK, kept, envVars, OpPcs, States
  <2>3. OpInv'
    BY <1>1, <2>1 DEF OpInv, Idle, UpdateTypeOK
  <2>4. FileInv'
    BY <1>1, <2>1 DEF FileInv, OpInv, Interrupted, UpdateTypeOK
  <2>5. HandlerInv'
    BY <1>1, <2>1 DEF HandlerInv, OpInv, CachedMatchesJournal, kept, Terminal, Interrupted,
       UpdateTypeOK
  <2> QED BY <2>2, <2>3, <2>4, <2>5
<1>4. CASE OperationEnd
  <2>1. UNCHANGED <<journal, target>> /\ op' = IdleOp
    BY <1>4 DEF OperationEnd, files
  <2>2. UpdateTypeOK'
    BY <1>1, <2>1 DEF UpdateTypeOK, kept, envVars, OpPcs, Kinds, IdleOp
  <2>3. OpInv' /\ FileInv' /\ HandlerInv'
    BY <1>1, <2>1 DEF OpInv, FileInv, HandlerInv, CachedMatchesJournal, kept, Idle, IdleOp
  <2> QED BY <2>2, <2>3
<1> QED BY <1>2, <1>3, <1>4

\* An exception leaves journal and files alone.
LEMMA StepFailsKeeps ==
  ASSUME UpdateInv, StepFails
  PROVE  UpdateInv'
<1> USE DEF UpdateInv
<1>1. UNCHANGED <<kept, journal, files, trusted>> /\ op.pc # "idle"
  BY DEF StepFails
<1>2. PICK pc \in {"recover", "rollback", "manual", "end"} :
        /\ op' = [op EXCEPT !.pc = pc]
        /\ pc = "rollback" => op.pc \in {"backup", "replace", "health", "check"}
        /\ pc = "manual" => op.pc = "rollback"
  BY DEF StepFails, Goto, AfterFailure
<1>3. UpdateTypeOK'
  BY <1>1, <1>2 DEF UpdateTypeOK, kept, envVars, files, OpPcs
<1>4. OpInv'
  BY <1>1, <1>2 DEF OpInv, Idle, Interrupted, UpdateTypeOK
<1>5. FileInv'
  BY <1>1, <1>2 DEF FileInv, files, UpdateTypeOK
<1>6. HandlerInv'
  BY <1>1 DEF HandlerInv, CachedMatchesJournal, kept
<1> QED BY <1>3, <1>4, <1>5, <1>6

LEMMA EnvironmentKeeps ==
  ASSUME UpdateInv, Relaunch \/ Publish \/ Expire \/ LoseStaged
  PROVE  UpdateInv'
<1> USE DEF UpdateInv
<1>1. CASE Relaunch
  <2>1. UpdateTypeOK'
    BY <1>1 DEF Relaunch, UpdateTypeOK, files, IdleOp, IdleHandler, Kinds, OpPcs, HandlerPcs
  <2>2. OpInv' /\ FileInv' /\ HandlerInv'
    BY <1>1 DEF Relaunch, OpInv, FileInv, HandlerInv, CachedMatchesJournal, files, IdleOp,
       IdleHandler, Idle
  <2> QED BY <2>1, <2>2
<1>2. CASE Publish \/ Expire \/ LoseStaged
  <2>1. UNCHANGED <<running, target, backup, cached, journal, op, handler, prepares,
                    consent, overtaken, trusted>>
    BY <1>2 DEF Publish, Expire, LoseStaged, files, envVars
  <2>2. published' \in Versions
    BY <1>2, UpdateAssumption
       DEF Publish, Expire, LoseStaged, UpdateTypeOK, envVars, Versions
  <2>3. expired' \subseteq Expiring
    BY <1>2 DEF Publish, Expire, LoseStaged, UpdateTypeOK, envVars
  <2>4. partial' \in {"none", "bad", "good"} /\ staged' \in {"none", "bad", "good"}
    BY <1>2 DEF Publish, Expire, LoseStaged, UpdateTypeOK, files
  <2>5. UpdateTypeOK'
    BY <2>1, <2>2, <2>3, <2>4 DEF UpdateTypeOK
  <2>6. OpInv' /\ FileInv' /\ HandlerInv'
    BY <2>1 DEF OpInv, FileInv, HandlerInv, CachedMatchesJournal, Idle
  <2> QED BY <2>5, <2>6
<1> QED BY <1>1, <1>2

LEMMA UpdateStepKeeps ==
  ASSUME UpdateInv, [Next]_vars
  PROVE  UpdateInv'
<1>1. ASSUME NEW h \in Handlers, Handle(h) PROVE UpdateInv'
  BY <1>1, QuietHandlerKeeps, CheckPersistKeeps, PrepareKeeps, ConsentKeeps DEF Handle
<1>2. CASE StartDownload \/ StartInstall \/ StartResume
  BY <1>2, StartKeeps
<1>3. CASE Operation
  BY <1>3, DownloadKeeps, RecoverKeeps, InstallKeeps, RollbackKeeps DEF Operation
<1>4. CASE StepFails
  BY <1>4, StepFailsKeeps
<1>5. CASE Relaunch \/ Publish \/ Expire \/ LoseStaged
  BY <1>5, EnvironmentKeeps
<1>6. CASE UNCHANGED vars
  BY <1>6 DEF vars, UpdateInv, UpdateTypeOK, OpInv, FileInv, HandlerInv,
     CachedMatchesJournal, Idle
<1> QED BY <1>1, <1>2, <1>3, <1>4, <1>5, <1>6 DEF Next

LEMMA UpdateInvHolds == Spec => []UpdateInv
<1>1. UpdateInv /\ [Next]_vars => UpdateInv'
  BY UpdateStepKeeps
<1> QED BY InitUpdateInv, <1>1, PTL DEF Spec

-----------------------------------------------------------------------------
\* Every state of the updater is typed.
THEOREM UpdateTypeCorrect == Spec => []UpdateTypeOK
BY UpdateInvHolds, PTL DEF UpdateInv

\* "Recovery cannot destroy both versions": wherever an install, a rollback
\* or the process stops, the target or its backup is a version that works.
THEOREM OldVersionIsKept == Spec => []OldVersionKept
<1>1. UpdateInv => OldVersionKept
  BY DEF UpdateInv, FileInv, OldVersionKept
<1> QED BY <1>1, UpdateInvHolds, PTL

\* The cached manifest is that of the update in progress, however many
\* checks run beside it.
THEOREM CacheAgreesWithJournal == Spec => []CachedMatchesJournal
<1>1. UpdateInv => CachedMatchesJournal
  BY DEF UpdateInv, HandlerInv
<1> QED BY <1>1, UpdateInvHolds, PTL

\* A journal never says committed or rolled back of a target that is not.
THEOREM FinishedUpdatesAreTrue == Spec => []TerminalIsTrue
<1>1. UpdateInv => TerminalIsTrue
  BY DEF UpdateInv, FileInv, TerminalIsTrue, Interrupted
<1> QED BY <1>1, UpdateInvHolds, PTL

-------------------------------------------------------------------------------
\* What a confirmation is worth: it is for the journaled version, or a check
\* has prepared another one since.
HandlersConfirm ==
  \A h \in Handlers : handler[h].pc \in Confirmed =>
    /\ handler[h].version # NoVersion
    /\ handler[h].version = journal.version \/ h \in overtaken

\* What the journal's state says of the user's consents: a downloaded update
\* was consented to, and one that is being installed twice.
JournalConsented ==
  /\ journal.state \notin {"none", "available"} =>
       ConsentIsFor(consent.download, journal.version)
  /\ journal.state \in {"install-consented"} \union Interrupted =>
       ConsentIsFor(consent.install, journal.version)

ConsentInv == HandlersConfirm /\ JournalConsented

LEMMA InitConsentInv == Init => ConsentInv
BY DEF Init, ConsentInv, HandlersConfirm, JournalConsented, IdleHandler, Interrupted, Confirmed

\* A step that is no handler's and leaves the consents alone: it suffices that
\* it gives the journal no state that asks for more of them.
LEMMA ConsentsKeep ==
  ASSUME ConsentInv, UNCHANGED consent, journal'.version = journal.version,
         \/ UNCHANGED <<handler, overtaken>>
         \/ handler' = [h \in Handlers |-> IdleHandler],
         \/ journal'.state = journal.state
         \/ /\ journal.state \notin {"none", "available"}
            /\ journal'.state \in {"install-consented"} \union Interrupted =>
                 journal.state \in {"install-consented"} \union Interrupted
  PROVE  ConsentInv'
<1>1. HandlersConfirm'
  BY DEF ConsentInv, HandlersConfirm, IdleHandler, Confirmed
<1>2. JournalConsented'
  BY DEF ConsentInv, JournalConsented, ConsentIsFor
<1> QED BY <1>1, <1>2 DEF ConsentInv

\* Handlers that check or confirm: the journal changes in Prepare only, which
\* asks for both consents anew and overtakes the confirmations under way.
LEMMA ChecksConsent ==
  ASSUME UpdateInv, ConsentInv, NEW h \in Handlers,
         \/ CheckBegin(h) \/ CheckFetched(h) \/ CheckPersist(h) \/ Prepare(h)
         \/ Confirm(h, "confirmedDownload") \/ Confirm(h, "confirmedInstall")
  PROVE  ConsentInv'
<1> USE DEF UpdateInv
<1>1. PICK pc \in HandlerPcs, v \in Versions \union {NoVersion} :
        /\ handler' = [handler EXCEPT ![h] = [pc |-> pc, version |-> v]]
        /\ pc \in Confirmed =>
             /\ v # NoVersion /\ v = journal.version
             /\ UNCHANGED <<journal, consent, overtaken>>
  BY DEF CheckBegin, CheckFetched, CheckPersist, Prepare, Confirm, SetHandler, UpdateTypeOK,
     HandlerPcs, FileInv, Versions, NoVersion, Confirmed
<1>2. CASE UNCHANGED <<journal, consent, overtaken>>
  <2>1. HandlersConfirm'
    BY <1>1, <1>2 DEF ConsentInv, HandlersConfirm, UpdateTypeOK
  <2> QED BY <1>2, <2>1 DEF ConsentInv, JournalConsented
<1>3. CASE /\ journal'.state = "available" /\ pc \notin Confirmed
           /\ overtaken' = {g \in Handlers : handler[g].pc \in Confirmed}
  <2>1. HandlersConfirm'
    BY <1>1, <1>3 DEF ConsentInv, HandlersConfirm, UpdateTypeOK
  <2>2. JournalConsented'
    BY <1>3 DEF JournalConsented, Interrupted
  <2> QED BY <2>1, <2>2 DEF ConsentInv
<1>4. CASE CheckBegin(h) \/ CheckFetched(h) \/ CheckPersist(h) \/ Confirm(h, "confirmedDownload")
             \/ Confirm(h, "confirmedInstall")
  BY <1>2, <1>4 DEF CheckBegin, CheckFetched, CheckPersist, Confirm
<1>5. CASE Prepare(h)
  <2>1. handler' = [handler EXCEPT ![h] = [pc |-> "idle", version |-> NoVersion]]
    BY <1>5 DEF Prepare, SetHandler
  <2>2. pc = "idle"
    BY <1>1, <2>1 DEF UpdateTypeOK
  <2> QED BY <1>2, <1>3, <1>5, <2>2 DEF Prepare, Confirmed
<1> QED BY <1>4, <1>5

\* A consent is recorded with the version that was confirmed.
LEMMA ConsentsConsent ==
  ASSUME UpdateInv, ConsentInv, NEW h \in Handlers, ConsentDownload(h) \/ ConsentInstall(h)
  PROVE  ConsentInv'
<1> USE DEF UpdateInv
<1>1. /\ handler' = [handler EXCEPT ![h] = [pc |-> "idle", version |-> NoVersion]]
      /\ overtaken' = overtaken \ {h} /\ handler[h].pc \in Confirmed
  BY DEF ConsentDownload, ConsentInstall, SetHandler, Confirmed
<1>2. /\ ConsentIsFor(Confirmation(h), journal.version)
      /\ consent \in [download : Confirmations, install : Confirmations]
  BY <1>1 DEF ConsentInv, HandlersConfirm, Confirmation, ConsentIsFor, UpdateTypeOK
<1>3. journal'.version = journal.version
  BY DEF ConsentDownload, ConsentInstall, WriteState, UpdateTypeOK
<1>4. HandlersConfirm'
  BY <1>1, <1>3 DEF ConsentInv, HandlersConfirm, UpdateTypeOK, Confirmed
<1>5. ASSUME UNCHANGED <<journal, consent>> PROVE JournalConsented'
  BY <1>5 DEF ConsentInv, JournalConsented, ConsentIsFor
<1>6. ASSUME consent' = [consent EXCEPT !.download = Confirmation(h)],
             WriteState("download-consented")
      PROVE  JournalConsented'
  <2>1. journal'.state = "download-consented" /\ consent'.download = Confirmation(h)
    BY <1>2, <1>6 DEF WriteState, UpdateTypeOK
  <2> QED BY <1>2, <1>3, <2>1 DEF JournalConsented, Interrupted, ConsentIsFor
<1>7. ASSUME consent' = [consent EXCEPT !.install = Confirmation(h)],
             WriteState("install-consented"), journal.state = "staged"
      PROVE  JournalConsented'
  <2>1. /\ journal'.state = "install-consented" /\ consent'.install = Confirmation(h)
        /\ consent'.download = consent.download
    BY <1>2, <1>7 DEF WriteState, UpdateTypeOK
  <2>2. ConsentIsFor(consent.download, journal.version)
    BY <1>7 DEF ConsentInv, JournalConsented
  <2> QED BY <1>2, <1>3, <2>1, <2>2 DEF JournalConsented, ConsentIsFor
<1>8. JournalConsented'
  BY <1>5, <1>6, <1>7 DEF ConsentDownload, ConsentInstall, CanConsentInstall
<1> QED BY <1>4, <1>8 DEF ConsentInv

LEMMA OperationConsents ==
  ASSUME UpdateInv, ConsentInv, Operation
  PROVE  ConsentInv'
<1> USE DEF UpdateInv
<1>1. UNCHANGED <<consent, handler, overtaken>> /\ journal'.version = journal.version
  BY DEF Operation, DownloadBegin, Fetch, Receive, Verify, Stage, Staged, Recover, ResumeBegin,
     InstallBegin, Backup, Replace, EnterHealthCheck, HealthCheck, Commit, Rollback,
     RollbackDone, OperationEnd, kept, ResumeJournal, WriteState, UpdateTypeOK
<1>2. CASE DownloadBegin \/ Fetch \/ Receive \/ Verify \/ Stage \/ Staged
  <2>1. \/ UNCHANGED journal
        \/ /\ journal.state \in {"download-consented", "downloading", "verified"}
           /\ journal'.state \in {"downloading", "verified", "staged"}
    BY <1>2 DEF DownloadBegin, Fetch, Receive, Verify, Stage, Staged, At, OpInv, WriteState,
       UpdateTypeOK
  <2> QED BY <1>1, <2>1, ConsentsKeep DEF Interrupted
<1>3. CASE Recover \/ ResumeBegin
  <2>1. ResumeJournal \/ UNCHANGED journal
    BY <1>3 DEF Recover, ResumeBegin
  <2>2. \/ UNCHANGED journal
        \/ /\ journal.state \notin {"none", "available"}
           /\ journal'.state \in {"download-consented", "staged"}
    BY <2>1 DEF ResumeJournal, WriteState, UpdateTypeOK
  <2> QED BY <1>1, <2>2, ConsentsKeep DEF Interrupted
<1>4. CASE InstallBegin \/ Backup \/ Replace \/ EnterHealthCheck \/ HealthCheck \/ Commit
  <2>1. \/ UNCHANGED journal
        \/ /\ journal.state \in {"install-consented"} \union Interrupted
           /\ journal'.state \in Interrupted \union {"committed"}
    BY <1>4 DEF InstallBegin, CanInstall, Backup, Replace, EnterHealthCheck, HealthCheck, Commit,
       At, OpInv, WriteState, UpdateTypeOK, Interrupted
  <2> QED BY <1>1, <2>1, ConsentsKeep DEF Interrupted
<1>5. CASE Rollback \/ RollbackDone \/ OperationEnd
  <2>1. \/ UNCHANGED journal
        \/ /\ journal.state \in Interrupted
           /\ journal'.state \in {"rolled-back", "manual-recovery"}
    BY <1>5 DEF Rollback, RollbackDone, OperationEnd, OpInv, WriteState, UpdateTypeOK
  <2> QED BY <1>1, <2>1, ConsentsKeep DEF Interrupted
<1> QED BY <1>2, <1>3, <1>4, <1>5 DEF Operation

LEMMA ConsentStep ==
  ASSUME UpdateInv, ConsentInv, [Next]_vars
  PROVE  ConsentInv'
<1>1. CASE \/ StartDownload \/ StartInstall \/ StartResume \/ StepFails
           \/ Relaunch \/ Publish \/ Expire \/ LoseStaged \/ UNCHANGED vars
  <2>1. /\ UNCHANGED <<consent, journal>>
        /\ UNCHANGED <<handler, overtaken>> \/ handler' = [h \in Handlers |-> IdleHandler]
    BY <1>1 DEF StartDownload, StartInstall, StartResume, Start, StepFails, Relaunch, Publish,
       Expire, LoseStaged, vars, kept
  <2> QED BY <2>1, ConsentsKeep
<1> QED BY <1>1, ChecksConsent, ConsentsConsent, OperationConsents DEF Next, Handle

\* The target is written by Replace and Rollback alone, while the journal says
\* that an install is under way.
LEMMA TargetWrites ==
  ASSUME UpdateInv, [Next]_vars, target' # target
  PROVE  journal.state \in Interrupted /\ UNCHANGED <<journal, consent>>
<1>1. ~(\E h \in Handlers : Handle(h))
  BY DEF Handle, CheckBegin, CheckFetched, CheckPersist, Prepare, Confirm, ConsentDownload,
     ConsentInstall, files
<1>2. ~(StartDownload \/ StartInstall \/ StartResume \/ StepFails \/ Relaunch \/ Publish
        \/ Expire \/ LoseStaged \/ UNCHANGED vars)
  BY DEF StartDownload, StartInstall, StartResume, Start, StepFails, Relaunch, Publish, Expire,
     LoseStaged, vars, files
<1>3. Replace \/ Rollback
  BY <1>1, <1>2 DEF Next, Operation, DownloadBegin, Fetch, Receive, Verify, Stage, Staged,
     Recover, ResumeBegin, InstallBegin, Backup, EnterHealthCheck, HealthCheck, Commit,
     RollbackDone, OperationEnd, files
<1> QED BY <1>3 DEF Replace, Rollback, At, UpdateInv, OpInv, kept, Interrupted

\* No recovery, retry, restart or further check installs an update but the
\* one that the user confirmed, for the download and for the installation, a
\* check that overtakes a confirmation between comparison and lock apart.
THEOREM InstallsAreConsented == Spec => InstallsAsConsented
<1> DEFINE AsConsented == target' # target /\ target' = journal.version =>
                            /\ ConsentIsFor(consent.download, journal.version)
                            /\ ConsentIsFor(consent.install, journal.version)
           Inv == UpdateInv /\ ConsentInv
<1>1. Init => Inv
  BY InitUpdateInv, InitConsentInv
<1>2. Inv /\ [Next]_vars => Inv'
  BY UpdateStepKeeps, ConsentStep
<1>3. Inv /\ [Next]_vars => [AsConsented]_vars
  BY TargetWrites DEF ConsentInv, JournalConsented, Interrupted
<1> HIDE DEF AsConsented, Inv
<1>4. Spec => [][AsConsented]_vars
  BY <1>1, <1>2, <1>3, PTL DEF Spec
<1> QED BY <1>4 DEF AsConsented, InstallsAsConsented
===============================================================================
