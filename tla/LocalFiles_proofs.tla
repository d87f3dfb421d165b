-------------------------- MODULE LocalFiles_proofs --------------------------
(***************************************************************************)
(* The history database holds what was committed, a migrated database has  *)
(* its backup, the saved configuration is the one that is loaded, and the  *)
(* startup entry agrees with it: for any number of programs and restore    *)
(* commands that start, fail and die in any order.                         *)
(***************************************************************************)
EXTENDS ConfigStore, TLAPS

Opening == {"open", "begin", "backup", "migrate"}

\* Who restores a database, or runs, holds the instance lock; a second start
\* that opens the database does not.
OwnerInv ==
  \A p \in Procs :
    proc[p].pc \notin {"new", "gone", "acquire"} =>
      owner = p \/ (proc[p].pc \in Opening /\ proc[p].after = "acquire")

\* Who migrates is the writer, unless the file was replaced meanwhile.
MigratorWrites ==
  \A p \in Procs : proc[p].pc \in {"backup", "migrate"} /\ ~proc[p].elsewhere => writer = p
ElsewhereInv ==
  \A p \in Procs :
    proc[p].elsewhere => proc[p].pc \in {"begin", "backup", "migrate"} /\ writer # p

\* A database of version 1 has its backup before it is migrated, and while a
\* log says that it was; nobody else writes to it.
BackedUpFirst ==
  \A p \in Procs :
    proc[p].pc = "migrate" /\ ~proc[p].elsewhere /\ proc[p].version = 1 /\ View.schema = 1
      => View \in backups
OldIsBackedUp ==
  /\ wal # NoLog /\ main.schema = 1 => main \in backups
  /\ \A p \in Procs :
       writer = p /\ proc[p].pc \notin {"backup", "migrate"} /\ View.schema = 1
         => wal = NoLog /\ main \in backups


\* What is restored is a backup.
SourceInv ==
  \A p \in Procs :
    proc[p].pc \in {"checkpoint", "unlink", "replace"} => proc[p].source \in backups

MigrationInv == MigratorWrites /\ ElsewhereInv /\ BackedUpFirst /\ OldIsBackedUp /\ SourceInv

\* The log is empty when a restore removes it, unless torn.
LogInv ==
  torn \/ \A p \in Procs : proc[p].pc \in {"unlink", "replace"} => wal = NoLog

DbInv == DbTypeOK /\ OwnerInv /\ MigrationInv /\ LogInv /\ DatabaseWhole /\ MigrationBackedUp

AnyConfig == Configs \union {Defaults}
Contents == [is : {"missing", "corrupt", "good"}, config : AnyConfig]
Applied == {"read", "backup", "write", "publish", "undo"}

\* The configuration files, the programs and the save under way hold what
\* they may.
ConfigTypeOK ==
  /\ file \in Contents /\ backup \in Contents
  /\ registered \in BOOLEAN /\ estranged \in BOOLEAN
  /\ loaded \in [Apps -> AnyConfig \union {NotLoaded}]
  /\ saving \in [pc : Applied \union {"idle", "startup"}, by : Apps \union {Nobody},
                  config : AnyConfig, current : Contents]
  /\ damages \in Nat
  /\ acked \in Configs /\ tried \subseteq Configs

\* A good file holds the last saved configuration or one whose save failed
\* late, and what becomes the backup is good.
FileInv ==
  /\ file.is \in {"good", "corrupt"} /\ (damages = 0 => file.is = "good")
  /\ file.is = "good" => file.config \in {acked} \union tried
  /\ backup.is \in {"missing", "good"}
  /\ backup.is = "good" => backup.config \in Configs
  /\ saving.pc = "backup" => saving.current.is = "good" /\ saving.current.config \in Configs
  /\ saving.pc = "publish" /\ file.is = "good" => file.config = saving.config

\* Who saves is the program that holds the lock, and it has a configuration.
SavingInv ==
  /\ saving.pc = "idle" => saving = NotSaving
  /\ saving.pc # "idle" => /\ saving.by \in Apps /\ owner = saving.by
                           /\ saving.config \in Configs
  /\ \A p \in Apps : owner = p => loaded[p] # NotLoaded

\* The startup entry follows the configuration that is being saved until the
\* save is done or undone.
StartupInv ==
  \A p \in Apps :
    owner = p => \/ estranged
                 \/ registered = IF saving.pc \in Applied THEN saving.config.startup
                                 ELSE loaded[p].startup

ConfigInv == ConfigTypeOK /\ FileInv /\ SavingInv /\ StartupInv
-----------------------------------------------------------------------------
LEMMA AtTyped == \A l \in Places : At(l) \in Processes
  BY DEF At, Processes, NoLog, Database, Databases, Newer

LEMMA ViewTyped == DbTypeOK => View \in Databases /\ NoLog \in Databases
  BY DEF DbTypeOK, View, NoLog, Database, Databases, Newer

\* The database stays what it is; there may be another backup.
FilesStay ==
  /\ UNCHANGED <<main, wal, truth, migrated, torn>>
  /\ backups \subseteq backups' /\ backups' \subseteq Databases
  /\ requests' \in Nat /\ crashes' \in Nat

\* One process changes from proc[p] to c.
LEMMA OneMoves ==
  ASSUME DbTypeOK, NEW p \in Procs, NEW c \in Processes, proc' = [proc EXCEPT ![p] = c]
  PROVE  /\ proc' \in [Procs -> Processes]
         /\ proc'[p] = c
         /\ \A q \in Procs \ {p} : proc'[q] = proc[q]
  BY DEF DbTypeOK

\* What a process that moves has to see to.
LEMMA MoveKeeps ==
  ASSUME DbInv, NEW p \in Procs, NEW c \in Processes, proc' = [proc EXCEPT ![p] = c], FilesStay,
         owner' \in Procs \union {Nobody}, writer' \in Procs \union {Nobody},
         \A q \in Procs \ {p} : (owner = q => owner' = q) /\ (writer = q <=> writer' = q),
         c.pc \notin {"new", "gone", "acquire"} =>
           owner' = p \/ (c.pc \in Opening /\ c.after = "acquire"),
         c.pc \in {"backup", "migrate"} /\ ~c.elsewhere => writer' = p,
         c.elsewhere => c.pc \in {"begin", "backup", "migrate"} /\ writer' # p,
         c.pc = "migrate" /\ ~c.elsewhere /\ c.version = 1 /\ View.schema = 1 => View \in backups',
         writer' = p /\ c.pc \notin {"backup", "migrate"} /\ View.schema = 1
           => wal = NoLog /\ main \in backups,
         c.pc \in {"checkpoint", "unlink", "replace"} => c.source \in backups',
         c.pc \in {"unlink", "replace"} => torn \/ wal = NoLog
  PROVE  DbInv'
<1> USE DEF DbInv, FilesStay
<1>1. /\ proc' \in [Procs -> Processes]
      /\ proc'[p] = c
      /\ \A q \in Procs \ {p} : proc'[q] = proc[q]
  BY OneMoves
<1>2. View' = View
  BY DEF View
<1>3. DbTypeOK'
  BY <1>1 DEF DbTypeOK
<1>4. OwnerInv'
  BY <1>1 DEF OwnerInv
<1>5. MigratorWrites' /\ ElsewhereInv'
  BY <1>1 DEF MigrationInv, MigratorWrites, ElsewhereInv
<1>6. BackedUpFirst' /\ OldIsBackedUp'
  BY <1>1, <1>2 DEF MigrationInv, BackedUpFirst, OldIsBackedUp
<1>7. LogInv' /\ SourceInv'
  BY <1>1 DEF LogInv, MigrationInv, SourceInv
<1>8. DatabaseWhole' /\ MigrationBackedUp'
  BY <1>2 DEF DatabaseWhole, MigrationBackedUp
<1> QED BY <1>3, <1>4, <1>5, <1>6, <1>7, <1>8 DEF MigrationInv

LEMMA LeaveKeeps ==
  ASSUME DbInv, NEW p \in Procs, Leave(p), FilesStay
  PROVE  DbInv'
<1>1. At("gone") \in Processes /\ At("gone").pc = "gone" /\ ~At("gone").elsewhere
  BY AtTyped DEF At, Places
<1>2. /\ owner' \in Procs \union {Nobody} /\ writer' \in Procs \union {Nobody}
      /\ writer' # p
      /\ \A q \in Procs \ {p} : (owner = q => owner' = q) /\ (writer = q <=> writer' = q)
  BY FilesAssumption DEF FilesAssumption, Leave, DbInv, DbTypeOK, Procs
<1>3. proc' = [proc EXCEPT ![p] = At("gone")]
  BY DEF Leave
<1> HIDE DEF Leave
<1> QED BY <1>1, <1>2, <1>3, MoveKeeps

LEMMA GiveUpKeeps ==
  ASSUME DbInv, NEW p \in Procs, GiveUp(p), FilesStay
  PROVE  DbInv'
<1>1. CASE ~(p \in Apps /\ owner = p)
  BY <1>1, LeaveKeeps DEF GiveUp
<1>2. CASE p \in Apps /\ owner = p
  <2>1. At("run") \in Processes /\ At("run").pc = "run" /\ ~At("run").elsewhere
    BY AtTyped DEF At, Places
  <2>2. /\ proc' = [proc EXCEPT ![p] = At("run")] /\ owner' = owner
        /\ writer' = IF writer = p /\ proc[p].pc \in {"backup", "migrate"} THEN Nobody ELSE writer
    BY <1>2 DEF GiveUp
  <2>3. /\ writer' \in Procs \union {Nobody}
        /\ \A q \in Procs \ {p} : writer = q <=> writer' = q
    BY <2>2, FilesAssumption DEF FilesAssumption, DbInv, DbTypeOK, Procs
  <2>4. writer' = p /\ View.schema = 1 => wal = NoLog /\ main \in backups
    BY <2>2, FilesAssumption DEF FilesAssumption, Procs, DbInv, MigrationInv, OldIsBackedUp
  <2>5. owner' \in Procs \union {Nobody}
    BY <2>2 DEF DbInv, DbTypeOK
  <2> QED BY <1>2, <2>1, <2>2, <2>3, <2>4, <2>5, MoveKeeps
<1> QED BY <1>1, <1>2
-----------------------------------------------------------------------------
\* Steps that change no file.
LEMMA LaunchKeeps ==
  ASSUME DbInv, NEW p \in Procs, Launch(p)
  PROVE  DbInv'
<1> USE DEF DbInv
<1>1. FilesStay
  BY DEF Launch, FilesStay, fileVars, historyVars, DbTypeOK
<1>2. \A q \in Procs : writer' = writer /\ writer' \in Procs \union {Nobody}
  BY DEF Launch, DbTypeOK
<1>3. writer = p /\ View.schema = 1 => wal = NoLog /\ main \in backups
  BY DEF Launch, MigrationInv, OldIsBackedUp
<1>4. CASE p \in Apps /\ proc' = [proc EXCEPT ![p] = [At("open") EXCEPT !.after = "acquire"]]
                     /\ owner' = owner
  <2> DEFINE c == [At("open") EXCEPT !.after = "acquire"]
  <2>1. /\ proc' = [proc EXCEPT ![p] = c] /\ c \in Processes
        /\ c.pc = "open" /\ c.after = "acquire" /\ ~c.elsewhere
    BY ZenonT(30), <1>4, AtTyped DEF At, Places, Processes
  <2> HIDE DEF c
  <2> QED BY <1>1, <1>2, <1>3, <1>4, <2>1, MoveKeeps DEF DbTypeOK, Opening
<1>5. CASE owner = Nobody /\ owner' = p
           /\ proc' = [proc EXCEPT ![p] = [At("open") EXCEPT !.after = "stage"]]
  <2> DEFINE c == [At("open") EXCEPT !.after = "stage"]
  <2>1. /\ proc' = [proc EXCEPT ![p] = c] /\ c \in Processes
        /\ c.pc = "open" /\ ~c.elsewhere
    BY ZenonT(30), <1>5, AtTyped DEF At, Places, Processes
  <2> HIDE DEF c
  <2>2. \A q \in Procs \ {p} : owner # q
    BY <1>5, FilesAssumption DEF FilesAssumption, Procs
  <2> QED BY <1>1, <1>2, <1>3, <1>5, <2>1, <2>2, MoveKeeps
<1>6. CASE proc' = [proc EXCEPT ![p].pc = "gone"] /\ owner' = owner
  <2> DEFINE c == [proc[p] EXCEPT !.pc = "gone"]
  <2>1. /\ proc' = [proc EXCEPT ![p] = c] /\ c \in Processes
        /\ c.pc = "gone" /\ c.elsewhere = proc[p].elsewhere
    BY <1>6 DEF DbTypeOK, Places, Processes
  <2> HIDE DEF c
  <2>2. ~proc[p].elsewhere
    BY DEF Launch, MigrationInv, ElsewhereInv
  <2> QED BY <1>1, <1>2, <1>3, <1>6, <2>1, <2>2, MoveKeeps DEF DbTypeOK
<1> QED BY <1>4, <1>5, <1>6 DEF Launch, Goto

LEMMA ReadVersionKeeps ==
  ASSUME DbInv, NEW p \in Procs, ReadVersion(p)
  PROVE  DbInv'
<1>1. FilesStay
  BY DEF ReadVersion, FilesStay, fileVars, historyVars, DbInv, DbTypeOK
<1>2. CASE GiveUp(p)
  BY <1>1, <1>2, GiveUpKeeps
<1>3. CASE /\ proc' = [proc EXCEPT ![p].pc = "begin", ![p].version = View.schema]
           /\ UNCHANGED <<owner, writer>>
  <2> USE DEF DbInv
  <2> DEFINE c == [proc[p] EXCEPT !.pc = "begin", !.version = View.schema]
  <2>1. View.schema \in 0 .. Newer
    BY ViewTyped DEF Databases
  <2>3. /\ proc' = [proc EXCEPT ![p] = c] /\ c \in Processes
        /\ c.pc = "begin" /\ c.after = proc[p].after /\ c.elsewhere = proc[p].elsewhere
    BY <1>3, <2>1 DEF DbTypeOK, Places, Processes
  <2> HIDE DEF c
  <2>2. /\ ~proc[p].elsewhere
        /\ owner = p \/ proc[p].after = "acquire"
        /\ writer = p /\ View.schema = 1 => wal = NoLog /\ main \in backups
    BY DEF ReadVersion, MigrationInv, ElsewhereInv, OwnerInv, OldIsBackedUp
  <2>4. UNCHANGED <<owner, writer>> /\ writer \in Procs \union {Nobody}
        /\ owner \in Procs \union {Nobody}
    BY <1>3 DEF DbTypeOK
  <2>5. c.pc \in Opening
    BY <2>3 DEF Opening
  <2> HIDE DEF DbInv
  <2> QED BY <1>1, <2>2, <2>3, <2>4, <2>5, MoveKeeps
<1> QED BY <1>2, <1>3 DEF ReadVersion

LEMMA BeginMigrationKeeps ==
  ASSUME DbInv, NEW p \in Procs, BeginMigration(p)
  PROVE  DbInv'
<1>1. FilesStay
  BY DEF BeginMigration, FilesStay, fileVars, historyVars, DbInv, DbTypeOK
<1>2. CASE GiveUp(p)
  BY <1>1, <1>2, GiveUpKeeps
<1>3. CASE /\ writer = Nobody \/ proc[p].elsewhere
           /\ writer' = IF proc[p].elsewhere THEN writer ELSE p
           /\ Goto(p, IF NeedsBackup(p) THEN "backup" ELSE "migrate")
           /\ owner' = owner
  <2> USE DEF DbInv
  <2> DEFINE c == [proc[p] EXCEPT !.pc = IF NeedsBackup(p) THEN "backup" ELSE "migrate"]
  <2>1. /\ proc' = [proc EXCEPT ![p] = c] /\ c \in Processes
        /\ c.pc = IF NeedsBackup(p) THEN "backup" ELSE "migrate"
        /\ c.after = proc[p].after /\ c.elsewhere = proc[p].elsewhere
        /\ c.version = proc[p].version
    BY <1>3 DEF Goto, DbTypeOK, Places, Processes
  <2> HIDE DEF c
  <2>2. /\ proc[p].elsewhere => writer # p
        /\ owner = p \/ proc[p].after = "acquire"
    BY DEF BeginMigration, MigrationInv, ElsewhereInv, OwnerInv
  <2>3. /\ writer' \in Procs \union {Nobody}
        /\ \A q \in Procs \ {p} : writer = q <=> writer' = q
        /\ c.elsewhere => writer' # p
        /\ ~c.elsewhere => writer' = p
    BY <1>3, <2>1, <2>2, FilesAssumption DEF FilesAssumption, DbTypeOK, Procs
  <2>4. c.pc = "migrate" => c.version # 1
    BY <2>1 DEF NeedsBackup
  <2>5. c.pc \in {"backup", "migrate"}
    BY <2>1
  <2>6. owner' = owner /\ owner \in Procs \union {Nobody}
    BY <1>3 DEF DbTypeOK
  <2>7. c.pc \in Opening /\ (owner = p \/ c.after = "acquire")
    BY <2>1, <2>2 DEF Opening
  <2> HIDE DEF DbInv
  <2> QED BY <1>1, <2>1, <2>3, <2>4, <2>5, <2>6, <2>7, MoveKeeps
<1> QED BY <1>2, <1>3 DEF BeginMigration

LEMMA MigrationBackupKeeps ==
  ASSUME DbInv, NEW p \in Procs, MigrationBackup(p)
  PROVE  DbInv'
<1>1. FilesStay
  BY ViewTyped DEF MigrationBackup, FilesStay, historyVars, DbInv, DbTypeOK
<1>2. CASE GiveUp(p)
  BY <1>1, <1>2, GiveUpKeeps
<1>3. CASE backups' = backups \union {View} /\ Goto(p, "migrate") /\ UNCHANGED <<owner, writer>>
  <2> USE DEF DbInv
  <2> DEFINE c == [proc[p] EXCEPT !.pc = "migrate"]
  <2>1. /\ proc' = [proc EXCEPT ![p] = c] /\ c \in Processes /\ c.pc = "migrate"
        /\ c.after = proc[p].after /\ c.elsewhere = proc[p].elsewhere
        /\ c.version = proc[p].version
    BY <1>3 DEF Goto, DbTypeOK, Places, Processes
  <2> HIDE DEF c
  <2>2. /\ owner = p \/ proc[p].after = "acquire"
        /\ IF proc[p].elsewhere THEN writer # p ELSE writer = p
    BY DEF MigrationBackup, MigrationInv, ElsewhereInv, MigratorWrites, OwnerInv
  <2>3. View \in backups'
    BY <1>3
  <2>4. UNCHANGED <<owner, writer>> /\ owner \in Procs \union {Nobody}
        /\ writer \in Procs \union {Nobody}
    BY <1>3 DEF DbTypeOK
  <2>5. c.pc \in Opening
    BY <2>1 DEF Opening
  <2> HIDE DEF DbInv
  <2> QED BY <1>1, <2>1, <2>2, <2>3, <2>4, <2>5, MoveKeeps
<1> QED BY <1>2, <1>3 DEF MigrationBackup

LEMMA AcquireKeeps ==
  ASSUME DbInv, NEW p \in Procs, Acquire(p)
  PROVE  DbInv'
<1> USE DEF DbInv
<1>1. FilesStay
  BY DEF Acquire, FilesStay, fileVars, historyVars, DbTypeOK
<1>2. PICK c \in Processes :
        /\ proc' = [proc EXCEPT ![p] = c] /\ ~c.elsewhere
        /\ \/ c.pc = "run" /\ owner = Nobody /\ owner' = p
           \/ c.pc = "gone" /\ owner' = owner
  BY AtTyped DEF Acquire, At, Places
<1>3. \A q \in Procs \ {p} : owner = q => owner' = q
  BY <1>2, FilesAssumption DEF FilesAssumption, Procs
<1>4. owner' \in Procs \union {Nobody} /\ writer' = writer /\ writer \in Procs \union {Nobody}
  BY DEF Acquire, DbTypeOK
<1>5. writer = p /\ View.schema = 1 => wal = NoLog /\ main \in backups
  BY DEF Acquire, MigrationInv, OldIsBackedUp
<1> HIDE DEF DbInv
<1> QED BY <1>1, <1>2, <1>3, <1>4, <1>5, MoveKeeps

LEMMA OpenWriteKeeps ==
  ASSUME DbInv, NEW p \in Procs, OpenWrite(p)
  PROVE  DbInv'
<1> USE DEF DbInv
<1>1. FilesStay
  BY DEF OpenWrite, FilesStay, fileVars, historyVars, DbTypeOK
<1>2. /\ proc[p] \in Processes
      /\ proc' = [proc EXCEPT ![p] = proc[p]]
      /\ owner' = owner /\ owner = p /\ writer = Nobody /\ writer' = p
      /\ ~proc[p].elsewhere /\ proc[p].pc \in {"run", "checkpoint", "unlink", "replace"}
  BY DEF OpenWrite, DbTypeOK, MigrationInv, ElsewhereInv
<1>3. View.schema # 1
  BY ViewTyped DEF OpenWrite, Current, Databases
<1>4. \A q \in Procs \ {p} : writer = q <=> writer' = q
  BY <1>2, FilesAssumption DEF FilesAssumption, Procs
<1>5. /\ proc[p].pc \in {"unlink", "replace"} => torn \/ wal = NoLog
      /\ proc[p].pc \in {"checkpoint", "unlink", "replace"} => proc[p].source \in backups'
  BY <1>1 DEF LogInv, MigrationInv, SourceInv, FilesStay
<1> HIDE DEF DbInv
<1> QED BY <1>1, <1>2, <1>3, <1>4, <1>5, MoveKeeps

LEMMA BackupToKeeps ==
  ASSUME DbInv, NEW p \in Procs, BackupTo(p)
  PROVE  DbInv'
<1> USE DEF DbInv
<1>1. FilesStay
  BY ViewTyped DEF BackupTo, FilesStay, historyVars, DbTypeOK
<1>2. /\ proc[p] \in Processes /\ proc[p].pc = "run" /\ owner = p
      /\ proc' = [proc EXCEPT ![p] = proc[p]]
      /\ UNCHANGED <<owner, writer>> /\ writer \in Procs \union {Nobody}
  BY DEF BackupTo, DbTypeOK, OwnerInv, Opening
<1>3. ~proc[p].elsewhere
  BY <1>2 DEF MigrationInv, ElsewhereInv
<1>4. writer = p /\ View.schema = 1 => wal = NoLog /\ main \in backups
  BY <1>2 DEF MigrationInv, OldIsBackedUp
<1> HIDE DEF DbInv
<1> QED BY <1>1, <1>2, <1>3, <1>4, MoveKeeps

LEMMA StageKeeps ==
  ASSUME DbInv, NEW p \in Procs, Stage(p)
  PROVE  DbInv'
<1> USE DEF DbInv
<1>1. FilesStay
  BY DEF Stage, FilesStay, fileVars, historyVars, DbTypeOK
<1>4. PICK b \in backups :
        proc' = [proc EXCEPT ![p].pc = "checkpoint", ![p].after = "check", ![p].source = b]
  BY DEF Stage
<1> DEFINE c == [proc[p] EXCEPT !.pc = "checkpoint", !.after = "check", !.source = b]
<1>2. /\ proc' = [proc EXCEPT ![p] = c] /\ c \in Processes
      /\ c.pc = "checkpoint" /\ c.elsewhere = proc[p].elsewhere /\ c.source \in backups'
  BY ZenonT(30), <1>4 DEF Stage, fileVars, DbTypeOK, Processes, Places
<1> HIDE DEF c
<1>3. /\ owner = p /\ UNCHANGED <<owner, writer>> /\ writer \in Procs \union {Nobody}
      /\ ~proc[p].elsewhere
      /\ writer = p /\ View.schema = 1 => wal = NoLog /\ main \in backups
  BY DEF Stage, DbTypeOK, OwnerInv, Opening, MigrationInv, ElsewhereInv, OldIsBackedUp
<1> HIDE DEF DbInv
<1> QED BY <1>1, <1>2, <1>3, MoveKeeps

LEMMA CheckKeeps ==
  ASSUME DbInv, NEW p \in Procs, Check(p) \/ RestoreFails(p)
  PROVE  DbInv'
<1>1. FilesStay /\ GiveUp(p)
  BY DEF Check, RestoreFails, FilesStay, fileVars, historyVars, DbInv, DbTypeOK
<1> QED BY <1>1, GiveUpKeeps

LEMMA DieKeeps ==
  ASSUME DbInv, NEW p \in Procs, Exit(p) \/ Die(p)
  PROVE  DbInv'
<1>1. FilesStay /\ Leave(p)
  BY DEF Exit, Die, FilesStay, fileVars, historyVars, DbInv, DbTypeOK
<1> QED BY <1>1, LeaveKeeps
-----------------------------------------------------------------------------
\* Steps that change the database.
LEMMA MigrateKeeps ==
  ASSUME DbInv, NEW p \in Procs, Migrate(p)
  PROVE  DbInv'
<1> DEFINE opened == [proc[p] EXCEPT !.pc = proc[p].after, !.version = 0, !.elsewhere = FALSE]
<1>1. CASE GiveUp(p) /\ UNCHANGED <<wal, migrated, torn>>
  <2>1. FilesStay
    BY <1>1 DEF Migrate, FilesStay, DbInv, DbTypeOK
  <2> QED BY <1>1, <2>1, GiveUpKeeps
<1> USE DEF DbInv
<1>2. /\ opened.pc = proc[p].after /\ ~opened.elsewhere
      /\ opened.pc \in {"run", "acquire", "stage", "check"}
      /\ opened \in Processes
  <2>1. proc[p] \in Processes
    BY DEF DbTypeOK
  <2>2. proc[p].after \in {"run", "acquire", "stage", "check"}
    BY <2>1 DEF Processes
  <2>3. proc[p].after \in Places /\ 0 \in 0 .. Newer
    BY <2>2 DEF Places, Newer
  <2> QED BY <2>1, <2>2, <2>3 DEF Processes
<1>3. owner = p \/ proc[p].after = "acquire"
  BY DEF Migrate, OwnerInv, Opening
<1>4. CASE proc[p].elsewhere /\ proc' = [proc EXCEPT ![p] = opened]
           /\ UNCHANGED <<wal, migrated, torn, owner, writer>>
  <2>1. FilesStay
    BY <1>4 DEF Migrate, FilesStay, DbTypeOK
  <2>2. writer # p /\ UNCHANGED <<owner, writer>> /\ writer \in Procs \union {Nobody}
        /\ owner \in Procs \union {Nobody}
    BY <1>4 DEF MigrationInv, ElsewhereInv, DbTypeOK
  <2> HIDE DEF opened, DbInv
  <2> QED BY <1>2, <1>3, <1>4, <2>1, <2>2, MoveKeeps
<1>5. CASE /\ ~proc[p].elsewhere /\ proc[p].version = View.schema
           /\ wal' = IF proc[p].version < Current THEN Database(Current, View.rows) ELSE wal
           /\ migrated' = IF proc[p].version = 1 THEN migrated \union {View.rows} ELSE migrated
           /\ torn' = (torn \/ /\ proc[p].version < Current
                               /\ \E q \in Procs : proc[q].pc \in {"unlink", "replace"})
           /\ proc' = [proc EXCEPT ![p] = opened] /\ writer' = Nobody /\ owner' = owner
  <2>1. /\ proc' \in [Procs -> Processes]
        /\ proc'[p] = opened
        /\ \A q \in Procs \ {p} : proc'[q] = proc[q]
    BY <1>2, <1>5, OneMoves
  <2>2. writer = p /\ proc[p].pc = "migrate"
    BY <1>5 DEF Migrate, MigrationInv, MigratorWrites
  <2>3. /\ UNCHANGED <<main, backups, requests, crashes, truth>>
        /\ View \in Databases /\ NoLog \in Databases
    BY ViewTyped DEF Migrate
  <2>4. /\ wal' \in Databases
        /\ proc[p].version < Current => wal' # NoLog
        /\ View'.rows = View.rows
    BY <1>5, <2>3 DEF Database, Databases, Current, Newer, NoLog, View
  <2>5. \A q \in Procs \ {p} : proc[q].pc \in {"backup", "migrate"} => proc[q].elsewhere
    BY <2>2 DEF MigrationInv, MigratorWrites
  <2>6. \A q \in Procs : Nobody # q
    BY FilesAssumption DEF FilesAssumption, Procs
  <2> HIDE DEF opened
  <2>7. DbTypeOK'
    BY <1>5, <2>1, <2>3, <2>4 DEF DbTypeOK, Databases
  <2>8. OwnerInv'
    BY <1>2, <1>3, <1>5, <2>1 DEF OwnerInv
  <2>9. MigratorWrites' /\ ElsewhereInv'
    BY <1>2, <1>5, <2>1, <2>5, <2>6 DEF MigrationInv, ElsewhereInv, MigratorWrites
  <2>10. BackedUpFirst'
    BY <1>2, <2>1, <2>5 DEF BackedUpFirst
  <2>11. OldIsBackedUp'
    <3>1. wal' # NoLog /\ main.schema = 1 => main \in backups
      BY <1>5, <2>2, <2>3, <2>4 DEF MigrationInv, BackedUpFirst, OldIsBackedUp, View, Databases,
                                   Current
    <3> QED BY <3>1, <1>5, <2>3, <2>6 DEF OldIsBackedUp
  <2>12. LogInv' /\ SourceInv'
    BY <1>2, <1>5, <2>1, <2>3 DEF LogInv, MigrationInv, SourceInv
  <2>13. DatabaseWhole'
    BY <1>5, <2>3, <2>4 DEF DatabaseWhole
  <2>14. MigrationBackedUp'
    <3>1. proc[p].version = 1 => View = Database(1, View.rows) /\ View \in backups
      BY <1>5, <2>2, <2>3 DEF MigrationInv, BackedUpFirst, Database, Databases
    <3> QED BY <3>1, <1>5, <2>3 DEF MigrationBackedUp
  <2> QED BY <2>7, <2>8, <2>9, <2>10, <2>11, <2>12, <2>13, <2>14 DEF MigrationInv
<1> QED BY <1>1, <1>4, <1>5 DEF Migrate

LEMMA CommitWriteKeeps ==
  ASSUME DbInv, NEW p \in Procs, CommitWrite(p)
  PROVE  DbInv'
<1> USE DEF DbInv
<1>1. /\ owner = p /\ writer = p /\ writer' = Nobody
      /\ proc[p].pc \in {"run", "checkpoint", "unlink", "replace"}
      /\ UNCHANGED <<main, backups, owner, proc, requests, crashes, migrated>>
  BY DEF CommitWrite
<1>2. \A q \in Procs : Nobody # q
  BY FilesAssumption DEF FilesAssumption, Procs
<1>3. \A q \in Procs : proc[q].pc \in {"backup", "migrate"} => proc[q].elsewhere
  BY <1>1 DEF MigrationInv, MigratorWrites
<1>4. /\ wal' = [schema |-> View.schema, rows |-> View.rows + 1] /\ truth' = View.rows + 1
      /\ wal' \in Databases /\ wal' # NoLog /\ View.rows \in Nat /\ View' = wal'
  BY ViewTyped DEF CommitWrite, Database, Databases, NoLog, View
<1>5. DbTypeOK'
  BY <1>1, <1>4 DEF CommitWrite, DbTypeOK
<1>6. OwnerInv'
  BY <1>1 DEF OwnerInv
<1>7. MigratorWrites' /\ ElsewhereInv'
  BY <1>1, <1>2, <1>3 DEF MigrationInv, ElsewhereInv, MigratorWrites
<1>8. BackedUpFirst'
  BY <1>1, <1>3 DEF BackedUpFirst
<1>9. OldIsBackedUp' /\ SourceInv'
  BY <1>1, <1>2 DEF MigrationInv, OldIsBackedUp, SourceInv, View
<1>10. LogInv'
  <2>1. \A q \in Procs : proc[q].pc \in {"unlink", "replace"} => owner = q
    BY DEF OwnerInv, Opening
  <2> QED BY <1>1, <2>1 DEF CommitWrite, LogInv
<1>11. DatabaseWhole' /\ MigrationBackedUp'
  BY <1>1, <1>4 DEF DatabaseWhole, MigrationBackedUp
<1> QED BY <1>5, <1>6, <1>7, <1>8, <1>9, <1>10, <1>11 DEF MigrationInv

\* The log is moved into the database file.
LEMMA LogMoved ==
  ASSUME DbInv, main' = View, wal' = NoLog, UNCHANGED <<backups, writer, truth, migrated, torn>>,
         UNCHANGED <<owner, requests, crashes>>, proc' \in [Procs -> Processes],
         \A q \in Procs : \/ proc'[q] = proc[q]
                          \/ /\ proc[q].pc = "checkpoint" /\ proc'[q].pc = "unlink"
                             /\ proc'[q].elsewhere = proc[q].elsewhere
                             /\ proc'[q].source = proc[q].source
                             /\ writer # q
  PROVE  DbInv'
<1> USE DEF DbInv
<1>1. View' = View /\ View \in Databases /\ NoLog \in Databases
  BY ViewTyped DEF View
<1>2. DbTypeOK'
  BY <1>1 DEF DbTypeOK
<1>3. OwnerInv'
  BY DEF OwnerInv, Opening
<1>4. MigratorWrites' /\ ElsewhereInv'
  BY DEF MigrationInv, ElsewhereInv, MigratorWrites
<1>5. BackedUpFirst'
  BY <1>1 DEF MigrationInv, BackedUpFirst
<1>6. OldIsBackedUp'
  <2>1. wal = NoLog => main' = main
    BY DEF View
  <2> QED BY <1>1, <2>1 DEF MigrationInv, OldIsBackedUp
<1>7. LogInv' /\ SourceInv' /\ DatabaseWhole' /\ MigrationBackedUp'
  BY <1>1 DEF LogInv, MigrationInv, SourceInv, DatabaseWhole, MigrationBackedUp
<1> QED BY <1>2, <1>3, <1>4, <1>5, <1>6, <1>7 DEF MigrationInv

LEMMA CheckpointKeeps == DbInv /\ Checkpoint => DbInv'
  BY LogMoved DEF Checkpoint, View, historyVars, DbInv, DbTypeOK

LEMMA EmptyLogKeeps ==
  ASSUME DbInv, NEW p \in Procs, EmptyLog(p)
  PROVE  DbInv'
<1> USE DEF DbInv
<1> DEFINE c == [proc[p] EXCEPT !.pc = "unlink"]
<1>1. /\ proc' = [proc EXCEPT ![p] = c] /\ c \in Processes
      /\ c.pc = "unlink" /\ c.elsewhere = proc[p].elsewhere /\ c.source = proc[p].source
  BY DEF EmptyLog, Goto, DbTypeOK, Processes, Places
<1> HIDE DEF c
<1>2. /\ proc' \in [Procs -> Processes]
      /\ proc'[p] = c
      /\ \A q \in Procs \ {p} : proc'[q] = proc[q]
  BY <1>1, OneMoves
<1>3. CASE writer = Nobody /\ main' = View /\ wal' = NoLog /\ torn' = torn
  <2>1. writer # p
    BY <1>3, FilesAssumption DEF FilesAssumption, Procs
  <2> HIDE DEF DbInv
  <2> QED BY <1>1, <1>2, <1>3, <2>1, LogMoved DEF EmptyLog
<1>4. CASE UNCHANGED <<main, wal>> /\ torn' = (torn \/ wal # NoLog)
  <2>1. View' = View
    BY <1>4 DEF View
  <2>2. /\ UNCHANGED <<backups, owner, writer, requests, crashes, truth, migrated>>
        /\ proc[p].pc = "checkpoint"
    BY DEF EmptyLog
  <2>3. DbTypeOK'
    BY <1>2, <1>4, <2>2 DEF DbTypeOK
  <2>4. OwnerInv'
    BY <1>1, <1>2, <2>2 DEF OwnerInv, Opening
  <2>5. MigratorWrites' /\ ElsewhereInv'
    BY <1>1, <1>2, <2>2 DEF MigrationInv, MigratorWrites, ElsewhereInv
  <2>6. BackedUpFirst' /\ OldIsBackedUp'
    BY <1>1, <1>2, <1>4, <2>1, <2>2 DEF MigrationInv, BackedUpFirst, OldIsBackedUp
  <2>7. LogInv' /\ SourceInv'
    BY <1>1, <1>2, <1>4, <2>2 DEF LogInv, MigrationInv, SourceInv
  <2>8. DatabaseWhole' /\ MigrationBackedUp'
    BY <1>4, <2>1, <2>2 DEF DatabaseWhole, MigrationBackedUp
  <2> QED BY <2>3, <2>4, <2>5, <2>6, <2>7, <2>8 DEF MigrationInv
<1> QED BY <1>3, <1>4 DEF EmptyLog

LEMMA UnlinkKeeps ==
  ASSUME DbInv, NEW p \in Procs, Unlink(p)
  PROVE  DbInv'
<1> USE DEF DbInv
<1> DEFINE c == [proc[p] EXCEPT !.pc = "replace"]
<1>1. /\ proc' = [proc EXCEPT ![p] = c] /\ c \in Processes
      /\ c.pc = "replace" /\ c.elsewhere = proc[p].elsewhere /\ c.source = proc[p].source
  BY DEF Unlink, Goto, DbTypeOK, Processes, Places
<1> HIDE DEF c
<1>2. /\ proc' \in [Procs -> Processes]
      /\ proc'[p] = c
      /\ \A q \in Procs \ {p} : proc'[q] = proc[q]
  BY <1>1, OneMoves
<1>3. /\ wal' = NoLog /\ proc[p].pc = "unlink" /\ View' = main
      /\ UNCHANGED <<main, backups, owner, writer, requests, crashes, truth, migrated, torn>>
  BY DEF Unlink, historyVars, View
<1>4. DbTypeOK'
  BY <1>2, <1>3, ViewTyped DEF DbTypeOK
<1>5. OwnerInv'
  BY <1>1, <1>2, <1>3 DEF OwnerInv, Opening
<1>6. MigratorWrites' /\ ElsewhereInv'
  BY <1>1, <1>2, <1>3 DEF MigrationInv, MigratorWrites, ElsewhereInv
<1>7. wal # NoLog \/ View = main
  BY DEF View
<1>8. BackedUpFirst' /\ OldIsBackedUp'
  BY <1>1, <1>2, <1>3, <1>7 DEF MigrationInv, BackedUpFirst, OldIsBackedUp
<1>9. LogInv' /\ SourceInv'
  BY <1>1, <1>2, <1>3 DEF LogInv, MigrationInv, SourceInv
<1>10. torn \/ wal = NoLog
  BY <1>3 DEF LogInv
<1>11. DatabaseWhole' /\ MigrationBackedUp'
  BY <1>3, <1>7, <1>10 DEF DatabaseWhole, MigrationBackedUp
<1> QED BY <1>4, <1>5, <1>6, <1>8, <1>9, <1>11 DEF MigrationInv

LEMMA ReplaceKeeps ==
  ASSUME DbInv, NEW p \in Procs, Replace(p)
  PROVE  DbInv'
<1> USE DEF DbInv
<1>1. \A q \in Procs : Nobody # q
  BY FilesAssumption DEF FilesAssumption, Procs
<1>2. proc' \in [Procs -> Processes]
  <2>1. NoLog \in Databases /\ "open" \in Places
    BY ViewTyped DEF Places
  <2>2. \A q \in Procs : proc[q] \in Processes
    BY DEF DbTypeOK
  <2>3. [proc[p] EXCEPT !.pc = "open", !.source = NoLog] \in Processes
    BY <2>1, <2>2 DEF Processes
  <2>4. \A r \in Processes : \A b \in BOOLEAN : [r EXCEPT !.elsewhere = b] \in Processes
    BY DEF Processes
  <2> DEFINE Stays(q) == [proc[q] EXCEPT !.elsewhere = proc[q].pc \in {"begin", "backup", "migrate"}]
  <2>5. \A q \in Procs : Stays(q) \in Processes
    <3> TAKE q \in Procs
    <3> DEFINE b == proc[q].pc \in {"begin", "backup", "migrate"}
    <3>1. b \in BOOLEAN
      OBVIOUS
    <3> HIDE DEF b
    <3>2. [proc[q] EXCEPT !.elsewhere = b] \in Processes
      BY <2>2, <2>4, <3>1
    <3> QED BY <3>2 DEF b
  <2>6. proc' = [q \in Procs |->
                   IF q = p THEN [proc[p] EXCEPT !.pc = "open", !.source = NoLog] ELSE Stays(q)]
    BY DEF Replace
  <2> HIDE DEF Stays
  <2> QED BY <2>3, <2>5, <2>6
<1>3. /\ proc'[p].pc = "open" /\ proc'[p].after = proc[p].after
      /\ \A q \in Procs \ {p} : /\ proc'[q].pc = proc[q].pc /\ proc'[q].after = proc[q].after
                                /\ proc'[q].source = proc[q].source
                                /\ proc'[q].elsewhere <=> proc[q].pc \in {"begin", "backup", "migrate"}
      /\ proc'[p].elsewhere = proc[p].elsewhere
  BY DEF Replace, DbTypeOK, Processes
<1>4. /\ main' = proc[p].source /\ truth' = proc[p].source.rows /\ writer' = Nobody
      /\ proc[p].pc = "replace"
      /\ UNCHANGED <<wal, backups, owner, requests, crashes, migrated, torn>>
  BY DEF Replace
<1>5. proc[p].source \in Databases /\ ~proc[p].elsewhere
  BY <1>4 DEF DbTypeOK, Processes, MigrationInv, ElsewhereInv
<1>6. torn \/ wal = NoLog
  BY <1>4 DEF LogInv
<1>7. DbTypeOK'
  BY <1>2, <1>4, <1>5 DEF DbTypeOK, Databases
<1>8. OwnerInv'
  BY <1>3, <1>4 DEF OwnerInv, Opening
<1>9. MigratorWrites' /\ ElsewhereInv' /\ BackedUpFirst'
  BY <1>1, <1>3, <1>4, <1>5 DEF MigratorWrites, ElsewhereInv, BackedUpFirst
<1>10. OldIsBackedUp' /\ SourceInv'
  BY <1>1, <1>3, <1>4 DEF MigrationInv, OldIsBackedUp, SourceInv
<1>11. LogInv'
  BY <1>3, <1>4 DEF LogInv
<1>12. DatabaseWhole' /\ MigrationBackedUp'
  BY <1>4, <1>6 DEF DatabaseWhole, MigrationBackedUp, View
<1> QED BY <1>7, <1>8, <1>9, <1>10, <1>11, <1>12 DEF MigrationInv
-----------------------------------------------------------------------------
LEMMA DbIdle ==
  ASSUME DbInv, UNCHANGED <<fileVars, owner, proc, writer, crashes, historyVars>>, requests' \in Nat
  PROVE  DbInv'
  BY DEF DbInv, fileVars, historyVars, DbTypeOK, OwnerInv, MigrationInv, MigratorWrites,
         ElsewhereInv, BackedUpFirst, OldIsBackedUp, SourceInv, LogInv, DatabaseWhole,
         MigrationBackedUp, View

LEMMA DbStart == DbInit => DbInv
<1> SUFFICES ASSUME DbInit PROVE DbInv
  OBVIOUS
<1> USE FilesAssumption DEF FilesAssumption
<1>1. PICK s \in FirstSchemas, b \in BackupSchemas :
        main = Database(s, 1) /\ backups = {Database(b, 0)}
  BY DEF DbInit
<1>2. /\ wal = NoLog /\ owner = Nobody /\ writer = Nobody /\ requests = 0 /\ crashes = 0
      /\ truth = main.rows /\ migrated = {} /\ torn = FALSE
      /\ proc = [p \in Procs |-> At("new")]
  BY DEF DbInit
<1>3. At("new") \in Processes /\ At("new").pc = "new" /\ ~At("new").elsewhere
  BY AtTyped DEF At, Places
<1>4. main \in Databases /\ wal \in Databases /\ backups \subseteq Databases /\ main.rows = 1
  BY <1>1, <1>2 DEF Database, Databases, NoLog, Current, Newer
<1>5. \A p \in Procs : proc[p].pc = "new" /\ ~proc[p].elsewhere /\ writer # p
  BY <1>2, <1>3 DEF Procs
<1>6. proc \in [Procs -> Processes]
  BY <1>2, <1>3
<1>7. DbTypeOK
  <2>1. truth = 1
    BY <1>2, <1>4
  <2>2. requests \in Nat /\ crashes \in Nat /\ truth \in Nat /\ migrated \subseteq Nat
    BY <1>2, <2>1
  <2>4. torn \in BOOLEAN
    BY <1>2
  <2>3. owner \in Procs \union {Nobody} /\ writer \in Procs \union {Nobody}
    BY <1>2
  <2> QED BY <1>4, <1>6, <2>2, <2>3, <2>4 DEF DbTypeOK
<1>8. OwnerInv /\ MigrationInv /\ LogInv /\ DatabaseWhole /\ MigrationBackedUp
  BY <1>2, <1>5 DEF OwnerInv, MigrationInv, MigratorWrites, ElsewhereInv, BackedUpFirst,
     OldIsBackedUp, SourceInv, LogInv, DatabaseWhole, MigrationBackedUp, View
<1> QED BY <1>7, <1>8 DEF DbInv

LEMMA DbStepKeeps ==
  ASSUME DbInv, NEW p \in Procs, DbStep(p)
  PROVE  DbInv'
  BY LaunchKeeps, ReadVersionKeeps, BeginMigrationKeeps, MigrationBackupKeeps, MigrateKeeps,
     OpenWriteKeeps, CommitWriteKeeps, BackupToKeeps, StageKeeps, EmptyLogKeeps, UnlinkKeeps,
     ReplaceKeeps, CheckKeeps DEF DbStep

\* The program that holds the instance lock keeps it while the database is
\* opened, migrated, written, backed up and restored.
LEMMA DbStepKeepsOwner ==
  ASSUME DbInv, NEW p \in Procs, DbStep(p), NEW a \in Apps
  PROVE  owner' = a <=> owner = a
<1> USE FilesAssumption DEF FilesAssumption, Procs
<1>1. CASE GiveUp(p)
  BY <1>1 DEF GiveUp, Leave
<1>2. CASE Launch(p)
  BY <1>2 DEF Launch
<1>3. CASE owner' = owner
  BY <1>3
<1> QED BY <1>1, <1>2, <1>3 DEF DbStep, ReadVersion, BeginMigration, MigrationBackup, Migrate,
        OpenWrite, CommitWrite, BackupTo, Stage, EmptyLog, Unlink, Replace, Check, RestoreFails
-----------------------------------------------------------------------------
\* The configuration.
LEMMA ConfigStart == LocalInit => ConfigInv
<1> SUFFICES ASSUME LocalInit PROVE ConfigInv
  OBVIOUS
<1> USE ConfigAssumption DEF ConfigAssumption
<1>1. PICK c \in Configs : file = Good(c) /\ ~c.startup
  BY DEF LocalInit, ConfigInit
<1>2. /\ backup = Missing /\ registered = FALSE /\ loaded = [p \in Apps |-> NotLoaded]
      /\ saving = NotSaving /\ damages = 0 /\ acked = c /\ tried = {} /\ estranged = FALSE
      /\ owner = Nobody
  BY <1>1 DEF LocalInit, DbInit, ConfigInit, Good
<1>3. Missing \in Contents /\ Good(c) \in Contents /\ Good(c).is = "good" /\ Good(c).config = c
  BY DEF Missing, Good, Contents, AnyConfig
<1>4. ConfigTypeOK
  BY <1>1, <1>2, <1>3 DEF ConfigTypeOK, NotSaving, AnyConfig
<1>5. FileInv
  BY <1>1, <1>2, <1>3 DEF FileInv, NotSaving, Missing
<1>6. SavingInv /\ StartupInv
  BY <1>2, FilesAssumption DEF FilesAssumption, SavingInv, StartupInv, NotSaving
<1> QED BY <1>4, <1>5, <1>6 DEF ConfigInv

LEMMA ConfigIdle ==
  ASSUME ConfigInv, UNCHANGED configVars, \A a \in Apps : owner' = a <=> owner = a
  PROVE  ConfigInv'
<1> USE DEF ConfigInv, configVars
<1>1. ConfigTypeOK' /\ FileInv'
  BY DEF ConfigTypeOK, FileInv
<1>2. SavingInv' /\ StartupInv'
  BY DEF SavingInv, StartupInv
<1> QED BY <1>1, <1>2

LEMMA LoadedTyped ==
  ASSUME ConfigTypeOK
  PROVE  LoadedNow \in AnyConfig /\ LoadedNow # NotLoaded
  BY ConfigAssumption DEF ConfigAssumption, ConfigTypeOK, LoadedNow, Contents, AnyConfig, Configs,
     Defaults, NotLoaded, Standard

LEMMA LoadKeeps ==
  ASSUME ConfigInv, NEW p \in Procs, Load(p)
  PROVE  ConfigInv'
<1> USE DEF ConfigInv
<1>1. UNCHANGED <<owner, file, backup, registered, saving, damages, acked, tried, estranged>>
  BY DEF Load, dbVars
<1>2. ConfigTypeOK'
  BY <1>1, LoadedTyped DEF Load, ConfigTypeOK
<1>3. FileInv'
  BY <1>1 DEF FileInv
<1>4. owner # p
  BY DEF Load, SavingInv
<1>5. SavingInv' /\ StartupInv'
  BY <1>1, <1>4 DEF Load, ConfigTypeOK, SavingInv, StartupInv
<1> QED BY <1>2, <1>3, <1>5

LEMMA RunKeeps ==
  ASSUME ConfigInv, NEW p \in Procs, Run(p)
  PROVE  ConfigInv'
<1> USE DEF ConfigInv
<1>1. UNCHANGED <<file, backup, registered, loaded, saving, damages, acked, tried>>
  BY DEF Run
<1>2. /\ p \in Apps /\ loaded[p] # NotLoaded
      /\ IF owner = Nobody THEN owner' = p ELSE owner' = owner
      /\ estranged' = (estranged \/ (owner = Nobody /\ loaded[p].startup # registered))
  BY DEF Run, Acquire
<1>3. ConfigTypeOK' /\ FileInv'
  BY <1>1, <1>2 DEF ConfigTypeOK, FileInv
<1>4. owner = Nobody => saving.pc \notin Applied \union {"startup"}
  BY FilesAssumption DEF FilesAssumption, SavingInv, Applied
<1>5. SavingInv'
  BY <1>1, <1>2, <1>4, FilesAssumption DEF FilesAssumption, SavingInv, ConfigTypeOK
<1>6. StartupInv'
  BY <1>1, <1>2, <1>4 DEF StartupInv
<1> QED BY <1>3, <1>5, <1>6

LEMMA BeginSaveKeeps ==
  ASSUME ConfigInv, NEW p \in Procs, BeginSave(p)
  PROVE  ConfigInv'
<1> USE DEF ConfigInv
<1>1. UNCHANGED <<owner, file, backup, registered, loaded, damages, acked, tried, estranged>>
  BY DEF BeginSave
<1>2. PICK c \in Configs :
        saving' = [pc |-> IF c.startup = loaded[p].startup THEN "read" ELSE "startup",
                   by |-> p, config |-> c, current |-> Missing]
  BY DEF BeginSave
<1>3. p \in Apps /\ owner = p /\ saving = NotSaving
  BY DEF BeginSave
<1>4. ConfigTypeOK'
  BY <1>1, <1>2, <1>3 DEF ConfigTypeOK, Applied, Contents, Missing, AnyConfig
<1>5. FileInv' /\ SavingInv'
  BY <1>1, <1>2, <1>3 DEF FileInv, SavingInv, NotSaving
<1>6. StartupInv'
  BY <1>1, <1>2, <1>3 DEF StartupInv, Applied, NotSaving
<1> QED BY <1>4, <1>5, <1>6

LEMMA ToggleStartupKeeps ==
  ASSUME ConfigInv, NEW p \in Procs, ToggleStartup(p)
  PROVE  ConfigInv'
<1> USE DEF ConfigInv
<1>1. /\ UNCHANGED <<owner, file, backup, loaded, saving, damages, acked, tried>>
      /\ estranged' = TRUE /\ registered' \in {~registered, registered, FALSE}
  BY DEF ToggleStartup
<1>2. ConfigTypeOK' /\ FileInv'
  BY <1>1 DEF ConfigTypeOK, FileInv
<1>3. SavingInv' /\ StartupInv'
  BY <1>1 DEF SavingInv, StartupInv
<1> QED BY <1>2, <1>3

LEMMA DamageKeeps ==
  ASSUME ConfigInv, Damage
  PROVE  ConfigInv'
<1> USE DEF ConfigInv
<1>1. /\ UNCHANGED <<owner, backup, registered, loaded, saving, acked, tried, estranged>>
      /\ damages' = damages + 1 /\ file' = Corrupt
  BY DEF Damage, dbVars
<1>2. ConfigTypeOK' /\ FileInv'
  BY <1>1 DEF ConfigTypeOK, FileInv, Corrupt, Contents, AnyConfig
<1>3. SavingInv' /\ StartupInv'
  BY <1>1 DEF SavingInv, StartupInv
<1> QED BY <1>2, <1>3

LEMMA EndKeeps ==
  ASSUME ConfigInv, NEW p \in Procs, End(p)
  PROVE  ConfigInv'
<1> USE DEF ConfigInv
<1>1. /\ UNCHANGED <<file, backup, registered, loaded, damages, acked, tried>>
      /\ owner' = IF owner = p THEN Nobody ELSE owner
      /\ \/ saving = NotSaving /\ UNCHANGED <<saving, estranged>>
         \/ /\ saving' = IF saving.by = p THEN NotSaving ELSE saving
            /\ estranged' = (estranged \/ (saving.by = p /\ registered # Startup))
  BY DEF End, Exit, Die, Leave
<1>2. NotSaving \in [pc : Applied \union {"idle", "startup"}, by : Apps \union {Nobody},
                     config : AnyConfig, current : Contents]
      /\ NotSaving.pc = "idle" /\ NotSaving.by = Nobody
  BY DEF NotSaving, Contents, Missing, AnyConfig
<1>3. ConfigTypeOK' /\ FileInv'
  BY <1>1, <1>2 DEF ConfigTypeOK, FileInv
<1>4. SavingInv'
  BY <1>1, <1>2, FilesAssumption DEF FilesAssumption, SavingInv
<1>5. StartupInv'
  <2>1. \A a \in Apps : owner' = a => owner = a /\ a # p
    BY <1>1, FilesAssumption DEF FilesAssumption
  <2>2. \A a \in Apps : owner' = a => saving' = saving
    BY <1>1, <1>2, <2>1 DEF SavingInv
  <2>3. estranged => estranged'
    BY <1>1
  <2>4. registered' = registered /\ loaded' = loaded
    BY <1>1
  <2> QED BY <2>1, <2>2, <2>3, <2>4 DEF StartupInv
<1> QED BY <1>3, <1>4, <1>5

\* A step of the save under way, with what it leaves to be said.
LEMMA SaveTyped ==
  ASSUME ConfigInv, saving.pc # "idle"
  PROVE  /\ saving.by \in Apps /\ owner = saving.by /\ saving.config \in Configs
         /\ \A a \in Apps : owner = a => a = saving.by
         /\ Startup \in BOOLEAN /\ saving.config.startup \in BOOLEAN
<1>1. saving.by \in Apps /\ owner = saving.by /\ saving.config \in Configs
  BY DEF ConfigInv, SavingInv
<1>2. loaded[saving.by] \in AnyConfig
  BY <1>1 DEF ConfigInv, ConfigTypeOK, SavingInv
<1>3. loaded[saving.by].startup \in BOOLEAN
  <2>1. Defaults.startup = FALSE
    BY DEF Defaults
  <2>2. \A c \in Configs : c.startup \in BOOLEAN
    BY DEF Configs
  <2> QED BY <1>2, <2>1, <2>2 DEF AnyConfig
<1>4. saving.config.startup \in BOOLEAN
  BY <1>1 DEF Configs
<1> QED BY <1>1, <1>3, <1>4 DEF Startup

LEMMA NotSavingTyped ==
  /\ NotSaving \in [pc : Applied \union {"idle", "startup"}, by : Apps \union {Nobody},
                    config : AnyConfig, current : Contents]
  /\ NotSaving.pc = "idle" /\ NotSaving.by = Nobody
  BY DEF NotSaving, Contents, Missing, AnyConfig

LEMMA ReadCurrentKeeps ==
  ASSUME ConfigInv, ReadCurrent
  PROVE  ConfigInv'
<1> USE DEF ConfigInv
<1>1. /\ UNCHANGED <<owner, file, backup, registered, loaded, damages, acked, tried, estranged>>
      /\ saving.pc = "read"
  BY DEF ReadCurrent, dbVars
<1>2. \/ saving' = [saving EXCEPT !.pc = AfterRead(file), !.current = file]
      \/ saving' = [saving EXCEPT !.pc = "undo"] /\ Changed
      \/ saving' = NotSaving /\ ~Changed
  BY DEF ReadCurrent, Refused, Proceed, Done
<1>3. AfterRead(file) \in {"backup", "write"} /\ (AfterRead(file) = "backup" => file.is = "good")
  BY DEF AfterRead
<1>5. ConfigTypeOK'
  BY <1>1, <1>2, <1>3, NotSavingTyped DEF ConfigTypeOK, Applied
<1>6. FileInv'
  BY <1>1, <1>2, <1>3, NotSavingTyped DEF ConfigTypeOK, FileInv
<1>7. SavingInv'
  BY <1>1, <1>2, <1>3, NotSavingTyped DEF ConfigTypeOK, SavingInv
<1>8. StartupInv'
  BY <1>1, <1>2, <1>3, NotSavingTyped, SaveTyped DEF ConfigTypeOK, StartupInv, Applied, Changed, Startup
<1> QED BY <1>5, <1>6, <1>7, <1>8

LEMMA WriteBackupKeeps ==
  ASSUME ConfigInv, WriteBackup
  PROVE  ConfigInv'
<1> USE DEF ConfigInv
<1>1. /\ UNCHANGED <<owner, file, registered, loaded, damages, acked, tried, estranged>>
      /\ saving.pc = "backup" /\ backup' \in {backup, saving.current}
  BY DEF WriteBackup, dbVars
<1>2. \/ saving' = [saving EXCEPT !.pc = "write"]
      \/ saving' = [saving EXCEPT !.pc = "undo"] /\ Changed
      \/ saving' = NotSaving /\ ~Changed
  BY DEF WriteBackup, Refused, Proceed, Done
<1>3. ConfigTypeOK'
  BY <1>1, <1>2, NotSavingTyped DEF ConfigTypeOK, Applied
<1>4. FileInv'
  BY <1>1, <1>2, NotSavingTyped DEF ConfigTypeOK, FileInv
<1>5. SavingInv'
  BY <1>1, <1>2, NotSavingTyped DEF ConfigTypeOK, SavingInv
<1>6. StartupInv'
  BY <1>1, <1>2, NotSavingTyped, SaveTyped DEF ConfigTypeOK, StartupInv, Applied, Changed, Startup
<1> QED BY <1>3, <1>4, <1>5, <1>6

LEMMA WriteFileKeeps ==
  ASSUME ConfigInv, WriteFile
  PROVE  ConfigInv'
<1> USE DEF ConfigInv
<1>1. /\ UNCHANGED <<owner, backup, registered, loaded, damages, acked, estranged>>
      /\ saving.pc = "write" /\ saving.config \in Configs
  BY DEF WriteFile, dbVars, SavingInv
<1>2. \/ file' = Good(saving.config) /\ tried' = tried \union {saving.config}
      \/ UNCHANGED <<file, tried>>
  BY DEF WriteFile
<1>3. \/ saving' = [saving EXCEPT !.pc = "publish"] /\ file' = Good(saving.config)
      \/ saving' = [saving EXCEPT !.pc = "undo"] /\ Changed
      \/ saving' = NotSaving /\ ~Changed
  BY DEF WriteFile, Refused, Proceed, Done
<1>4. Good(saving.config) \in Contents /\ Good(saving.config).is = "good"
      /\ Good(saving.config).config = saving.config
  BY <1>1 DEF Good, Contents, AnyConfig
<1>5. ConfigTypeOK'
  BY <1>1, <1>2, <1>3, <1>4, NotSavingTyped DEF ConfigTypeOK, Applied
<1>6. FileInv'
  BY <1>1, <1>2, <1>3, <1>4, NotSavingTyped DEF ConfigTypeOK, FileInv
<1>7. SavingInv'
  BY <1>1, <1>3, NotSavingTyped DEF ConfigTypeOK, SavingInv
<1>8. StartupInv'
  BY <1>1, <1>3, NotSavingTyped, SaveTyped DEF ConfigTypeOK, StartupInv, Applied, Changed, Startup
<1> QED BY <1>5, <1>6, <1>7, <1>8

LEMMA PublishKeeps ==
  ASSUME ConfigInv, Publish
  PROVE  ConfigInv'
<1> USE DEF ConfigInv
<1>1. /\ UNCHANGED <<owner, file, backup, registered, damages, estranged>>
      /\ saving.pc = "publish" /\ saving' = NotSaving
      /\ loaded' = [loaded EXCEPT ![saving.by] = saving.config]
      /\ acked' = saving.config /\ tried' = {}
  BY DEF Publish, dbVars, Done
<1>2. saving.by \in Apps /\ saving.config \in Configs
      /\ \A a \in Apps : owner = a => a = saving.by
  BY <1>1, SaveTyped
<1>3. saving.config # NotLoaded
  BY <1>2, ConfigAssumption DEF ConfigAssumption, Configs, NotLoaded
<1>4. ConfigTypeOK'
  BY <1>1, <1>2, NotSavingTyped DEF ConfigTypeOK, AnyConfig
<1>5. FileInv'
  BY <1>1, <1>2, NotSavingTyped DEF FileInv
<1>6. SavingInv'
  BY <1>1, <1>2, <1>3, NotSavingTyped DEF ConfigTypeOK, SavingInv
<1>7. StartupInv'
  BY <1>1, <1>2, NotSavingTyped DEF ConfigTypeOK, StartupInv, Applied
<1> QED BY <1>4, <1>5, <1>6, <1>7

LEMMA ApplyStartupKeeps ==
  ASSUME ConfigInv, ApplyStartup
  PROVE  ConfigInv'
<1> USE DEF ConfigInv
<1>1. /\ UNCHANGED <<owner, file, backup, loaded, damages, acked, tried>>
      /\ saving.pc = "startup"
  BY DEF ApplyStartup, dbVars
<1>2. \/ /\ saving' = [saving EXCEPT !.pc = "read"]
         /\ registered' = saving.config.startup /\ estranged' = FALSE
      \/ /\ saving' = NotSaving
         /\ registered' \in {registered, FALSE}
         /\ estranged' = (estranged \/ registered' # Startup)
  BY DEF ApplyStartup, SetStartup, Proceed, Done
<1>3. ConfigTypeOK'
  BY <1>1, <1>2, SaveTyped, NotSavingTyped DEF ConfigTypeOK, Applied
<1>4. FileInv'
  BY <1>1, <1>2, NotSavingTyped DEF ConfigTypeOK, FileInv
<1>5. SavingInv'
  BY <1>1, <1>2, NotSavingTyped DEF ConfigTypeOK, SavingInv
<1>6. StartupInv'
  BY <1>1, <1>2, SaveTyped, NotSavingTyped DEF ConfigTypeOK, StartupInv, Applied, Startup
<1> QED BY <1>3, <1>4, <1>5, <1>6

LEMMA UndoKeeps ==
  ASSUME ConfigInv, Undo
  PROVE  ConfigInv'
<1> USE DEF ConfigInv
<1>1. /\ UNCHANGED <<owner, file, backup, loaded, damages, acked, tried>>
      /\ saving.pc = "undo" /\ saving' = NotSaving
  BY DEF Undo, dbVars, Done
<1>2. \/ registered' = Startup /\ estranged' = FALSE
      \/ /\ registered' \in {registered, FALSE}
         /\ estranged' = (estranged \/ registered' # Startup)
  BY DEF Undo, SetStartup
<1>3. ConfigTypeOK'
  BY <1>1, <1>2, SaveTyped, NotSavingTyped DEF ConfigTypeOK
<1>4. FileInv' /\ SavingInv'
  BY <1>1, NotSavingTyped DEF FileInv, SavingInv
<1>5. StartupInv'
  BY <1>1, <1>2, SaveTyped, NotSavingTyped DEF StartupInv, Applied, Startup
<1> QED BY <1>3, <1>4, <1>5
-----------------------------------------------------------------------------
LocalInv == DbInv /\ ConfigInv

LEMMA LocalStepKeeps == LocalInv /\ [LocalNext]_localVars => LocalInv'
<1> SUFFICES ASSUME LocalInv, [LocalNext]_localVars PROVE LocalInv'
  OBVIOUS
<1> USE DEF LocalInv
<1>1. CASE Checkpoint /\ UNCHANGED configVars
  BY <1>1, CheckpointKeeps, ConfigIdle DEF Checkpoint
<1>2. CASE (\E p \in Procs : DbStep(p)) /\ UNCHANGED configVars
  BY <1>2, DbStepKeeps, DbStepKeepsOwner, ConfigIdle
<1>3. ASSUME NEW p \in Procs, Load(p) PROVE LocalInv'
  <2>1. UNCHANGED dbVars
    BY <1>3 DEF Load
  <2> QED BY <1>3, <2>1, LoadKeeps, DbIdle DEF dbVars, DbInv, DbTypeOK
<1>4. ASSUME NEW p \in Procs, Run(p) PROVE LocalInv'
  BY <1>4, RunKeeps, AcquireKeeps DEF Run
<1>5. ASSUME NEW p \in Procs, BeginSave(p) PROVE LocalInv'
  BY <1>5, BeginSaveKeeps, DbIdle DEF BeginSave, DbInv, DbTypeOK
<1>6. ASSUME NEW p \in Procs, ToggleStartup(p) PROVE LocalInv'
  <2>1. requests' \in Nat
    BY <1>6 DEF ToggleStartup, DbInv, DbTypeOK
  <2>2. UNCHANGED <<fileVars, owner, proc, writer, crashes, historyVars>>
    BY <1>6 DEF ToggleStartup
  <2> QED BY <1>6, <2>1, <2>2, ToggleStartupKeeps, DbIdle
<1>7. ASSUME NEW p \in Procs, End(p) PROVE LocalInv'
  BY <1>7, EndKeeps, DieKeeps DEF End
<1>8. CASE Save \/ Damage
  <2>1. UNCHANGED dbVars
    BY <1>8 DEF Save, ApplyStartup, ReadCurrent, WriteBackup, WriteFile, Publish, Undo, Damage
  <2>2. DbInv'
    BY <2>1, DbIdle DEF dbVars, DbInv, DbTypeOK
  <2> QED BY <1>8, <2>2, ApplyStartupKeeps, ReadCurrentKeeps, WriteBackupKeeps, WriteFileKeeps,
             PublishKeeps, UndoKeeps, DamageKeeps DEF Save
<1>9. CASE UNCHANGED localVars
  BY <1>9, DbIdle, ConfigIdle DEF localVars, dbVars, DbInv, DbTypeOK
<1> QED BY <1>1, <1>2, <1>3, <1>4, <1>5, <1>6, <1>7, <1>8, <1>9 DEF LocalNext

\* The inductive invariant of the database files and the configuration, with
\* the types of both, in every reachable state.
THEOREM LocalInvariant == LocalSpec => []LocalInv
<1>1. LocalInit => LocalInv
  BY DbStart, ConfigStart DEF LocalInit, LocalInv
<1> QED BY <1>1, LocalStepKeeps, PTL DEF LocalSpec

\* Wherever a restore, a migration or a program fails or dies, the database
\* holds every change committed to it or else is the restored one, unless
\* torn.
THEOREM DatabaseStaysWhole == LocalSpec => []DatabaseWhole
<1>1. LocalInv => DatabaseWhole
  BY DEF LocalInv, DbInv
<1> QED BY <1>1, LocalInvariant, PTL

\* Of every database of version 1 that was migrated there is a backup with
\* the same changes.
THEOREM MigrationsAreBackedUp == LocalSpec => []MigrationBackedUp
<1>1. LocalInv => MigrationBackedUp
  BY DEF LocalInv, DbInv
<1> QED BY <1>1, LocalInvariant, PTL

\* The next start loads the last saved configuration or one whose save failed
\* late; and if the file is damaged, not the defaults, once there is a backup.
THEOREM SavedConfigIsLoaded == LocalSpec => []SavedConfigSurvives
<1>1. ASSUME LocalInv PROVE SavedConfigSurvives
  <2>1. backup.is = "good" => backup.config # Defaults
    BY <1>1, ConfigAssumption DEF ConfigAssumption, LocalInv, ConfigInv, FileInv, Configs,
       Defaults, Standard
  <2> QED BY <1>1, <2>1 DEF LocalInv, ConfigInv, FileInv, SavedConfigSurvives, LoadedNow
<1> QED BY <1>1, LocalInvariant, PTL

\* The startup entry agrees with the running program's configuration, also
\* after a save that failed and was undone, unless estranged.
THEOREM StartupEntryAgrees == LocalSpec => []StartupAgrees
<1>1. LocalInv => StartupAgrees
  BY NotSavingTyped DEF LocalInv, ConfigInv, StartupInv, StartupAgrees, Applied
<1> QED BY <1>1, LocalInvariant, PTL
=============================================================================
