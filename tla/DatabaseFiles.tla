--------------------------- MODULE DatabaseFiles ---------------------------
(***************************************************************************)
(* The history database as files (database.py, operations_cli.py):         *)
(* opening with migration, backup, and restore by the command line or by   *)
(* an HTTP thread, while programs start, die and write.  A database is its *)
(* schema and the number of changes it holds; what was committed is first  *)
(* in the write-ahead log and reaches the database file by a checkpoint.   *)
(***************************************************************************)
EXTENDS Naturals

CONSTANTS
  Apps,         \* starts of the program, each of which may run once
  Restores,     \* restore commands
  FirstSchemas, BackupSchemas,    \* versions of the first database and backup
  MaxCommits,   \* bound: changes a database holds
  MaxRequests,  \* bound: backups and restores asked for
  MaxCrashes    \* bound: processes that die

Current == 2          \* SCHEMA_VERSION
Newer   == 3          \* of a later version of the program
Nobody  == "nobody"

ASSUME FilesAssumption ==
  /\ Nobody \notin Apps \union Restores /\ Apps \cap Restores = {}
  /\ FirstSchemas \subseteq 1 .. Current /\ BackupSchemas \subseteq 1 .. Newer
  /\ MaxCommits \in Nat /\ MaxRequests \in Nat /\ MaxCrashes \in Nat

Procs == Apps \union Restores

Database(s, n) == [schema |-> s, rows |-> n]
NoLog == Database(0, 0)

VARIABLES
  main,      \* the database file
  wal,       \* its write-ahead log
  backups,   \* backup files
  owner,     \* who holds the instance lock
  proc,      \* each process: where it is (pc), where it goes on once the
             \* database is open (after), the schema version it has read
             \* (version) and the verified copy it restores (source)
  writer,    \* who is in a write transaction, holding SQLite's lock
  requests, crashes,   \* bounds
  truth,     \* history variable: the changes the database should hold
  migrated,  \* history variable: changes held by a database of version 1
             \* when it was migrated
  torn       \* history variable: a log that could not be emptied was removed,
             \* or a change was committed in the middle of a replacement

fileVars == <<main, wal, backups>>
historyVars == <<truth, migrated, torn>>
dbVars == <<fileVars, owner, proc, writer, requests, crashes, historyVars>>

\* What a connection sees.
View == IF wal = NoLog THEN main ELSE wal

At(pc) == [pc |-> pc, after |-> "run", version |-> 0, source |-> NoLog, elsewhere |-> FALSE]

\* The database of this or an earlier version of the program, and a backup.
DbInit ==
  /\ main \in {Database(s, 1) : s \in FirstSchemas}
  /\ wal = NoLog
  /\ backups \in {{Database(s, 0)} : s \in BackupSchemas}
  /\ owner = Nobody
  /\ proc = [p \in Procs |-> At("new")]
  /\ writer = Nobody /\ requests = 0 /\ crashes = 0
  /\ truth = main.rows /\ migrated = {} /\ torn = FALSE

Goto(p, pc) == proc' = [proc EXCEPT ![p].pc = pc]

\* A process that ends, by itself or not, gives up both locks.
Leave(p) ==
  /\ proc' = [proc EXCEPT ![p] = At("gone")]
  /\ owner' = IF owner = p THEN Nobody ELSE owner
  /\ writer' = IF writer = p THEN Nobody ELSE writer

\* restore_managed_backup answers, with success or an error; the others end.
GiveUp(p) ==
  IF p \in Apps /\ owner = p
  THEN /\ proc' = [proc EXCEPT ![p] = At("run")]
       /\ writer' = IF writer = p /\ proc[p].pc \in {"backup", "migrate"} THEN Nobody ELSE writer
       /\ UNCHANGED owner
  ELSE Leave(p)

-----------------------------------------------------------------------------
(* Opening and migrating                                                   *)

\* A start takes the instance lock after it has opened the database, a
\* restore before.
Launch(p) ==
  /\ proc[p].pc = "new"
  /\ \/ /\ p \in Apps
        /\ proc' = [proc EXCEPT ![p] = [At("open") EXCEPT !.after = "acquire"]]
        /\ UNCHANGED owner
     \/ /\ p \in Restores /\ owner = Nobody
        /\ owner' = p
        /\ proc' = [proc EXCEPT ![p] = [At("open") EXCEPT !.after = "stage"]]
     \/ /\ p \in Restores /\ owner # Nobody
        /\ Goto(p, "gone")
        /\ UNCHANGED owner
  /\ UNCHANGED <<fileVars, writer, requests, crashes, historyVars>>

\* The version is read outside the transaction that migrates.
ReadVersion(p) ==
  /\ proc[p].pc = "open"
  /\ IF View.schema > Current
     THEN GiveUp(p)
     ELSE /\ proc' = [proc EXCEPT ![p].pc = "begin", ![p].version = View.schema]
          /\ UNCHANGED <<owner, writer>>
  /\ UNCHANGED <<fileVars, requests, crashes, historyVars>>

\* Mutant: a database that is up to date is backed up instead.
NeedsBackup_Current(p) == proc[p].version = Current

NeedsBackup(p) == proc[p].version = 1

\* BEGIN IMMEDIATE waits for another writer, and in the end fails.
BeginMigration(p) ==
  /\ proc[p].pc = "begin"
  /\ \/ /\ writer = Nobody \/ proc[p].elsewhere
        /\ writer' = IF proc[p].elsewhere THEN writer ELSE p
        /\ Goto(p, IF NeedsBackup(p) THEN "backup" ELSE "migrate")
        /\ UNCHANGED owner
     \/ writer # Nobody /\ GiveUp(p)
  /\ UNCHANGED <<fileVars, requests, crashes, historyVars>>

\* The backup reads the database by a connection of its own; without its
\* metadata, or without a backup at all, nothing is migrated.
MigrationBackup(p) ==
  /\ proc[p].pc = "backup"
  /\ \/ backups' = backups \union {View} /\ Goto(p, "migrate") /\ UNCHANGED <<owner, writer>>
     \/ backups' \in {backups, backups \union {View}} /\ GiveUp(p)
  /\ UNCHANGED <<main, wal, requests, crashes, historyVars>>

\* All versions in one transaction.  Once another process has migrated, the
\* statements fail; if the file was replaced, they change the one that is gone.
Migrate(p) ==
  LET opened == [proc EXCEPT ![p].pc = proc[p].after, ![p].version = 0, ![p].elsewhere = FALSE]
      old    == proc[p].version < Current
  IN /\ proc[p].pc = "migrate"
     /\ \/ /\ ~proc[p].elsewhere /\ proc[p].version = View.schema
           /\ wal' = IF old THEN Database(Current, View.rows) ELSE wal
           /\ migrated' = IF proc[p].version = 1 THEN migrated \union {View.rows} ELSE migrated
           /\ torn' = (torn \/ (old /\ \E q \in Procs : proc[q].pc \in {"unlink", "replace"}))
           /\ proc' = opened /\ writer' = Nobody
           /\ UNCHANGED owner
        \/ /\ proc[p].elsewhere /\ proc' = opened
           /\ UNCHANGED <<wal, migrated, torn, owner, writer>>
        \/ GiveUp(p) /\ UNCHANGED <<wal, migrated, torn>>
     /\ UNCHANGED <<main, backups, requests, crashes, truth>>

\* A second start asks the running program to show itself, and ends.
Acquire(p) ==
  /\ proc[p].pc = "acquire"
  /\ IF owner = Nobody THEN owner' = p /\ proc' = [proc EXCEPT ![p] = At("run")]
                       ELSE UNCHANGED owner /\ proc' = [proc EXCEPT ![p] = At("gone")]
  /\ UNCHANGED <<fileVars, writer, requests, crashes, historyVars>>

-----------------------------------------------------------------------------
(* Writing and backing up                                                  *)

\* The collector does not take the data lock: it writes during restores too.
OpenWrite(p) ==
  /\ p \in Apps /\ owner = p /\ writer = Nobody
  /\ View.schema >= Current /\ View.rows < MaxCommits
  /\ proc[p].pc \in {"run", "checkpoint", "unlink", "replace"}
  /\ writer' = p
  /\ UNCHANGED <<fileVars, owner, proc, requests, crashes, historyVars>>

CommitWrite(p) ==
  /\ owner = p /\ writer = p
  /\ proc[p].pc \in {"run", "checkpoint", "unlink", "replace"}
  /\ wal' = Database(View.schema, View.rows + 1)
  /\ truth' = View.rows + 1
  /\ torn' = (torn \/ proc[p].pc \in {"unlink", "replace"})
  /\ writer' = Nobody
  /\ UNCHANGED <<main, backups, owner, proc, requests, crashes, migrated>>

\* SQLite empties the log when the last connection closes, or earlier.
Checkpoint ==
  /\ wal # NoLog
  /\ main' = wal /\ wal' = NoLog
  /\ UNCHANGED <<backups, owner, proc, writer, requests, crashes, historyVars>>

\* backup_to: a snapshot, published by a rename.
BackupTo(p) ==
  /\ p \in Apps /\ proc[p].pc = "run" /\ requests < MaxRequests
  /\ requests' = requests + 1
  /\ backups' = backups \union {View}
  /\ UNCHANGED <<main, wal, owner, proc, writer, crashes, historyVars>>

-----------------------------------------------------------------------------
(* Restoring                                                               *)

\* restore_from_backup copies and verifies; a bad source changes nothing.
Stage(p) ==
  /\ proc[p].pc = (IF p \in Apps THEN "run" ELSE "stage")
  /\ requests < MaxRequests
  /\ requests' = requests + 1
  /\ \E b \in backups :
       proc' = [proc EXCEPT ![p].pc = "checkpoint", ![p].after = "check", ![p].source = b]
  /\ UNCHANGED <<fileVars, owner, writer, crashes, historyVars>>

\* Mutant: the log is not emptied before it is removed.
EmptyLog_Skipped(p) ==
  /\ proc[p].pc = "checkpoint"
  /\ Goto(p, "unlink")
  /\ UNCHANGED <<fileVars, owner, writer, requests, crashes, historyVars>>

\* A checkpoint that fails, or finds the log in use, is ignored.
EmptyLog(p) ==
  /\ proc[p].pc = "checkpoint"
  /\ \/ writer = Nobody /\ main' = View /\ wal' = NoLog /\ UNCHANGED torn
     \/ UNCHANGED <<main, wal>> /\ torn' = (torn \/ wal # NoLog)
  /\ Goto(p, "unlink")
  /\ UNCHANGED <<backups, owner, writer, requests, crashes, truth, migrated>>

Unlink(p) ==
  /\ proc[p].pc = "unlink"
  /\ wal' = NoLog
  /\ Goto(p, "replace")
  /\ UNCHANGED <<main, backups, owner, writer, requests, crashes, historyVars>>

\* os.replace; whoever has the file open stays with the file that is gone.
Replace(p) ==
  /\ proc[p].pc = "replace"
  /\ main' = proc[p].source
  /\ truth' = proc[p].source.rows
  /\ writer' = Nobody
  /\ proc' = [q \in Procs |->
       IF q = p THEN [proc[p] EXCEPT !.pc = "open", !.source = NoLog]
       ELSE [proc[q] EXCEPT !.elsewhere = proc[q].pc \in {"begin", "backup", "migrate"}]]
  /\ UNCHANGED <<wal, backups, owner, requests, crashes, migrated, torn>>

\* The full integrity check ends the restore.
Check(p) ==
  /\ proc[p].pc = "check"
  /\ GiveUp(p)
  /\ UNCHANGED <<fileVars, requests, crashes, historyVars>>

\* A step before the replacement fails: the copy is removed.
RestoreFails(p) ==
  /\ proc[p].pc \in {"stage", "checkpoint", "unlink", "replace"}
  /\ GiveUp(p)
  /\ UNCHANGED <<fileVars, requests, crashes, historyVars>>

-----------------------------------------------------------------------------
Exit(p) ==
  /\ p \in Apps /\ proc[p].pc = "run" /\ writer # p
  /\ Leave(p)
  /\ UNCHANGED <<fileVars, requests, crashes, historyVars>>

\* A process dies; its lock is recovered by whoever comes next.
Die(p) ==
  /\ proc[p].pc \notin {"new", "gone"} /\ crashes < MaxCrashes
  /\ crashes' = crashes + 1
  /\ Leave(p)
  /\ UNCHANGED <<fileVars, requests, historyVars>>

DbStep(p) ==
  \/ Launch(p) \/ ReadVersion(p) \/ BeginMigration(p) \/ MigrationBackup(p) \/ Migrate(p)
  \/ OpenWrite(p) \/ CommitWrite(p) \/ BackupTo(p)
  \/ Stage(p) \/ EmptyLog(p) \/ Unlink(p) \/ Replace(p) \/ Check(p) \/ RestoreFails(p)

DbNext == Checkpoint \/ \E p \in Procs : DbStep(p) \/ Acquire(p) \/ Exit(p) \/ Die(p)

DbSpec == DbInit /\ [][DbNext]_dbVars

-----------------------------------------------------------------------------
(* Properties                                                              *)

Databases == [schema : 0 .. Newer, rows : Nat]
Places == {"new", "open", "begin", "backup", "migrate", "acquire", "run", "stage",
           "checkpoint", "unlink", "replace", "check", "gone"}
Processes == [pc : Places, after : {"run", "acquire", "stage", "check"},
              version : 0 .. Newer, source : Databases, elsewhere : BOOLEAN]

\* Files and processes hold what they may.
DbTypeOK ==
  /\ main \in Databases /\ wal \in Databases /\ backups \subseteq Databases
  /\ owner \in Procs \union {Nobody} /\ writer \in Procs \union {Nobody}
  /\ proc \in [Procs -> Processes]
  /\ requests \in Nat /\ crashes \in Nat
  /\ truth \in Nat /\ migrated \subseteq Nat /\ torn \in BOOLEAN

\* "atomic replacement" (docs/en/operations.md): wherever a restore or a
\* migration fails or dies, the database holds every change committed to it,
\* or else is the restored one; unless the log could not be emptied or was
\* written to in the middle of a restore.
DatabaseWhole == torn \/ View.rows = truth

\* "Before a migration writes, the service creates a consistent SQLite
\* backup" (database-v1.md): of every database of version 1 that was
\* migrated there is a copy with the same changes, whoever raced or died.
MigrationBackedUp == \A n \in migrated : Database(1, n) \in backups
=============================================================================
