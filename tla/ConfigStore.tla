---------------------------- MODULE ConfigStore ----------------------------
(***************************************************************************)
(* The configuration file (config_service.py, replace_config in            *)
(* runtime.py) and the startup entry of the operating system (startup.py), *)
(* composed with DatabaseFiles: the same programs start, die, save a       *)
(* configuration and restore a database.                                   *)
(***************************************************************************)
EXTENDS DatabaseFiles

CONSTANTS
  Values,       \* what settings other than startup.enabled may be
  MaxDamages    \* bound: how often the file is damaged from outside

Standard == "standard"

ASSUME ConfigAssumption == {Standard, "none"} \cap Values = {} /\ MaxDamages \in Nat

\* A saved configuration differs from the defaults in something.
Configs  == [startup : BOOLEAN, value : Values]
Defaults == [startup |-> FALSE, value |-> Standard]

\* The contents of a file; the configuration in it counts if it is good.
Missing == [is |-> "missing", config |-> Defaults]
Corrupt == [is |-> "corrupt", config |-> Defaults]
Good(c) == [is |-> "good", config |-> c]

VARIABLES
  file, backup,    \* config.json and its backup
  registered,      \* the startup entry exists
  loaded,          \* _config_result of each program
  saving,          \* the call of replace_config that holds _lock
  damages,         \* bound
  acked,           \* history variable: the last configuration saved with success
  tried,           \* history variable: those of saves since then that failed
                   \* after the replacement of the file
  estranged        \* history variable: a startup command failed halfway, the
                   \* tray toggled the entry, or a program runs on a
                   \* configuration other than the last saved one

configVars == <<file, backup, registered, loaded, saving, damages, acked, tried, estranged>>
localVars == <<dbVars, configVars>>

NotLoaded == [startup |-> FALSE, value |-> "none"]
NotSaving == [pc |-> "idle", by |-> Nobody, config |-> Defaults, current |-> Missing]

ConfigInit ==
  /\ file \in {Good(c) : c \in {d \in Configs : ~d.startup}}
  /\ backup = Missing
  /\ registered = FALSE
  /\ loaded = [p \in Apps |-> NotLoaded]
  /\ saving = NotSaving
  /\ damages = 0
  /\ acked = file.config /\ tried = {}
  /\ estranged = FALSE

\* What load returns: a damaged file is passed over for the backup, a
\* missing one is not.
LoadedNow ==
  IF file.is = "corrupt" /\ backup.is = "good" THEN backup.config ELSE file.config

\* Read at the start, before the instance lock is taken.
Load(p) ==
  /\ p \in Apps /\ proc[p].pc = "acquire" /\ loaded[p] = NotLoaded
  /\ loaded' = [loaded EXCEPT ![p] = LoadedNow]
  /\ UNCHANGED <<dbVars, file, backup, registered, saving, damages, acked, tried, estranged>>

\* The lock is taken; what was read may be old by now.
Run(p) ==
  /\ p \in Apps /\ loaded[p] # NotLoaded
  /\ Acquire(p)
  /\ estranged' = (estranged \/ (owner = Nobody /\ loaded[p].startup # registered))
  /\ UNCHANGED <<file, backup, registered, loaded, saving, damages, acked, tried>>

-----------------------------------------------------------------------------
(* replace_config: the startup entry, the backup, the file, the live value *)

Startup == loaded[saving.by].startup
Changed == saving.config.startup # Startup

Proceed(pc) == saving' = [saving EXCEPT !.pc = pc]
Done == saving' = NotSaving

\* A save that fails takes the startup entry back.
Refused == IF Changed THEN Proceed("undo") ELSE Done

BeginSave(p) ==
  /\ p \in Apps /\ owner = p /\ saving = NotSaving /\ requests < MaxRequests
  /\ requests' = requests + 1
  /\ \E c \in Configs :
       saving' = [pc |-> IF c.startup = loaded[p].startup THEN "read" ELSE "startup",
                  by |-> p, config |-> c, current |-> Missing]
  /\ UNCHANGED <<fileVars, owner, proc, writer, crashes, historyVars>>
  /\ UNCHANGED <<file, backup, registered, loaded, damages, acked, tried, estranged>>

\* enable and disable: when a command fails, the entry may be gone all the same.
SetStartup(on, failed) ==
  \/ ~failed /\ registered' = on /\ estranged' = FALSE
  \/ failed /\ registered' \in {registered, FALSE}
     /\ estranged' = (estranged \/ registered' # Startup)

ApplyStartup ==
  /\ saving.pc = "startup"
  /\ \/ SetStartup(saving.config.startup, FALSE) /\ Proceed("read")
     \/ SetStartup(saving.config.startup, TRUE) /\ Done
  /\ UNCHANGED <<dbVars, file, backup, loaded, damages, acked, tried>>

\* Mutant: the current file is not parsed before it becomes the backup.
AfterRead_Unparsed(current) == IF current.is = "missing" THEN "write" ELSE "backup"

\* Only a good file becomes the backup; a corrupt one is copied aside.
AfterRead(current) == IF current.is = "good" THEN "backup" ELSE "write"

ReadCurrent ==
  /\ saving.pc = "read"
  /\ \/ saving' = [saving EXCEPT !.pc = AfterRead(file), !.current = file]
     \/ Refused
  /\ UNCHANGED <<dbVars, file, backup, registered, loaded, damages, acked, tried, estranged>>

WriteBackup ==
  /\ saving.pc = "backup"
  /\ \/ backup' = saving.current /\ Proceed("write")
     \/ backup' \in {backup, saving.current} /\ Refused
  /\ UNCHANGED <<dbVars, file, registered, loaded, damages, acked, tried, estranged>>

\* _atomic_write reports an error of the steps after os.replace too, when the
\* new file is in place already.
WriteFile ==
  /\ saving.pc = "write"
  /\ \/ /\ file' = Good(saving.config)
        /\ tried' = tried \union {saving.config}
        /\ Proceed("publish") \/ Refused
     \/ UNCHANGED <<file, tried>> /\ Refused
  /\ UNCHANGED <<dbVars, backup, registered, loaded, damages, acked, estranged>>

Publish ==
  /\ saving.pc = "publish"
  /\ loaded' = [loaded EXCEPT ![saving.by] = saving.config]
  /\ acked' = saving.config /\ tried' = {}
  /\ Done
  /\ UNCHANGED <<dbVars, file, backup, registered, damages, estranged>>

\* Mutant: the startup entry stays when the save has failed.
Undo_Nothing ==
  /\ saving.pc = "undo"
  /\ Done
  /\ UNCHANGED <<dbVars, file, backup, registered, loaded, damages, acked, tried, estranged>>

\* _rollback_startup passes over its own failure.
Undo ==
  /\ saving.pc = "undo"
  /\ SetStartup(Startup, FALSE) \/ SetStartup(Startup, TRUE)
  /\ Done
  /\ UNCHANGED <<dbVars, file, backup, loaded, damages, acked, tried>>

Save == ApplyStartup \/ ReadCurrent \/ WriteBackup \/ WriteFile \/ Publish \/ Undo

-----------------------------------------------------------------------------
\* toggle_startup of the tray changes the entry and not the configuration.
ToggleStartup(p) ==
  /\ p \in Apps /\ owner = p /\ requests < MaxRequests
  /\ requests' = requests + 1
  /\ registered' \in {~registered, registered, FALSE}
  /\ estranged' = TRUE
  /\ UNCHANGED <<fileVars, owner, proc, writer, crashes, historyVars>>
  /\ UNCHANGED <<file, backup, loaded, saving, damages, acked, tried>>

\* The user or the disk damages the file.
Damage ==
  /\ damages < MaxDamages /\ file.is = "good"
  /\ damages' = damages + 1
  /\ file' = Corrupt
  /\ UNCHANGED <<dbVars, backup, registered, loaded, saving, acked, tried, estranged>>

\* A program ends when no save is under way, or dies in the middle of one.
End(p) ==
  /\ \/ Exit(p) /\ saving = NotSaving /\ UNCHANGED <<saving, estranged>>
     \/ /\ Die(p)
        /\ saving' = IF saving.by = p THEN NotSaving ELSE saving
        /\ estranged' = (estranged \/ (saving.by = p /\ registered # Startup))
  /\ UNCHANGED <<file, backup, registered, loaded, damages, acked, tried>>

LocalInit == DbInit /\ ConfigInit

LocalNext ==
  \/ (Checkpoint \/ \E p \in Procs : DbStep(p)) /\ UNCHANGED configVars
  \/ \E p \in Procs : Load(p) \/ Run(p) \/ BeginSave(p) \/ ToggleStartup(p) \/ End(p)
  \/ Save \/ Damage

LocalSpec == LocalInit /\ [][LocalNext]_localVars

-----------------------------------------------------------------------------
(* Properties                                                              *)

\* "the last valid config is stored as one backup" (config-v1.md): whatever
\* fails or dies, the next start loads the last saved configuration or one
\* whose save failed late; and if the file is damaged, not the defaults, once
\* there is a backup.
SavedConfigSurvives ==
  /\ file.is = "good" \/ damages = 0 => LoadedNow \in {acked} \union tried
  /\ file.is = "corrupt" /\ backup.is # "missing" => LoadedNow # Defaults

\* "Live or safe rollback" (config-reference.md): the startup entry exists if
\* and only if the running program's configuration says so, also after a save
\* that failed, unless a startup command failed halfway, the tray changed it,
\* or the program runs on an older configuration.
StartupAgrees ==
  \A p \in Apps :
    owner = p /\ saving = NotSaving => estranged \/ registered = loaded[p].startup
=============================================================================
