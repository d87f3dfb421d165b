\* Two starts of the program and a restore command, one of which dies.
\* The model stops at its bounds, hence no deadlock check.
SPECIFICATION LocalSpec
CONSTANTS
  a1 = a1
  a2 = a2
  cli = cli
  Apps = {a1, a2}
  Restores = {cli}
  Values = {"changed"}
  FirstSchemas = {1}
  BackupSchemas = {3}
  MaxDamages = 1
  MaxCommits = 2
  MaxRequests = 2
  MaxCrashes = 1
SYMMETRY Starts
INVARIANTS
  DatabaseWhole
  MigrationBackedUp
  SavedConfigSurvives
  StartupAgrees
CHECK_DEADLOCK FALSE
