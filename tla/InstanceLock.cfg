\* Two starts of the program and one restore, of which two may die.
SPECIFICATION FairSpec
CONSTANTS
  app1 = app1
  app2 = app2
  cli = cli
  Apps = {app1, app2}
  Restores = {cli}
  OpensOnStart = TRUE
  MaxCrashes = 2
INVARIANTS OneOwner OwnersFileStays
PROPERTIES ActivationServed
\* Every process ends.
CHECK_DEADLOCK FALSE
