\* Two processes recover the lock of a third that died.
SPECIFICATION Spec
CONSTANTS
  app1 = app1
  app2 = app2
  cli = cli
  Apps = {app1, app2}
  Restores = {cli}
  OpensOnStart = TRUE
  MaxCrashes = 1
PROPERTIES RecoveredOnlyWhenGone
\* Every process ends.
CHECK_DEADLOCK FALSE
