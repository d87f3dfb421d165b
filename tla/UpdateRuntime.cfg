\* Two handlers, two updates, crashes, expiry and failing disks.
\* The model stops at its bounds, hence no deadlock check.
SPECIFICATION FairSpec
CONSTANTS
  h1 = h1
  h2 = h2
  Handlers = {h1, h2}
  MaxVersion = 3
  Expiring = {2}
  MaxPrepares = 2
INVARIANTS OldVersionKept CachedMatchesJournal TerminalIsTrue
PROPERTIES InstallsAsConsented OperationEnds
CHECK_DEADLOCK FALSE
