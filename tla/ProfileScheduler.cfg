\* Two profiles with valid credentials; a success waits twice as long as a failure;
\* one edit, two clicks, one fault; the tray exits.
SPECIFICATION FairSpec
CONSTANTS
  Profiles <- Both
  FirstEnabled <- Both
  FirstSecrets <- OnlyValid
  Interval = 2
  BackoffBase = 1
  BackoffMax = 1
  Exits = {"tray"}
  MaxEdits = 1
  MaxClicks = 2
  MaxFaults = 1
INVARIANTS
  OneCollection
  BlockedStaysStopped
  DeadlineUnlessPaused
  PausedIsQuiet
  ExitQuiesces
PROPERTIES
  EveryoneServed
  MenuReturns
\* The program may be shut down, or its loop die.
CHECK_DEADLOCK FALSE
