\* A profile is enabled while the program runs.
SPECIFICATION FairSpec
CONSTANTS
  Profiles <- Both
  FirstEnabled <- OnlyFirst
  FirstSecrets <- OnlyValid
  Interval = 1
  BackoffBase = 1
  BackoffMax = 2
  Exits = {}
  MaxEdits = 1
  MaxClicks = 0
  MaxFaults = 0
PROPERTIES
  EnabledIsCollected
\* The program may be shut down, or its loop die.
CHECK_DEADLOCK FALSE
