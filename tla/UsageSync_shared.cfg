\* Both threads may sync the first morning and so share one run; a handler
\* also syncs the rest of the two days, a run of two slices.
\* The model stops at its bounds, hence no deadlock check.
SPECIFICATION FairSpec
CONSTANTS
  c1 = c1
  u1 = u1
  bg = bg
  ui = ui
  Background = {bg}
  Manual = {ui}
  DayLength = 2
  Days = 2
  Lookback = 9
  ExplicitRanges <- MorningAndRest
  Cursors = {c1}
  NoCursor = NoCursor
  Usages = {u1}
  NoUsage = NoUsage
  MaxRuns = 2
  ClockGoesBack = TRUE
INVARIANTS CompletedRunCovered WholeAnswers
PROPERTIES ImplementsHistory LongSlicesStay SyncReturns
CHECK_DEADLOCK FALSE
