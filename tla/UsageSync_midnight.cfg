\* A collection begun before midnight commits after the whole day was synced.
\* The model stops at its bounds, hence no deadlock check.
SPECIFICATION Spec
CONSTANTS
  c1 = c1
  u1 = u1
  bg = bg
  ui = ui
  Background = {bg}
  Manual = {ui}
  DayLength = 2
  Days = 2
  Lookback = 1
  ExplicitRanges <- NoRange
  Cursors = {c1}
  NoCursor = NoCursor
  Usages = {u1, NoUsage}
  NoUsage = NoUsage
  MaxRuns = 2
  ClockGoesBack = FALSE
INVARIANTS NoDoubleCount
CHECK_DEADLOCK FALSE
