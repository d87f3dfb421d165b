\* The collector synchronises while two HTTP handlers preview and apply.
\* The model stops at its bounds, hence no deadlock check.
SPECIFICATION RSpec
CONSTANTS
  c1 = c1
  u1 = u1
  u2 = u2
  bg = bg
  ui = ui
  ui2 = ui2
  Background = {bg}
  Manual = {ui, ui2}
  DayLength = 3
  Days = 2
  Lookback = 9
  ExplicitRanges <- NoRange
  Cursors = {c1}
  NoCursor = NoCursor
  Usages = {u1, u2, NoUsage}
  NoUsage = NoUsage
  MaxRuns = 2
  ClockGoesBack = FALSE
  MaxPreviews = 1
  MaxTokens = 2
INVARIANTS TokenUsedOnce NoDoubleCount WholeAnswers
CHECK_DEADLOCK FALSE
