\* Two HTTP threads and the collector's thread, over two profiles and two days.
\* The model stops at its bounds, hence no deadlock check.
SPECIFICATION AlertSpec
CONSTANTS
  h1 = h1
  h2 = h2
  old = old
  new = new
  k1 = k1
  k2 = k2
  Handlers = {h1, h2}
  First = {old}
  Ids = {old, new}
  Keys = {k1, k2}
  RuleIds = {"rule"}
  Levels = {1}
  Days = 2
  MaxRequests = 3
SYMMETRY Symmetries
INVARIANTS
  KeysUnique
  ActiveExists
  NoOrphanKeys
  CrossingsAlerted
  HistoryTellsTruth
PROPERTIES
  EnabledOnRequest
  SyncAnswersForActive
  OneAlertPerRuleDay
CHECK_DEADLOCK FALSE
