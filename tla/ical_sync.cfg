SPECIFICATION Spec
CONSTANTS
  Workers = {w1, w2}
  Nobody = nobody
  Uids = {1, 2}
  Stays <- StaysChosen
  Histories <- HistoriesChosen
  StaleAfter = 1
  MaxRuns = 3
  MaxTime = 1
INVARIANTS
  NoChannelOverlap
  NothingSeenIsForgotten
  HealthTellsTheLastOutcome
PROPERTIES
  VersionsNeverGoBack
  ReportsMatchTheTables
