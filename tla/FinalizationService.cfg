SPECIFICATION Fair
CONSTANTS
  Launchers = {l1}
  Restarted = {x1}
  Keys = {k, other}
  RunKey = k
  MaxRev = 2
  MaxCrashes = 1
CHECK_DEADLOCK FALSE
INVARIANTS
  AnswersHold
  NoChildLeft
PROPERTIES
  LauncherEnds
  ConsumedIsSettled
