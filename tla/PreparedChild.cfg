SPECIFICATION Spec
CONSTANTS
  Launchers = {l1}
  Restarted = {}
  Keys = {k, other}
  RunKey = k
  MaxRev = 2
  MaxCrashes = 0
CHECK_DEADLOCK FALSE
INVARIANT
  PreparedChildReaped
