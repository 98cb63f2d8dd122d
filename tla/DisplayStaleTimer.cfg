\* Two changes: a timer that fired while the owner kept its change.
CONSTANTS
  Outputs = {"A", "B"}
  Settings = {"off", "on", "main"}
  Usable <- MCUsable
  Initial <- MCInitial
  MaxChanges = 2
  MayFail = FALSE
  Modes <- MCModes
  MaxCoordinate = 4
SPECIFICATION Spec
INVARIANT RevertedByItsOwnTimer
CHECK_DEADLOCK FALSE
