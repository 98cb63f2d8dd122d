\* One tap whose job is recorded after the receiver stopped waiting.
CONSTANTS
  Taps = {a}
  Actions = {"key"}
  Devices = {d1}
  Lifetime = 1
  Evictable = 1
  Retention = 1
  MaxEntries = 1
  Drift = 0
  MaxClock = 1
  MaxDeaths = 0
  MaxWindow = 0
  SlowRecord = TRUE
SPECIFICATION Spec
INVARIANT NothingSentIsTrue
CHECK_DEADLOCK FALSE
