\* A tap and the window's requests on one bridge worker that may hang, no death.
CONSTANTS
  Taps = {a}
  Actions = {"key", "cast", "refresh"}
  Devices = {d1, d2}
  Lifetime = 1
  Evictable = 1
  Retention = 1
  MaxEntries = 1
  Drift = 0
  MaxClock = 2
  MaxDeaths = 0
  MaxWindow = 2
  SlowRecord = FALSE
SPECIFICATION Spec
PROPERTIES KeepsThePromise TapIsAnswered
CHECK_DEADLOCK FALSE
