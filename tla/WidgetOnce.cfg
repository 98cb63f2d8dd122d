\* Two taps, two TVs, a process death, a clock set back, a record with room for one claim.
CONSTANTS
  Taps = {a, b}
  Actions = {"key"}
  Devices = {d1, d2}
  Lifetime = 0
  Evictable = 2
  Retention = 3
  MaxEntries = 1
  Drift = 1
  MaxClock = 3
  MaxDeaths = 1
  MaxWindow = 0
  SlowRecord = TRUE
SPECIFICATION Spec
SYMMETRY MCSymmetry
VIEW SafetyView
INVARIANTS SentOnce OnlyTheTappedTv PendingIsExact
CHECK_DEADLOCK FALSE
