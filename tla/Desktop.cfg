\* Each component with its own bounds.
CONSTANTS
  \* DisplayManager
  Outputs = {"A", "B"}
  Settings = {"off", "on", "main", "across"}
  Usable <- MCUsable
  Initial <- MCInitial
  MaxChanges = 3
  MayFail = TRUE
  Modes <- MCModes
  MaxCoordinate = 4
  \* ExtendedDisplay
  Hosts = {window, assistant}
  Payloads = {"beside", "shifted"}
  MaxMoves = 1
  MaxFaults = 1
  MaxKills = 1
  \* ProcessGroup, LiveEncoder, Screencast
  Groups = {g1, g2}
  LiveGroup = g1
  Stewards = {s1, s2}
  MaxErrors = 2
  MaxTroubles = 2
SPECIFICATION DesktopSpec
INVARIANTS WayBack CheckIsExact ExtensionIsSafe EncodersAreTracked
PROPERTIES RevertsByItself RecoveryKeepsTheOwnersDesktop DesktopComesBack EveryCallEnds
CHECK_DEADLOCK FALSE
