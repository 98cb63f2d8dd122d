\* Two connections, and a timer that may expire during a call.
CONSTANTS
  MaxClients = 2
  MaxTroubles = 1
SPECIFICATION RemoteSpec
PROPERTY ConnectionInUseStaysOpen
CHECK_DEADLOCK FALSE
