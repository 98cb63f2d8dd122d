\* Each component with its own bounds.
CONSTANTS
  \* BridgeCall
  Calls = {a, b}
  MaxProcess = 2
  Builds = {TRUE, FALSE}
  \* RemoteChannel
  MaxClients = 5
  MaxTroubles = 3
  \* RemoteCredentials
  MaxPairs = 5
  \* Discovery
  Tvs = {v1, v2}
  Addrs = {a1, a2}
  MaxScans = 2
  MaxMishaps = 1
  MaxMoves = 1
  Beside = FALSE
  \* AppLaunch
  MaxRequests = 2
  FrontReads = 2
  \* AcceptanceTrace
  MaxCommands = 1
  MaxSwitches = 2
  MaxLosses = 2
  MarkerLost = TRUE
  \* McpServer
  ToolCalls = {m1, m2, m3}
SPECIFICATION RequestsSpec
INVARIANTS RepliesDoNotCross RemoteIsInOrder CredentialsSurvive DiscoveryIsCurrent
  AppsAreHonest EvidenceIsSound McpIsSingleFlight
PROPERTIES KeepsThePromise NobodyWaitsForever McpKeepsThePromise EveryToolCallEnds
CHECK_DEADLOCK FALSE
