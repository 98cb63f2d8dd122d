\* A stop that fails on the HLS path.
CONSTANTS
  Hosts = {window}
  Payloads = {"speakers", "headset"}
  Outputs = {"speakers", "headset"}
  MaxEvents = 0
  MaxFailures = 1
  MaxDeaths = 0
SPECIFICATION RouteSpec
INVARIANT TakenIsALiveStream
