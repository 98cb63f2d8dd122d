\* Each component of the screen stream with its own bounds.
CONSTANTS
  \* ScreenController
  MaxSessions = 3
  MaxFaults = 2
  \* StreamingSession
  Threads = {t1, t2, t3}
  MaxOps = 2
  \* CastHls
  Stoppers = {p1, p2}
  MaxSenders = 1
  MaxMishaps = 2
  \* AudioRoute
  Hosts = {window, assistant}
  Payloads = {"speakers", "headset"}
  Outputs = {"speakers", "headset"}
  MaxEvents = 1
  MaxFailures = 1
  MaxDeaths = 2
SPECIFICATION StreamSpec
INVARIANTS NothingLeaks CloseIsCarriedOut WayBackOnDisk StreamIsNotUndone BackToTheChoice
  OnlyOursIsOver LiveSessionIsShown
PROPERTIES CloseEnds SoundComesBack PublicationEnds NothingIsLeftSilently
CHECK_DEADLOCK FALSE
