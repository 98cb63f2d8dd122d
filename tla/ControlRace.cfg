\* The window and the phone at one TV, one playback command each.
CONSTANTS
  Contents = {"x", "y"}
  MaxSession = 2
  MaxChanges = 1
  Levels = {0}
  FixedVolume = {FALSE}
  Omissions <- MCFewOmissions
  Remotes = {window, phone}
  Confirming = {window}
  Gated = {}
  Kinds = {"play", "pause", "stop", "seek"}
  MaxCommands = 1
SPECIFICATION Spec
INVARIANTS ConfirmedWasTrue SentAtMostOnce OnlyTheCapturedSession
CHECK_DEADLOCK FALSE
