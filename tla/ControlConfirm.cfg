\* One remote, every command, people changing the media during its confirmation.
CONSTANTS
  Contents = {"x", "y"}
  MaxSession = 3
  MaxChanges = 2
  Levels = {0}
  FixedVolume = {TRUE, FALSE}
  Omissions <- MCOmissions
  Remotes = {window}
  Confirming = {window}
  Gated = {window}
  Kinds = {"play", "pause", "stop", "seek", "load", "close", "volume", "mute"}
  MaxCommands = 1
SPECIFICATION Spec
INVARIANTS NoConfirmationAfterContradiction
PROPERTY EveryCommandEnds
CHECK_DEADLOCK FALSE
