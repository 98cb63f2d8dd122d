\* A reply whose entry names neither content nor player state.
CONSTANTS
  Contents = {"x", "y"}
  MaxSession = 2
  MaxChanges = 2
  Levels = {0}
  FixedVolume = {FALSE}
  Omissions <- MCSilentOmissions
  Remotes = {window}
  Confirming = {window}
  Gated = {window}
  Kinds = {"stop"}
  MaxCommands = 1
SPECIFICATION Spec
INVARIANT ConfirmedWasTrue
CHECK_DEADLOCK FALSE
