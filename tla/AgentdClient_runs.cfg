SPECIFICATION FairSpec
CONSTANTS
  Workspace = {keyboard}
  NoWorkspace = NoWorkspace
  MaxOpens = 2
  MaxCalls = 2
  MaxEdits = 1
  MaxFaults = 4
  MaxHangs = 1
INVARIANTS OnItsWorkspace RestartsBounded
PROPERTIES EverythingSettles
CHECK_DEADLOCK FALSE
