SPECIFICATION FairSpec
CONSTANTS
  OldId = OldId
  NewId = NewId
  NoId = NoId
  o1 = o1
  Ops = {o1}
  Prompt = TRUE
  MaxTries = 1
  Requests = {"stop"}
  Switches = {}
  MaxCommands = 1
  MaxCrashes = 0
  MaxRoutines = 2
  MaxPolls = 1
PROPERTIES DownAcrossReload OldRetires
CHECK_DEADLOCK FALSE
