SPECIFICATION Spec
CONSTANTS
  Check = Check
  NoId = NoId
  o1 = o1
  Ops = {o1}
  Overrunning = {}
  Prompt = TRUE
  MaxTries = 2
  Requests = {}
  Switches = {"unmonitor"}
  MaxCommands = 1
  MaxCrashes = 0
  MaxRoutines = 2
  MaxPolls = 1
INVARIANT UnmonitorSticks
CHECK_DEADLOCK FALSE
