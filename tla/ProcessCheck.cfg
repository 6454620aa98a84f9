SPECIFICATION FairSpec
CONSTANTS
  Check = Check
  NoId = NoId
  o1 = o1
  Ops = {o1}
  Prompt = TRUE
  Overrunning = {}
  MaxTries = 2
  Requests = {"start", "stop", "restart"}
  Switches = {"monitor", "unmonitor"}
  MaxCommands = 2
  MaxCrashes = 1
  MaxRoutines = 3
  MaxPolls = 1
INVARIANTS AttemptsBounded GiveUpDeserved GivenUpStays
PROPERTIES SettledStays RestartOfRunning StopOfRunning Settles OperationsEnd
CHECK_DEADLOCK FALSE
