SPECIFICATION FairSpec
CONSTANTS
  Units = {"short", "long"}
  Unit <- TwoUnits
  Numbers <- MCNumbers
  None = None
  Malformed = Malformed
  Largest = 7
  CheckTimeout = 5
  Definitions <- MCDefinitions
  Interval = 2
  LongestLook = 1
INVARIANTS AnswersInTime SuccessSeen WaitsAsWritten
PROPERTY ImplementsWait
CHECK_DEADLOCK FALSE
