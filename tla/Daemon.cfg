SPECIFICATION Spec
CONSTANTS
  p1 = p1
  p2 = p2
  p3 = p3
  p4 = p4
  p5 = p5
  None = None
  Procs = {p1, p2, p3, p4, p5}
  StartAlone = TRUE
  Reuse = FALSE
  MaxCommands = 4
  MaxOthers = 1
INVARIANTS OneDaemon Findable NoVictims AckedKept AnswersHold
CHECK_DEADLOCK FALSE
