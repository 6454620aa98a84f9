SPECIFICATION Spec
CONSTANTS
  Shells <- MCShells
  MaxRuns = 2
  MaxEdits = 1
INVARIANTS TypeOK SocketGuarded OwnFilesServe CheckedStarts
CHECK_DEADLOCK FALSE
