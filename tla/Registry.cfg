SPECIFICATION Spec
CONSTANTS
  a = a
  b = b
  l1 = l1
  h1 = h1
  None = None
  Names = {a, b}
  Confs <- Edited
  Loopers = {l1}
  Handlers = {h1}
  Entries = {1, 2, 3, 4, 5, 6}
  ReloadAlone = TRUE
  MaxLoads = 1
  MaxRequests = 1
  MaxFlips = 1
  MaxFailures = 1
  MaxExits = 1
  MaxReloads = 1
  MaxQuits = 1
INVARIANTS NoCircularWait AckedSaved AckedHolds OneWriter
PROPERTY DeletesUnknown
CHECK_DEADLOCK FALSE
