SPECIFICATION Spec
CONSTANTS
  a = a
  b = b
  l1 = l1
  h1 = h1
  None = None
  Names = {a, b}
  Confs <- Same
  Loopers = {l1}
  Handlers = {h1}
  Entries = {1, 2, 3, 4, 5, 6}
  ReloadAlone = FALSE
  MaxLoads = 1
  MaxRequests = 1
  MaxFlips = 0
  MaxFailures = 0
  MaxExits = 0
  MaxReloads = 1
  MaxQuits = 1
INVARIANT AckedHolds
CHECK_DEADLOCK FALSE
