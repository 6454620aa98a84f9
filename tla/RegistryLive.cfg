SPECIFICATION FairSpec
CONSTANTS
  a = a
  b = b
  l1 = l1
  h1 = h1
  None = None
  Names = {a, b}
  Confs <- Reordered
  Loopers = {l1}
  Handlers = {h1}
  Entries = {1, 2, 3, 4, 5, 6}
  ReloadAlone = TRUE
  MaxLoads = 1
  MaxRequests = 1
  MaxFlips = 0
  MaxFailures = 1
  MaxExits = 0
  MaxReloads = 1
  MaxQuits = 1
PROPERTIES UpdatesEnd EventuallySaved TermEndsDaemon
CHECK_DEADLOCK FALSE
