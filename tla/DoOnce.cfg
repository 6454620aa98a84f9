SPECIFICATION FairSpec
CONSTANTS
  fast = fast
  slow = slow
  o1 = o1
  o2 = o2
  o3 = o3
  NoId = NoId
  Ids = {fast, slow}
  Overrunning = {slow}
  Ops = {o1, o2, o3}
INVARIANTS HeldHasOwner Exclusive
PROPERTY EventuallyFree
