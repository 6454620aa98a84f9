SPECIFICATION FairSpec
CONSTANTS
  Main = Main
  Extra = Extra
  Files = {Main, Extra}
  a = a
  b = b
  Names = {a, b}
  Unreadable = Unreadable
  Texts <- MCTexts
  MaxDepth = 4
  MaxReloads = 1
  MaxEdits = 1
INVARIANTS NamesUnique MeetsReference
PROPERTIES WalkersAgree CrashMeansCycle ReadingEnds
CHECK_DEADLOCK FALSE
