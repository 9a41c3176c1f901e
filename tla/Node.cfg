SPECIFICATION Spec
CONSTANTS
  t1 = t1
  t2 = t2
  None = None
  Terminal <- MCTerminal
  Build <- MCBuild
  MaxEvents = 3
  Kinds = {"question", "content"}
  MaxBook = 1
INVARIANTS PrintedIsKept UpdatedRuns AcceptedIsHeld StoredFromContact
PROPERTIES ServiceListens CallEnds
CHECK_DEADLOCK FALSE
