SPECIFICATION FairSpec
CONSTANTS
  s1 = s1
  s2 = s2
  r1 = r1
  c1 = c1
  Session = {s1, s2}
  Started = {s1, s2}
  Record = {r1}
  Cmd = {c1}
  Lease = Lease
  NoSession = NoSession
  NoRecord = NoRecord
  NoRouting = NoRouting
  MaxCalls = 1
  MaxCrashes = 1
  MaxFaults = 1

  
PROPERTIES
  HandledIsForgotten
  DeadLosesIt
  EveryoneIsOffered
