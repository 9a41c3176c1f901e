SPECIFICATION FairSpec
CONSTANTS
  q1 = q1
  q2 = q2
  p1 = p1
  p2 = p2
  h1 = h1
  Question = {q1}
  Peer = {p1}
  Hash = {h1}
  To <- ToOne
  HashOf <- SameHash
  Cached = {q1}
  Cli = {c1}
  Daemon = d1
  NoQuestion = NoQuestion
  NoPeer = NoPeer
  MaxCrashes = 2
  MaxFaults = 2
INVARIANTS
  AskKept
  
  
  
PROPERTIES
  KeepsDelivery
  
  
