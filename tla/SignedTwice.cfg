SPECIFICATION Spec
CONSTANTS
  q1 = q1
  q2 = q2
  q3 = q3
  ann = ann
  bob = bob
  t1 = t1
  h1 = h1
  NoThread = NoThread
  NoQuestion = NoQuestion
  Question = {q1}
  Peer = {ann}
  Hash = {h1}
  Thread = {t1}
  Cli = {c1}
  Handler = {s1}
  From <- FromAnn
  Kind <- AllQuestions
  HashOf <- SameHash
  ThreadOf <- Unthreaded
  Snippet = {}
  AskedHere = {}
  Polled = {}
  InitPolicy <- Manual
  Policies = {}
  MaxPosts = 1
  MaxTexts = 1
  MaxSigned = 2
  MaxCrashes = 0
  MaxFaults = 1
INVARIANTS
  SignedOnce
