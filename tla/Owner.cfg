SPECIFICATION Spec
CONSTANTS
  q1 = q1
  q2 = q2
  q3 = q3
  ann = ann
  bob = bob
  t1 = t1
  h1 = h1
  NoThread = NoThread
  NoQuestion = NoQuestion
  Question = {q1, q2}
  Peer = {ann, bob}
  Hash = {h1}
  Thread = {t1}
  Cli = {c1}
  Handler = {s1}
  From <- FirstFromBob
  Kind <- FirstIsContent
  HashOf <- SameHash
  ThreadOf <- Unthreaded
  Snippet = {}
  AskedHere = {}
  Polled = {}
  InitPolicy <- OnlyBobAuto
  Policies = {"once", "never"}
  MaxPosts = 1
  MaxTexts = 2
  MaxSigned = 2
  MaxCrashes = 1
  MaxFaults = 1
INVARIANTS
  HumanGate
  ConsentGate
  OneInOutbox
  LoggedOnce
  LogSaysWhatWasSent
