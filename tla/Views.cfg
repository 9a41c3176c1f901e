SPECIFICATION Spec
CONSTANTS
  ann = ann
  bob = bob
  t1 = t1
  t2 = t2
  None = None
  Record = {1, 2, 3}
  Peer = {ann, bob}
  PeerOf <- TwoPeers
  Born <- InboxAndAsk
  Answers = {1, 2}
  Terminal = {t1}
  Ops = {"inbox", "new", "claude", "show", "json", "thread", "threads", "history", "watch", "follow", "number", "reply"}
  EventsMax = 2
  TaskStates = {"working"}
  MaxCommands = 2
INVARIANTS
  TimelineComplete
  
  NumberStands
  
CHECK_DEADLOCK FALSE
