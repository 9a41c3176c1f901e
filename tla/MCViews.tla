------------------------------ MODULE MCViews ------------------------------
EXTENDS Views
CONSTANTS ann, bob, t1, t2

TwoPeers == [r \in Record |-> IF r = 3 THEN bob ELSE ann]
InboxAndAsk == [r \in Record |-> IF r = 3 THEN "asks" ELSE "inbox"]
=============================================================================
