\* Two clients, their handlers and the server; one client and the server may be
\* in calls at once, and handlers on top of them.  The system may stop: both
\* clients may have ended and the server have started.
SPECIFICATION FairSpec
CONSTANTS
  c1 = c1
  c2 = c2
  o1 = o1
  o2 = o2
  o3 = o3
  o4 = o4
  o5 = o5
  o6 = o6
  Clients <- TwoClients
  Ids <- SixIds
  Server = Server
  None = None
  TableSize = 1
  Together <- OneAndServer
  MaxStarts = 1
CHECK_DEADLOCK FALSE
INVARIANTS TokenKept RecordedIfSerial StuckOnlyInRing
PROPERTY CallsReturnUnlessRing
