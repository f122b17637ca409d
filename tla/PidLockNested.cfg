\* A handler may wait for the token of the call that it has interrupted.
SPECIFICATION FairSpec
CONSTANTS
  c1 = c1
  c2 = c2
  o1 = o1
  o2 = o2
  o3 = o3
  o4 = o4
  o5 = o5
  o6 = o6
  Clients <- OneClient
  Ids <- SixIds
  Server = Server
  None = None
  TableSize = 1
  Together <- OneAndServer
  MaxStarts = 1
CHECK_DEADLOCK FALSE
PROPERTY EveryCallReturns
