\* With contention a registered client may be missing from the table.
SPECIFICATION Spec
CONSTANTS
  c1 = c1
  c2 = c2
  o1 = o1
  o2 = o2
  o3 = o3
  o4 = o4
  o5 = o5
  o6 = o6
  Clients <- TwoClients
  Ids <- SixIds
  Server = Server
  None = None
  TableSize = 2
  Together <- AnyTogether
  MaxStarts = 1
CHECK_DEADLOCK FALSE
INVARIANT RegisteredIsRecorded
