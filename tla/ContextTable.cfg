\* Three connections, three contexts, four window handles.
SPECIFICATION Spec
CONSTANTS
  f1 = f1
  f2 = f2
  f3 = f3
  w1 = w1
  w2 = w2
  w3 = w3
  w4 = w4
  Fds <- ThreeFds
  Handles <- FourHandles
  MaxContexts = 3
  NoFd = NoFd
  NoWin = NoWin
SYMMETRY Interchangeable
INVARIANTS WindowsExclusive OwnersConnected
PROPERTIES Isolation ImplementsSessions
