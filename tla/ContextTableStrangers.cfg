\* What a connection without a session can do to the server.
SPECIFICATION Spec
CONSTANTS
  f1 = f1
  f2 = f2
  f3 = f3
  w1 = w1
  w2 = w2
  w3 = w3
  w4 = w4
  Fds <- TwoFds
  Handles <- FourHandles
  MaxContexts = 2
  NoFd = NoFd
  NoWin = NoWin
PROPERTY StrangersGetErrors
