\* As KeyMessages.cfg, for the claim about palettes.
SPECIFICATION KSpec
CONSTANTS
  f1 = f1
  w1 = w1
  w2 = w2
  Fds <- OneFd
  Handles <- TwoHandles
  MaxContexts = 2
  MaxQueue = 1
  NoFd = NoFd
  NoWin = NoWin
SYMMETRY Interchangeable
PROPERTIES PaletteAnnounced
