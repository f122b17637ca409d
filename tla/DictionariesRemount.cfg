\* Two connections, two contexts, up to three dictionaries in each.  The server
\* may stop: after the stray access of a remount nothing is known.
SPECIFICATION DSpec
CONSTANTS
  f1 = f1
  f2 = f2
  w1 = w1
  w2 = w2
  d1 = d1
  d2 = d2
  m1 = m1
  m2 = m2
  Fds <- TwoFds
  Handles <- TwoHandles
  Names <- TwoNames
  Modes <- TwoModes
  MaxContexts = 2
  MaxDics = 3
  Spellings <- ThreeSpellings
  NoFd = NoFd
  NoWin = NoWin
SYMMETRY Interchangeable
CHECK_DEADLOCK FALSE
PROPERTY RemountMovesToHead
