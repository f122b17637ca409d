\* Both toolkits, two widgets, three starts of the server.
SPECIFICATION Spec
CONSTANTS
  a = a
  b = b
  n1 = n1
  n2 = n2
  n3 = n3
  n4 = n4
  Widgets <- TwoWidgets
  Numbers <- FourNumbers
  Toolkits <- Both
  MaxStarts = 3
  Global = Global
  None = None
SYMMETRY Interchangeable
INVARIANTS LibraryMatchesServer GtkLeavesNothing QtNoticesRestart QtStaysConnected
