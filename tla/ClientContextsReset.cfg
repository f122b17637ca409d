\* A reset may reach the context of another widget.
SPECIFICATION Spec
CONSTANTS
  a = a
  b = b
  n1 = n1
  n2 = n2
  n3 = n3
  n4 = n4
  Widgets <- TwoWidgets
  Numbers <- FourNumbers
  Toolkits <- Gtk
  MaxStarts = 2
  Global = Global
  None = None
SYMMETRY Interchangeable
PROPERTY ResetReachesOwn
