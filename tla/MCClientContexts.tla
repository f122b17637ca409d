--------------------------- MODULE MCClientContexts ---------------------------
\* Finite instances of ClientContexts for TLC.
EXTENDS ClientContexts, TLC

CONSTANTS a, b, n1, n2, n3, n4

TwoWidgets == {a, b}
FourNumbers == {n1, n2, n3, n4}
Gtk == {"gtk"}
Both == {"gtk", "qt"}

Interchangeable == Permutations(TwoWidgets) \cup Permutations(FourNumbers)
=============================================================================
