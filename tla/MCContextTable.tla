--------------------------- MODULE MCContextTable ---------------------------
\* Finite instances of ContextTable for TLC.
EXTENDS ContextTable, TLC

CONSTANTS f1, f2, f3, w1, w2, w3, w4

TwoFds == {f1, f2}
ThreeFds == {f1, f2, f3}
FourHandles == {w1, w2, w3, w4}

\* Descriptors and handles are interchangeable in a safety property.
Interchangeable == Permutations(ThreeFds) \cup Permutations(FourHandles)
=============================================================================
