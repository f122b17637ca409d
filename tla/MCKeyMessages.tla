--------------------------- MODULE MCKeyMessages ---------------------------
\* Finite instances of KeyMessages for TLC.
EXTENDS KeyMessages

CONSTANTS f1, w1, w2

OneFd == {f1}
TwoHandles == {w1, w2}
Interchangeable == Permutations(TwoHandles)
=============================================================================
