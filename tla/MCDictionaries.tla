--------------------------- MODULE MCDictionaries ---------------------------
\* Finite instances of Dictionaries for TLC.
EXTENDS Dictionaries, TLC

CONSTANTS f1, f2, w1, w2, d1, d2, m1, m2

TwoFds == {f1, f2}
TwoHandles == {w1, w2}
TwoNames == {d1, d2}
TwoModes == {m1, m2}

\* Names of which one begins, and one ends, another.
ThreeSpellings == {<<1>>, <<1, 2>>, <<2, 1>>}

\* Everything but the context numbers is interchangeable.
Interchangeable == Permutations(TwoFds) \cup Permutations(TwoHandles)
                     \cup Permutations(TwoNames) \cup Permutations(TwoModes)
=============================================================================
