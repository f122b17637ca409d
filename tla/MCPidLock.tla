------------------------------ MODULE MCPidLock ------------------------------
\* Finite instances of PidLock for TLC.
EXTENDS PidLock

CONSTANTS c1, c2, o1, o2, o3, o4, o5, o6

OneClient == {c1}
TwoClients == {c1, c2}
SixIds == {o1, o2, o3, o4, o5, o6}

OneAndServer == {{c1}, {c2}, {Server}, {c1, Server}}
AnyTogether == SUBSET {c1, c2, Server}
=============================================================================
