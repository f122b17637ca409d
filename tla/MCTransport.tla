----------------------------- MODULE MCTransport -----------------------------
(* A widget's process, which catches the restart signal, and wimectrl, which  *)
(* does not.  `Widgets` has two of the first kind.                            *)
EXTENDS Transport

CONSTANTS a, b

MCConns == 1 .. 2
MCCalls == (a :> {"SendKey"}) @@ (b :> {"ShowToolbar", "Log", "Finalize", "KillServer"})
Widgets == [p \in {a, b} |-> {"SendKey", "RegXWin"}]
==============================================================================
