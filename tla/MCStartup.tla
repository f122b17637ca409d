------------------------------ MODULE MCStartup ------------------------------
(* Two servers that start one after the other or at once, and two          *)
(* processes that wait for one, of which the second has a time limit.      *)
EXTENDS Startup

CONSTANTS s1, s2, w1, w2

MCServers == {s1, s2}
MCWaiters == {w1, w2}
MCTimed == {w2}
==============================================================================
