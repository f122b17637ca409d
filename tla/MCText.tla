------------------------------- MODULE MCText -------------------------------
(* The two conversions of text that the server does by tables of its own:  *)
(* kana (Kana) and part-of-speech codes (Hinshi).  They share no state; an *)
(* instance either converts strings or reads files.                        *)
EXTENDS Kana, Hinshi

MCCombine == {<<"ka", "hira">>, <<"ka", "kata">>}
MCLines == {[kind |-> "comment", code |-> 0, patterns |-> <<>>],
            [kind |-> "malformed", code |-> 0, patterns |-> <<>>],
            [kind |-> "entry", code |-> 1, patterns |-> <<"T35">>],
            [kind |-> "entry", code |-> 2, patterns |-> <<"(", "KK">>],
            [kind |-> "entry", code |-> 3, patterns |-> <<>>]}
MCMatches == {<<"T35", "T35">>, <<"KK", "KK">>, <<"KK", "T35">>}

TInit == KInit /\ HInit
TNext == \/ /\ reads = 0 /\ home = NoFile /\ system = NoFile
            /\ Type
            /\ UNCHANGED hinshiVars
         \/ /\ src = <<>>
            /\ HNext
            /\ UNCHANGED src
TSpec == TInit /\ [][TNext]_<<src, hinshiVars>>
==============================================================================
