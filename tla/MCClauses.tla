----------------------------- MODULE MCClauses -----------------------------
(* A short and a voiced kana, and a mode with one extra form that the count *)
(* of status leaves out.                                                    *)
EXTENDS Clauses
InputsDef == {<<>>, <<"a">>, <<"k", "v">>, <<"a", "a", "a">>}
ModesDef == {<<"ctrl", "kata">>}
=============================================================================
