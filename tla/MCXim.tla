------------------------------- MODULE MCXim -------------------------------
(***************************************************************************)
(* X clients whose input is drawn on the spot or in a window of the server. *)
(* They are alike, so that a run without liveness may permute them.         *)
(***************************************************************************)
EXTENDS Xim

MCStyles == {"on", "root"}
MCSymmetry == Permutations(Clients)

=============================================================================
