------------------------------- MODULE MCMerkle -------------------------------
(* Two notes in one folder. *)
EXTENDS Merkle

MCPath == {<<1, 1>>, <<1, 2>>}
MCTexts == {1, 2}
=============================================================================
