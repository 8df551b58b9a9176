---------------------------- MODULE MCConfigSync ----------------------------
(* Two paired devices and one plugin's data.json; 2 is saved by both, 3 is over the cap. *)
EXTENDS ConfigSync, TLC

CONSTANT dataJson

MCDevice == {1, 2}
MCPaired == {<<1, 2>>, <<2, 1>>}
MCWriters == 1 :> {1} @@ 2 :> {1, 2} @@ 3 :> {1}
MCAtStart == 1 :> {0, 1} @@ 2 :> {2}
=============================================================================
