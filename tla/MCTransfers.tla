---------------------------- MODULE MCTransfers ----------------------------
(* Two files, in chunks and whole, for two peers. *)
EXTENDS Transfers

CONSTANTS phone, tablet, big, small

MCPeer == {phone, tablet}
MCTask == {big, small}
MCPeerOf == [t \in MCTask |-> IF t = big THEN phone ELSE tablet]
MCLarge == {big}
=============================================================================
