--------------------------- MODULE MCQueueManager ---------------------------
(* A small instance of the send queue: two peers, one task for each and a  *)
(* deletion for everybody.                                                 *)
EXTENDS QueueManager, TLC

CONSTANTS p1, p2, everyone, t1, t2

MCPeer == {p1, p2}
MCTask == {t1, t2}
MCPeerOf == (t1 :> p1) @@ (t2 :> everyone)
MCPriorityOf == (t1 :> 1) @@ (t2 :> 2)
MCMaxEdits == (t1 :> 2) @@ (t2 :> 1)
MCRebuilt == {t2}
=============================================================================
