----------------------------- MODULE MCFileSync -----------------------------
(* Small instances of one note on two or three devices. *)
EXTENDS FileSyncPair

MCPair == {1, 2}
MCTrio == {1, 2, 3}

(* Any fixed order of contents will do: here the binary number of the set. *)
MCHashOf == [c \in Content |->
    (IF 1 \in c THEN 1 ELSE 0) + (IF 2 \in c THEN 2 ELSE 0) + (IF 3 \in c THEN 4 ELSE 0)]
=============================================================================
