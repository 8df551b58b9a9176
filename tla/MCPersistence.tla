----------------------------- MODULE MCPersistence -----------------------------
(* Three changes, crashes and failing file operations. *)
EXTENDS Persistence

=============================================================================
