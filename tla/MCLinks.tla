------------------------------ MODULE MCLinks ------------------------------
(* Two devices, two links at once. *)
EXTENDS Links

=============================================================================
