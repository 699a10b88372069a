----------------------------- MODULE MCSubprocess -----------------------------
(* Subprocess on a small instance. *)
EXTENDS Subprocess
=============================================================================
