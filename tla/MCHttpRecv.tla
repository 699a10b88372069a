------------------------------ MODULE MCHttpRecv ------------------------------
(* HttpRecv on small instances. *)
EXTENDS HttpRecv
=============================================================================
