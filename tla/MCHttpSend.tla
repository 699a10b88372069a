------------------------------ MODULE MCHttpSend ------------------------------
(* HttpSend on a small instance: MCHttpSend.cfg gives the bounds.            *)
EXTENDS HttpSend
===============================================================================
