---------------------------- MODULE MCWsgiContext ----------------------------
(* WsgiContext on small instances. *)
EXTENDS WsgiContext
=============================================================================
