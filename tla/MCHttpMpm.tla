------------------------------ MODULE MCHttpMpm ------------------------------
(* HttpMpm on small instances. *)
EXTENDS HttpMpm, TLC

\* Connections are interchangeable; used in the safety runs only.
FrontendSymmetry == Permutations(Frontends)
=============================================================================
