-------------------------------- MODULE MCMaps --------------------------------
(***************************************************************************)
(* HttpMap and HashMap on a small instance: each behaviour is of one kind. *)
(***************************************************************************)
EXTENDS HttpMap, HashMap, TLC

CONSTANTS k1, k2, k3, k4

VARIABLE kind

MCHash == k1 :> 0 @@ k2 :> 65533 @@ k3 :> 4 @@ k4 :> 2

MCInit == Init /\ HashInit /\ kind \in {"http_map", "hashmap"}

MCNext ==
  \/ kind = "http_map" /\ Next /\ UNCHANGED <<kind, hashVars>>
  \/ kind = "hashmap" /\ HashNext /\ UNCHANGED <<kind, vars>>

MCSpec == MCInit /\ [][MCNext]_<<vars, kind, hashVars>>

Addresses == Permutations(Blocks)
=============================================================================
