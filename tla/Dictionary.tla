------------------------------ MODULE Dictionary ------------------------------
(***************************************************************************)
(* What http_map.c and hashmap.c promise: a function from keys to values.  *)
(***************************************************************************)
CONSTANTS
  Keys,    \* strings used as keys
  Values,  \* strings used as values
  Null,    \* the value NULL, which http_map_set accepts
  Absent   \* what a key that is not there is mapped to

VARIABLE dict

TypeOK == dict \in [Keys -> Values \cup {Null, Absent}]

Init == dict = [k \in Keys |-> Absent]

Put(k, v) == dict' = [dict EXCEPT ![k] = v]

Remove(k) == /\ dict[k] # Absent
             /\ dict' = [dict EXCEPT ![k] = Absent]

Next ==
  \E k \in Keys : Remove(k) \/ \E v \in Values \cup {Null} : Put(k, v)

Spec == Init /\ [][Next]_dict
=============================================================================
