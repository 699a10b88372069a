---------------------------- MODULE MCConnections ----------------------------
(***************************************************************************)
(* Connections and ServerMemory on small instances: each behaviour is of   *)
(* one of them, and the variables of the other stay as they are.           *)
(***************************************************************************)
EXTENDS Connections, ServerMemory, FiniteSetsExt, TLC

-----------------------------------------------------------------------------
(* The programs of one thread *)

MCBlocks == 1 .. 46

Lowest(ps) == IF ps = {} THEN {} ELSE {Min(ps)}

MCCandidates(ps) == Lowest(ps) \cup Lowest(ps \ Lowest(ps))

\* Two names without a value.
MCForms == {<<FALSE, FALSE>>}

\* simple_client.c: id has no value, name has one.
MCValuedForms == {<<FALSE, TRUE>>}

-----------------------------------------------------------------------------
(* One of the two *)

Symmetry == Permutations(Frontends)

VARIABLE kind

NoProgram ==
  /\ Init
  /\ program = "none" /\ doing = "none" /\ ok = TRUE /\ code = Idle
  /\ ptr = [n \in Pointers |-> {}]
  /\ made = [p \in Blocks |-> "nothing"]
  /\ sock = [n \in Handles |-> NULL]

MCInit ==
  \/ kind = "program" /\ ConnInit /\ ServerInit
  \/ kind = "server" /\ NoProgram /\ ServerInit

MCNext ==
  /\ kind' = kind
  /\ \/ kind = "program" /\ ConnNext /\ UNCHANGED serverVars
     \/ kind = "server" /\ ServerNext /\ UNCHANGED vars

MCSpec == MCInit /\ [][MCNext]_<<kind, vars, serverVars>>
=============================================================================
